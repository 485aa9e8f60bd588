---------------------------- MODULE EspNowProofs ----------------------------
(***************************************************************************)
(* Theorems about module EspNow.  Types and acknowledgements are proved    *)
(* for any set of peers.  That messages are whole and in order is proved   *)
(* for one peer: reassembly_ does not tell peers apart, and with two the   *)
(* fragments of one may complete a message of the other.                   *)
(***************************************************************************)
EXTENDS EspNow, TLAPS

-----------------------------------------------------------------------------
(* The inductive invariants. *)

(* The assembly counts what is in the buffer, and a message is handed on   *)
(* with its last fragment still in hand.                                   *)
Assembling ==
  /\ ~reassembly.active => reassembly.received = 0
  /\ reassembly.active => reassembly.received \in 1..reassembly.expected - 1
  /\ reassembly.received <= Len(buf)
  /\ complete => ~reassembly.active /\ Len(buf) > 0 /\ item = buf[Len(buf)]

(* Who sends has a fragment of its last message in hand. *)
Sending ==
  \A p \in Peers : pc[p] # "idle" =>
    /\ tx[p] # None
    /\ tx[p].peer = p /\ tx[p].msg = sent[p] /\ tx[p].idx < tx[p].total

TypeInv == TypeOK /\ Assembling /\ Sending

(* The writer of peer p, the radio and the semaphore pass one fragment     *)
(* round, as long as the writer waits for each send-done.                  *)
Fresh(p) == air[p] = None /\ ~send_cb[p] /\ ~tx_done_sem[p]
Answered(p) == tx_success[p] => tx[p] \in acked
InStep(p) ==
  /\ pc[p] \in {"idle", "send", "check"} => Fresh(p)
  /\ pc[p] = "wait" =>
       \/ air[p] = tx[p] /\ ~send_cb[p] /\ ~tx_done_sem[p]
       \/ air[p] = None /\ (send_cb[p] # tx_done_sem[p]) /\ Answered(p)
  /\ pc[p] = "check" => mode[p] = "write" /\ Answered(p)
  /\ pc[p] # "idle" /\ mode[p] = "write" =>
       \A i \in 0..tx[p].idx - 1 : [tx[p] EXCEPT !.idx = i] \in acked

(* All the fragments of f's message are acknowledged; of two in a row      *)
(* among the first n + 1, one is.                                          *)
Nth(f, i) == [f EXCEPT !.idx = i]
Done(f) == \A i \in 0..f.total - 1 : Nth(f, i) \in acked
NoTwoLost(f, n) == \A i \in 1..n : Nth(f, i - 1) \in acked \/ Nth(f, i) \in acked

(* Whether it waits or not, the radio is at most one fragment behind it:   *)
(* what the radio last reported is the outcome of that one or this one.    *)
OneBehind(p) ==
  /\ NoTwoLost(tx[p], tx[p].idx - 1)
  /\ pc[p] = "send" /\ tx[p].idx > 0 =>
       \/ air[p] = Nth(tx[p], tx[p].idx - 1)
       \/ air[p] = None /\ (tx_success[p] => Nth(tx[p], tx[p].idx - 1) \in acked)
  /\ pc[p] \in {"wait", "check"} =>
       \/ /\ air[p] = tx[p]
          /\ tx_success[p] /\ tx[p].idx > 0 => Nth(tx[p], tx[p].idx - 1) \in acked
       \/ air[p] = None /\ Answered(p)
Behind(p) == pc[p] # "idle" /\ mode[p] = "write" => OneBehind(p)

AckInv ==
  /\ \A p \in Peers \ gave_up : InStep(p)
  /\ \A p \in Peers : Behind(p)
  /\ ReportedMeansDone

(* Fragments leave a peer in the order of their messages and their place.  *)
Before(f, g) == f.msg < g.msg \/ (f.msg = g.msg /\ f.idx < g.idx)

InQueue == {rx_queue[k] : k \in 1..Len(rx_queue)} \ {None}
Held == IF complete THEN Len(buf) ELSE reassembly.received
Assembled == {buf[i] : i \in 1..Held}
LastOf(m) == m[Len(m)]
Lasts == {LastOf(delivered[k]) : k \in 1..Len(delivered)}
Arrived == queued \cup Lasts

Members ==
  /\ InQueue \subseteq queued
  /\ Assembled \subseteq queued
  /\ item # None => item \in queued
  /\ Lasts \subseteq Fragments

WellNumbered(f) == f.seq = MsgSeq(f.msg) /\ f.idx < f.total
OnTheWay == ({air[p] : p \in Peers} \cup {tx[p] : p \in Peers}) \ {None}
Numbered ==
  /\ \A f \in queued \cup OnTheWay : WellNumbered(f)
  /\ \A f, g \in queued \cup OnTheWay : f.msg = g.msg => f.peer = g.peer /\ f.total = g.total

Coming ==
  \A p \in Peers :
    /\ \A f \in Arrived : air[p] # None => Before(f, air[p])
    /\ \A f \in Arrived \cup ({air[p]} \ {None}) :
         /\ f.msg <= sent[p]
         /\ tx[p] # None => Before(f, tx[p]) \/ (pc[p] # "send" /\ f = tx[p])

Queue ==
  /\ \A j, k \in 1..Len(rx_queue) :
       j < k /\ rx_queue[j] # None /\ rx_queue[k] # None => Before(rx_queue[j], rx_queue[k])
  /\ \A f \in Lasts \cup Assembled \cup ({item} \ {None}), g \in InQueue : Before(f, g)
  /\ item # None /\ ~complete => \A f \in Lasts \cup Assembled : Before(f, item)

Assembly ==
  /\ reassembly.active => reassembly.expected = buf[1].total
  /\ complete => Len(buf) = buf[1].total
  /\ \A i \in 1..reassembly.received : buf[i].seq = reassembly.msg_seq
  /\ \A i \in 1..Held : buf[i].idx = i - 1
  /\ \A i \in 2..Held : buf[i - 1].msg = buf[i].msg \/ buf[i - 1].msg + SeqMod <= buf[i].msg
  /\ \A i, j \in 1..Held : i < j => buf[i].msg <= buf[j].msg
  /\ \A f \in Lasts, i \in 1..Held : Before(f, buf[i])

OrderInv == Members /\ Numbered /\ Coming /\ Queue /\ Assembly /\ MessagesWhole

(* What became of a fragment the RX task has taken, when all before it in  *)
(* its message reached the queue: it is in the buffer, behind those, or a  *)
(* later one of its message never reached the queue.                       *)
Kept(f) == f.idx + 1 <= Held /\ \A i \in 0..f.idx : buf[i + 1] = Nth(f, i)
Passed(f) == f \notin queued /\ \E g \in (queued \ InQueue) \cup Lasts : Before(f, g)
Broken(f) == \E j \in f.idx + 1..f.total - 1 : Passed(Nth(f, j))
Followed ==
  \A f \in queued :
    (\A i \in 0..f.idx : Nth(f, i) \in queued) /\ ~Pending(f) => Kept(f) \/ Broken(f)
-----------------------------------------------------------------------------
(* Message numbers. *)

LEMMA MsgSeqIs ==
  ASSUME NEW n \in Nat \ {0}
  PROVE  MsgSeq(n) \in 0..SeqMod - 1
<1>1. \A M \in Nat \ {0}, a \in Nat : a % M \in 0..M - 1
  OBVIOUS
<1> QED BY <1>1, EspNowAssumption DEF EspNowAssumption, MsgSeq

(* Messages with the same number are at least a turn of the counter apart. *)
LEMMA TurnApart ==
  ASSUME NEW m \in Nat \ {0}, NEW n \in Nat \ {0}, m < n, MsgSeq(m) = MsgSeq(n)
  PROVE  m + SeqMod <= n
<1> DEFINE M == SeqMod  a == m - 1  b == n - 1  q == a \div M  r == b \div M
<1>0. M \in Nat \ {0} /\ a \in Nat /\ b \in Nat /\ a < b
  BY EspNowAssumption DEF EspNowAssumption
<1>1. a % M = b % M
  BY DEF MsgSeq
<1> HIDE DEF M, a, b
<1>2. a = M * q + (a % M) /\ q \in Int /\ a % M \in 0..M - 1
  BY <1>0
<1>3. b = M * r + (b % M) /\ r \in Int
  BY <1>0
<1> HIDE DEF q, r
<1>4. b - a = M * (r - q)
  BY <1>0, <1>1, <1>2, <1>3
<1>5. r - q > 0
  BY <1>0, <1>2, <1>3, <1>4
<1>6. M * (r - q) >= M
  BY <1>0, <1>2, <1>3, <1>5
<1> QED BY <1>0, <1>4, <1>6 DEF M, a, b

-----------------------------------------------------------------------------
(* Fragments. *)

LEMMA NthIs ==
  ASSUME NEW f \in Fragments, NEW i \in 0..MaxFrags - 1
  PROVE  /\ Nth(f, i) \in Fragments
         /\ Nth(f, i).idx = i
         /\ Nth(f, i).msg = f.msg /\ Nth(f, i).peer = f.peer
         /\ Nth(f, i).seq = f.seq /\ Nth(f, i).total = f.total
BY DEF Nth, Fragments

LEMMA FragmentIs ==
  ASSUME NEW f \in Fragments
  PROVE  /\ f # None
         /\ f.peer \in Peers
         /\ f.msg \in 1..MaxMessages /\ f.msg \in Nat \ {0}
         /\ f.seq \in 0..SeqMod - 1
         /\ f.idx \in 0..MaxFrags - 1 /\ f.idx \in Nat
         /\ f.total \in 1..MaxFrags /\ f.total \in Nat
         /\ f.total \in Totals
<1>1. f # None
  BY NoneAssumption
<1>2. /\ f.peer \in Peers /\ f.msg \in 1..MaxMessages /\ f.seq \in 0..SeqMod - 1
      /\ f.idx \in 0..MaxFrags - 1 /\ f.total \in Totals
  BY DEF Fragments
<1>3. f.total \in 1..MaxFrags
  BY <1>2, EspNowAssumption DEF EspNowAssumption
<1>4. f.msg \in Nat \ {0} /\ f.idx \in Nat /\ f.total \in Nat
  BY <1>2, <1>3
<1> QED BY <1>1, <1>2, <1>3, <1>4

(* Fragments that agree in all but their place are fragments of one        *)
(* message.                                                                *)
LEMMA SameMessage ==
  ASSUME NEW f \in Fragments, NEW g \in Fragments,
         f.peer = g.peer, f.msg = g.msg, f.seq = g.seq, f.total = g.total
  PROVE  g = Nth(f, g.idx)
BY DEF Nth, Fragments

LEMMA NthSame == ASSUME NEW f \in Fragments PROVE Nth(f, f.idx) = f
BY DEF Nth, Fragments

LEMMA NthNth ==
  ASSUME NEW f \in Fragments, NEW i, NEW j
  PROVE  Nth(Nth(f, i), j) = Nth(f, j)
BY DEF Nth, Fragments

-----------------------------------------------------------------------------
(* Types. *)

SenderStep(p) ==
  Begin(p) \/ SendFragment(p) \/ WaitDone(p) \/ CheckSuccess(p) \/ WaitTimeout(p)
RadioStep(p) == Transmit(p) \/ SendCbGive(p)

LEMMA NextCases ==
  ASSUME [Next]_vars
  PROVE  \/ \E p \in Peers : SenderStep(p) \/ RadioStep(p)
         \/ Stray \/ Flush \/ RxTask
         \/ UNCHANGED vars
BY DEF Next, SenderStep, RadioStep

LEMMA SenderFrame ==
  ASSUME NEW p \in Peers, SenderStep(p)
  PROVE  /\ UNCHANGED <<rx_queue, queued, taskVars, tx_success, send_cb>>
         /\ UNCHANGED air \/ SendFragment(p)
         /\ UNCHANGED tx_done_sem \/ WaitDone(p)
BY DEF SenderStep, Begin, SendFragment, WaitDone, CheckSuccess, WaitTimeout, radioVars

LEMMA RadioFrame ==
  ASSUME NEW p \in Peers, RadioStep(p)
  PROVE  UNCHANGED <<pc, mode, tx, sent, gave_up, reported, taskVars>>
BY DEF RadioStep, Transmit, SendCbGive, senderVars

LEMMA QueueFrame ==
  ASSUME Stray \/ Flush
  PROVE  UNCHANGED <<senderVars, tx_done_sem, radioVars, taskVars>>
BY DEF Stray, Flush

LEMMA TaskFrame ==
  ASSUME RxTask
  PROVE  /\ UNCHANGED <<senderVars, tx_done_sem, radioVars>>
         /\ UNCHANGED rx_queue \/ Receive
         /\ UNCHANGED queued \/ Deliver
BY DEF RxTask, Receive, Restart, DropOrphan, DropOutOfOrder, Continue, Deliver,
       AppendFragment, DropFragment

LEMMA TypesInit == Init => TypeInv
<1> SUFFICES ASSUME Init PROVE TypeInv
  OBVIOUS
<1>1. SenderTypeOK
  BY EspNowAssumption DEF Init, SenderTypeOK, EspNowAssumption
<1>2. RadioTypeOK
  BY DEF Init, RadioTypeOK
<1>3. QueueTypeOK
  BY EspNowAssumption DEF Init, QueueTypeOK, EspNowAssumption
<1>4. TaskTypeOK
  <2>1. item \in Fragments \cup {None} /\ delivered \in Seq(Seq(Fragments))
    BY DEF Init
  <2>2. buf \in Seq(Fragments) /\ Len(buf) <= MaxFrags
    BY EspNowAssumption DEF Init, EspNowAssumption
  <2>3. reassembly \in [active : BOOLEAN, msg_seq : 0..SeqMod - 1,
                        expected : 0..MaxFrags, received : 0..MaxFrags]
    BY EspNowAssumption DEF Init, EspNowAssumption, NoMessage
  <2>4. complete \in BOOLEAN
    BY Zenon DEF Init
  <2> QED BY <2>1, <2>2, <2>3, <2>4 DEF TaskTypeOK
<1>5. Assembling
  BY DEF Init, Assembling, NoMessage
<1>6. Sending
  BY DEF Init, Sending
<1> QED BY <1>1, <1>2, <1>3, <1>4, <1>5, <1>6 DEF TypeInv, TypeOK

(* send() and write(): the sender's fragment *)
LEMMA SenderTyped ==
  ASSUME TypeInv, NEW p \in Peers, SenderStep(p)
  PROVE  SenderTypeOK' /\ RadioTypeOK' /\ Sending'
<1> USE DEF TypeInv, TypeOK
<1>0. \A q \in Peers : tx[q] # None => tx[q] \in Fragments
  BY DEF SenderTypeOK
<1>1. CASE Begin(p)
  <2>1. PICK how \in {"write", "write_async"}, total \in Totals :
          /\ mode' = [mode EXCEPT ![p] = how]
          /\ tx' = [tx EXCEPT ![p] =
                      [peer |-> p, msg |-> sent[p] + 1, seq |-> MsgSeq(sent[p] + 1),
                       idx |-> 0, total |-> total]]
    BY <1>1 DEF Begin
  <2> DEFINE first == [peer |-> p, msg |-> sent[p] + 1, seq |-> MsgSeq(sent[p] + 1),
                       idx |-> 0, total |-> total]
  <2>2. sent[p] + 1 \in Nat \ {0} /\ sent[p] + 1 \in 1..MaxMessages
    BY <1>1, EspNowAssumption DEF Begin, SenderTypeOK, EspNowAssumption
  <2>3. MsgSeq(sent[p] + 1) \in 0..SeqMod - 1
    BY <2>2, MsgSeqIs
  <2>4. total \in 1..MaxFrags /\ 0 \in 0..MaxFrags - 1
    BY EspNowAssumption DEF EspNowAssumption
  <2>5. first \in Fragments
    BY <2>2, <2>3, <2>4 DEF Fragments
  <2>6. /\ first.peer = p /\ first.msg = sent[p] + 1 /\ first.idx = 0 /\ first.total = total
        /\ tx' = [tx EXCEPT ![p] = first]
    BY <2>1
  <2> HIDE DEF first
  <2>7. SenderTypeOK'
    BY <1>1, <2>1, <2>2, <2>5, <2>6 DEF Begin, SenderTypeOK
  <2>8. RadioTypeOK'
    BY <1>1 DEF Begin, RadioTypeOK, radioVars
  <2>9. Sending'
    BY <1>1, <2>4, <2>5, <2>6, FragmentIs DEF Begin, Sending, SenderTypeOK
  <2> QED BY <2>7, <2>8, <2>9
<1>2. CASE SendFragment(p)
  BY <1>2 DEF SendFragment, SenderTypeOK, RadioTypeOK, Sending
<1>3. CASE WaitTimeout(p)
  BY <1>3 DEF WaitTimeout, SenderTypeOK, RadioTypeOK, Sending, radioVars
<1>4. ASSUME NextFragment(p), tx[p] # None, tx[p].peer = p, tx[p].msg = sent[p],
             UNCHANGED <<mode, sent, acked, gave_up>>
      PROVE  SenderTypeOK' /\ Sending'
  <2>1. CASE tx[p].idx + 1 < tx[p].total
    <3> DEFINE next == Nth(tx[p], tx[p].idx + 1)
    <3>1. tx[p] \in Fragments
      BY <1>0, <1>4
    <3>2. tx[p].idx + 1 \in 0..MaxFrags - 1
      BY <2>1, <3>1, FragmentIs, EspNowAssumption DEF EspNowAssumption
    <3>3. /\ next \in Fragments
          /\ next.idx = tx[p].idx + 1 /\ next.msg = tx[p].msg /\ next.peer = tx[p].peer
          /\ next.total = tx[p].total
      BY <3>1, <3>2, NthIs
    <3>4. tx' = [tx EXCEPT ![p] = next] /\ pc' = [pc EXCEPT ![p] = "send"]
          /\ reported' = reported
      BY <1>4, <2>1 DEF NextFragment, SenderTypeOK, Nth
    <3> HIDE DEF next
    <3>5. next # None
      BY <3>3, FragmentIs
    <3> QED BY <1>4, <2>1, <3>3, <3>4, <3>5 DEF SenderTypeOK, Sending
  <2>2. CASE ~(tx[p].idx + 1 < tx[p].total)
    BY <1>4, <2>2 DEF NextFragment, SenderTypeOK, Sending
  <2> QED BY <2>1, <2>2
<1>5. CASE WaitDone(p)
  <2>1. RadioTypeOK'
    BY <1>5 DEF WaitDone, RadioTypeOK, radioVars
  <2>2. CASE mode[p] = "write"
    BY <1>5, <2>1, <2>2 DEF WaitDone, SenderTypeOK, Sending
  <2>3. CASE mode[p] # "write"
    BY <1>4, <1>5, <2>1, <2>3 DEF WaitDone, Sending
  <2> QED BY <2>2, <2>3
<1>6. CASE CheckSuccess(p)
  <2>1. RadioTypeOK'
    BY <1>6 DEF CheckSuccess, RadioTypeOK, radioVars
  <2>2. CASE tx_success[p]
    BY <1>4, <1>6, <2>1, <2>2 DEF CheckSuccess, Sending
  <2>3. CASE ~tx_success[p]
    BY <1>6, <2>1, <2>3 DEF CheckSuccess, SenderTypeOK, Sending
  <2> QED BY <2>2, <2>3
<1> QED BY <1>1, <1>2, <1>3, <1>5, <1>6 DEF SenderStep

(* recv_cb(): one frame more in the queue, and never more than it holds *)
LEMMA RecvIs ==
  ASSUME QueueTypeOK, NEW frame \in Fragments \cup {None}, RecvCb(frame)
  PROVE  /\ QueueTypeOK'
         /\ \/ UNCHANGED <<rx_queue, queued>>
            \/ rx_queue' = Append(rx_queue, frame) /\ queued' = queued \cup ({frame} \ {None})
<1>1. CASE Len(rx_queue) < QueueLen
  <2>1. rx_queue' = Append(rx_queue, frame) /\ queued' = queued \cup ({frame} \ {None})
    BY <1>1 DEF RecvCb
  <2>2. Len(rx_queue') = Len(rx_queue) + 1 /\ rx_queue' \in Seq(Fragments \cup {None})
    BY <2>1 DEF QueueTypeOK
  <2> QED BY <1>1, <2>1, <2>2, EspNowAssumption DEF QueueTypeOK, EspNowAssumption
<1>2. CASE ~(Len(rx_queue) < QueueLen)
  BY <1>2 DEF RecvCb, QueueTypeOK
<1> QED BY <1>1, <1>2

LEMMA RadioTyped ==
  ASSUME TypeInv, NEW p \in Peers, RadioStep(p)
  PROVE  RadioTypeOK' /\ QueueTypeOK' /\ acked' \subseteq Fragments
<1> USE DEF TypeInv, TypeOK
<1>1. CASE Transmit(p)
  <2>1. air[p] \in Fragments
    BY <1>1 DEF Transmit, RadioTypeOK
  <2>2. QueueTypeOK'
    BY <1>1, <2>1, RecvIs DEF Transmit, QueueTypeOK
  <2>3. RadioTypeOK'
    BY <1>1 DEF Transmit, RadioTypeOK
  <2> QED BY <1>1, <2>1, <2>2, <2>3 DEF Transmit, SenderTypeOK
<1>2. CASE SendCbGive(p)
  BY <1>2 DEF SendCbGive, RadioTypeOK, QueueTypeOK, SenderTypeOK, senderVars
<1> QED BY <1>1, <1>2 DEF RadioStep

(* A stray frame or a flush changes the queue alone. *)
LEMMA StrayIs ==
  ASSUME QueueTypeOK, Stray
  PROVE  rx_queue' = Append(rx_queue, None) /\ queued' = queued /\ QueueTypeOK'
BY RecvIs DEF Stray

LEMMA QueueTyped ==
  ASSUME TypeInv, Stray \/ Flush
  PROVE  QueueTypeOK'
<1>1. CASE Stray
  BY <1>1, StrayIs DEF TypeInv, TypeOK
<1>2. CASE Flush
  BY <1>2, EspNowAssumption DEF Flush, TypeInv, TypeOK, QueueTypeOK, EspNowAssumption
<1> QED BY <1>1, <1>2

(* The fragment goes behind those of its assembly. *)
LEMMA AppendIs ==
  ASSUME TypeInv, item \in Fragments, ~complete,
         NEW r \in [active : BOOLEAN, msg_seq : 0..SeqMod - 1,
                    expected : 0..MaxFrags, received : 0..MaxFrags],
         r.received < r.expected, r.received <= Len(buf), r.active,
         AppendFragment(r)
  PROVE  /\ buf' \in Seq(Fragments)
         /\ Len(buf') = r.received + 1
         /\ buf'[r.received + 1] = item
         /\ \A i \in 1..r.received : buf'[i] = buf[i]
         /\ TaskTypeOK' /\ Assembling'
         /\ UNCHANGED delivered
         /\ \/ /\ r.received + 1 < r.expected
               /\ ~complete' /\ item' = None
               /\ reassembly' = [r EXCEPT !.received = r.received + 1]
            \/ /\ r.received + 1 = r.expected
               /\ complete' /\ item' = item
               /\ reassembly'.received = 0 /\ ~reassembly'.active
<1> DEFINE n == r.received  head == SubSeq(buf, 1, n)
<1>1. n \in Nat /\ n + 1 <= MaxFrags /\ r.expected \in 0..MaxFrags /\ n + 1 <= r.expected
  BY EspNowAssumption DEF EspNowAssumption
<1>2. buf \in Seq(Fragments)
  BY DEF TypeInv, TypeOK, TaskTypeOK
<1>3. head \in Seq(Fragments) /\ Len(head) = n /\ \A i \in 1..n : head[i] = buf[i]
  BY <1>1, <1>2
<1>4. buf' = Append(head, item)
  BY DEF AppendFragment
<1> HIDE DEF head
<1>5. /\ buf' \in Seq(Fragments) /\ Len(buf') = n + 1 /\ buf'[n + 1] = item
      /\ \A i \in 1..n : buf'[i] = buf[i]
  BY <1>1, <1>3, <1>4
<1>6. delivered' = delivered /\ delivered \in Seq(Seq(Fragments))
  BY DEF AppendFragment, TypeInv, TypeOK, TaskTypeOK
<1>7. CASE n + 1 < r.expected
  <2>1. /\ reassembly' = [r EXCEPT !.received = n + 1]
        /\ item' = None /\ complete' = FALSE
    BY <1>7 DEF AppendFragment
  <2>2. /\ reassembly' \in [active : BOOLEAN, msg_seq : 0..SeqMod - 1,
                            expected : 0..MaxFrags, received : 0..MaxFrags]
        /\ reassembly'.active /\ reassembly'.received = n + 1
        /\ reassembly'.expected = r.expected
    BY <1>1, <2>1
  <2>3. TaskTypeOK'
    BY <1>1, <1>5, <1>6, <2>1, <2>2 DEF TaskTypeOK
  <2>4. Assembling'
    BY <1>1, <1>5, <1>7, <2>1, <2>2 DEF Assembling
  <2> QED BY <1>5, <1>6, <1>7, <2>1, <2>3, <2>4
<1>8. CASE ~(n + 1 < r.expected)
  <2>1. /\ reassembly' = [r EXCEPT !.active = FALSE, !.expected = 0, !.received = 0]
        /\ item' = item /\ complete' = TRUE
    BY <1>8 DEF AppendFragment
  <2>2. /\ reassembly' \in [active : BOOLEAN, msg_seq : 0..SeqMod - 1,
                            expected : 0..MaxFrags, received : 0..MaxFrags]
        /\ ~reassembly'.active /\ reassembly'.received = 0
    <3>1. 0 \in 0..MaxFrags
      BY EspNowAssumption DEF EspNowAssumption
    <3>2. reassembly'.active = FALSE /\ reassembly'.received = 0
      BY <2>1
    <3>3. reassembly' \in [active : BOOLEAN, msg_seq : 0..SeqMod - 1,
                            expected : 0..MaxFrags, received : 0..MaxFrags]
      BY <2>1, <3>1
    <3> QED BY <3>2, <3>3
  <2>3. TaskTypeOK'
    BY <1>1, <1>5, <1>6, <2>1, <2>2 DEF TaskTypeOK
  <2>4. Assembling'
    BY <1>1, <1>5, <2>1, <2>2 DEF Assembling
  <2>5. n + 1 = r.expected
    BY <1>1, <1>8
  <2>6. delivered' = delivered /\ complete'
    BY <1>6, <2>1
  <2> QED BY ONLY <1>5, <2>1, <2>2, <2>3, <2>4, <2>5, <2>6
<1> QED BY <1>7, <1>8

(* The assembly a first fragment begins *)
Begun(f) == [active |-> TRUE, msg_seq |-> f.seq, expected |-> f.total, received |-> 0]

LEMMA RestartIs ==
  ASSUME TypeInv, Restart
  PROVE  /\ item \in Fragments /\ ~complete /\ item.idx = 0
         /\ Begun(item) \in [active : BOOLEAN, msg_seq : 0..SeqMod - 1,
                             expected : 0..MaxFrags, received : 0..MaxFrags]
         /\ Begun(item).received = 0 /\ Begun(item).active
         /\ Begun(item).expected = item.total /\ Begun(item).msg_seq = item.seq
         /\ Begun(item).received < Begun(item).expected
         /\ Begun(item).received <= Len(buf)
         /\ AppendFragment(Begun(item))
<1>1. item \in Fragments /\ ~complete /\ item.idx = 0 /\ AppendFragment(Begun(item))
  BY DEF Restart, TypeInv, TypeOK, TaskTypeOK, Begun
<1>2. /\ item.seq \in 0..SeqMod - 1 /\ item.total \in 1..MaxFrags
  BY <1>1, FragmentIs
<1>3. item.total \in 0..MaxFrags /\ 0 \in 0..MaxFrags /\ 0 < item.total
  BY <1>2, EspNowAssumption DEF EspNowAssumption
<1>4. Begun(item) \in [active : BOOLEAN, msg_seq : 0..SeqMod - 1,
                       expected : 0..MaxFrags, received : 0..MaxFrags]
  BY <1>2, <1>3 DEF Begun
<1>5. /\ Begun(item).received = 0 /\ Begun(item).active
      /\ Begun(item).expected = item.total /\ Begun(item).msg_seq = item.seq
  BY DEF Begun
<1>6. 0 <= Len(buf)
  BY DEF TypeInv, TypeOK, TaskTypeOK
<1> QED BY <1>1, <1>3, <1>4, <1>5, <1>6

LEMMA ContinueIs ==
  ASSUME TypeInv, Continue
  PROVE  /\ item \in Fragments /\ ~complete /\ item.idx # 0
         /\ reassembly \in [active : BOOLEAN, msg_seq : 0..SeqMod - 1,
                            expected : 0..MaxFrags, received : 0..MaxFrags]
         /\ reassembly.active /\ item.seq = reassembly.msg_seq
         /\ item.idx = reassembly.received
         /\ reassembly.received < reassembly.expected
         /\ reassembly.received <= Len(buf)
         /\ AppendFragment(reassembly)
<1>1. item \in Fragments /\ ~complete /\ item.idx # 0
  BY DEF Continue, TypeInv, TypeOK, TaskTypeOK
<1>2. /\ reassembly \in [active : BOOLEAN, msg_seq : 0..SeqMod - 1,
                         expected : 0..MaxFrags, received : 0..MaxFrags]
      /\ reassembly.active /\ item.seq = reassembly.msg_seq
      /\ item.idx = reassembly.received /\ AppendFragment(reassembly)
  BY DEF Continue, Belongs, TypeInv, TypeOK, TaskTypeOK
<1>3. reassembly.received \in 1..reassembly.expected - 1 /\ reassembly.received <= Len(buf)
  BY <1>2 DEF TypeInv, Assembling
<1>4. reassembly.received < reassembly.expected
  BY <1>2, <1>3
<1> QED BY <1>1, <1>2, <1>3, <1>4

LEMMA TaskTyped ==
  ASSUME TypeInv, RxTask
  PROVE  TaskTypeOK' /\ QueueTypeOK' /\ Assembling'
<1> USE DEF TypeInv, TypeOK
<1>1. CASE Receive
  <2>1. QueueTypeOK' /\ item' \in Fragments \cup {None}
    <3>1. /\ rx_queue \in Seq(Fragments \cup {None}) /\ rx_queue # <<>>
          /\ Len(rx_queue) <= QueueLen
          /\ item' = Head(rx_queue) /\ rx_queue' = Tail(rx_queue) /\ queued' = queued
      BY <1>1 DEF Receive, QueueTypeOK
    <3>2. /\ Head(rx_queue) \in Fragments \cup {None}
          /\ Tail(rx_queue) \in Seq(Fragments \cup {None})
          /\ Len(Tail(rx_queue)) = Len(rx_queue) - 1
      BY <3>1
    <3> QED BY <3>1, <3>2, EspNowAssumption DEF QueueTypeOK, EspNowAssumption
  <2>2. ~complete
    <3>1. complete => Len(buf) \in 1..Len(buf) /\ item = buf[Len(buf)] /\ buf \in Seq(Fragments)
      BY DEF Assembling, TaskTypeOK
    <3>2. complete => item \in Fragments
      BY <3>1
    <3>3. item = None /\ complete \in BOOLEAN
      BY <1>1 DEF Receive, TaskTypeOK
    <3>4. None \notin Fragments
      BY NoneAssumption
    <3> QED BY ONLY <3>2, <3>3, <3>4
  <2> QED BY <1>1, <2>1, <2>2 DEF Receive, TaskTypeOK, Assembling
<1>2. CASE Restart
  <2>1. QueueTypeOK'
    BY <1>2 DEF Restart, AppendFragment, QueueTypeOK
  <2> HIDE DEF TypeInv, TypeOK
  <2>2. TaskTypeOK' /\ Assembling'
    BY <1>2, RestartIs, AppendIs
  <2> QED BY <2>1, <2>2
<1>3. CASE Continue
  <2>1. QueueTypeOK'
    BY <1>3 DEF Continue, AppendFragment, QueueTypeOK
  <2> HIDE DEF TypeInv, TypeOK
  <2>2. TaskTypeOK' /\ Assembling'
    BY <1>3, ContinueIs, AppendIs
  <2> QED BY <2>1, <2>2
<1>4. CASE DropOrphan
  BY <1>4 DEF DropOrphan, DropFragment, QueueTypeOK, TaskTypeOK, Assembling
<1>5. CASE DropOutOfOrder
  <2>1. reassembly' = NoMessage /\ buf' = <<>> /\ item' = None /\ ~complete
        /\ UNCHANGED <<complete, delivered, rx_queue, queued>>
    BY <1>5 DEF DropOutOfOrder, DropFragment
  <2>2. /\ NoMessage \in [active : BOOLEAN, msg_seq : 0..SeqMod - 1,
                          expected : 0..MaxFrags, received : 0..MaxFrags]
        /\ ~NoMessage.active /\ NoMessage.received = 0
    BY EspNowAssumption DEF EspNowAssumption, NoMessage
  <2>3. buf' \in Seq(Fragments) /\ Len(buf') = 0 /\ 0 <= MaxFrags
    BY <2>1, EspNowAssumption DEF EspNowAssumption
  <2>4. QueueTypeOK'
    BY <2>1 DEF QueueTypeOK
  <2>5. TaskTypeOK'
    BY <2>1, <2>2, <2>3 DEF TaskTypeOK
  <2>6. Assembling'
    BY <2>1, <2>2, <2>3 DEF Assembling
  <2> QED BY <2>4, <2>5, <2>6
<1>6. CASE Deliver
  <2>1. /\ delivered' = Append(delivered, buf) /\ item' = None /\ complete' = FALSE
        /\ queued' \subseteq queued
        /\ UNCHANGED <<rx_queue, reassembly, buf>>
    BY <1>6 DEF Deliver
  <2>2. delivered' \in Seq(Seq(Fragments))
    BY <2>1 DEF TaskTypeOK
  <2>3. QueueTypeOK' /\ Assembling'
    BY <2>1 DEF QueueTypeOK, Assembling
  <2>4. TaskTypeOK'
    BY <2>1, <2>2 DEF TaskTypeOK
  <2> QED BY <2>3, <2>4
<1> QED BY <1>1, <1>2, <1>3, <1>4, <1>5, <1>6 DEF RxTask

LEMMA TypesKept == TypeInv /\ [Next]_vars => TypeInv'
<1> SUFFICES ASSUME TypeInv, [Next]_vars PROVE TypeInv'
  OBVIOUS
<1>1. ASSUME NEW p \in Peers, SenderStep(p) PROVE TypeInv'
  <2>1. SenderTypeOK' /\ RadioTypeOK' /\ Sending'
    BY <1>1, SenderTyped
  <2>2. QueueTypeOK' /\ TaskTypeOK' /\ Assembling'
    BY <1>1, SenderFrame DEF TypeInv, TypeOK, QueueTypeOK, TaskTypeOK, Assembling, taskVars
  <2> QED BY <2>1, <2>2 DEF TypeInv, TypeOK
<1>2. ASSUME NEW p \in Peers, RadioStep(p) PROVE TypeInv'
  <2>1. RadioTypeOK' /\ QueueTypeOK' /\ acked' \subseteq Fragments
    BY <1>2, RadioTyped
  <2>2. SenderTypeOK' /\ Sending' /\ TaskTypeOK' /\ Assembling'
    BY <1>2, <2>1, RadioFrame
       DEF TypeInv, TypeOK, SenderTypeOK, Sending, TaskTypeOK, Assembling, taskVars
  <2> QED BY <2>1, <2>2 DEF TypeInv, TypeOK
<1>3. CASE Stray \/ Flush
  <2>1. QueueTypeOK'
    BY <1>3, QueueTyped
  <2> QED BY <1>3, <2>1, QueueFrame
          DEF TypeInv, TypeOK, SenderTypeOK, RadioTypeOK, Sending, TaskTypeOK, Assembling,
              taskVars, senderVars, radioVars
<1>4. CASE RxTask
  <2>1. TaskTypeOK' /\ QueueTypeOK' /\ Assembling'
    BY <1>4, TaskTyped
  <2> QED BY <1>4, <2>1, TaskFrame
          DEF TypeInv, TypeOK, SenderTypeOK, RadioTypeOK, Sending, senderVars, radioVars
<1>5. CASE UNCHANGED vars
  BY <1>5 DEF vars, TypeInv, TypeOK, SenderTypeOK, RadioTypeOK, QueueTypeOK, Sending,
       TaskTypeOK, Assembling, taskVars, senderVars, radioVars
<1> QED BY <1>1, <1>2, <1>3, <1>4, <1>5, NextCases

LEMMA TypesHold == Spec => []TypeInv
BY TypesInit, TypesKept, PTL DEF Spec

(* Every variable keeps its type, rx_queue_ and the buffer their bounds,   *)
(* however many peers send.                                                *)
THEOREM TypeCorrect == Spec => []TypeOK
<1>1. TypeInv => TypeOK
  BY DEF TypeInv
<1> QED BY <1>1, TypesHold, PTL

-----------------------------------------------------------------------------
(* Acknowledgements. *)

LEMMA AckInit == Init => AckInv
<1> SUFFICES ASSUME Init PROVE AckInv
  OBVIOUS
<1>1. ASSUME NEW p \in Peers PROVE InStep(p) /\ Behind(p)
  BY DEF Init, InStep, Fresh, Answered, Behind
<1>2. ReportedMeansDone
  BY DEF Init, ReportedMeansDone
<1> QED BY <1>1, <1>2 DEF AckInv

(* What is reported of peer p is done, and has no two fragments lost. *)
Reports(p) == \A f \in reported : f.peer = p => Done(f)
Gaps(p) == \A f \in reported : f.peer = p => NoTwoLost(f, f.total - 1)

LEMMA ReportsAre ==
  ASSUME reported \subseteq Fragments
  PROVE  ReportedMeansDone <=>
           (\A p \in Peers \ gave_up : Reports(p)) /\ (\A p \in Peers : Gaps(p))
<1>1. \A f \in reported : f.peer \in Peers
  BY FragmentIs
<1>2. ReportedMeansDone <=>
        \A f \in reported : (f.peer \notin gave_up => Done(f)) /\ NoTwoLost(f, f.total - 1)
  BY DEF ReportedMeansDone, Done, NoTwoLost, Nth
<1> QED BY <1>1, <1>2 DEF Reports, Gaps

(* What another peer does leaves a peer in step. *)
LEMMA InStepKept ==
  ASSUME TypeInv, NEW p \in Peers, InStep(p),
         pc'[p] = pc[p], mode'[p] = mode[p], tx'[p] = tx[p], air'[p] = air[p],
         send_cb'[p] = send_cb[p], tx_done_sem'[p] = tx_done_sem[p],
         tx_success'[p] = tx_success[p],
         \A f \in acked : f.peer = p => f \in acked'
  PROVE  InStep(p)'
<1>1. pc[p] # "idle" => tx[p] \in Fragments /\ tx[p].peer = p /\ tx[p].idx \in 0..MaxFrags - 1
  BY FragmentIs DEF TypeInv, TypeOK, SenderTypeOK, Sending
<1>2. pc[p] # "idle" => (Answered(p) => Answered(p)')
  BY <1>1 DEF Answered
<1>3. ASSUME pc[p] # "idle", NEW i \in 0..tx[p].idx - 1, Nth(tx[p], i) \in acked
      PROVE  Nth(tx[p], i) \in acked'
  <2>1. i \in 0..MaxFrags - 1
    BY <1>1, <1>3, EspNowAssumption DEF EspNowAssumption
  <2> QED BY <1>1, <1>3, <2>1, NthIs
<1> QED BY <1>2, <1>3 DEF InStep, Fresh, Nth

LEMMA DoneKept ==
  ASSUME TypeInv, NEW f \in Fragments, \A g \in acked : g.peer = f.peer => g \in acked'
  PROVE  /\ Done(f) => Done(f)'
         /\ \A n \in 0..MaxFrags - 1 : NoTwoLost(f, n) => NoTwoLost(f, n)'
<1>1. \A i \in 0..MaxFrags - 1 : Nth(f, i) \in acked => Nth(f, i) \in acked'
  BY NthIs
<1>2. f.total \in 1..MaxFrags /\ MaxFrags \in Nat
  BY FragmentIs, EspNowAssumption DEF EspNowAssumption
<1>3. Done(f) => Done(f)'
  BY <1>1, <1>2 DEF Done
<1>4. ASSUME NEW n \in 0..MaxFrags - 1, NoTwoLost(f, n) PROVE NoTwoLost(f, n)'
  <2>1. \A i \in 1..n : i \in 0..MaxFrags - 1 /\ i - 1 \in 0..MaxFrags - 1
    BY <1>2
  <2> QED BY <1>1, <1>4, <2>1 DEF NoTwoLost
<1> QED BY <1>3, <1>4

LEMMA BehindKept ==
  ASSUME TypeInv, NEW p \in Peers, Behind(p),
         pc'[p] = pc[p], mode'[p] = mode[p], tx'[p] = tx[p], air'[p] = air[p],
         tx_success'[p] = tx_success[p],
         \A f \in acked : f.peer = p => f \in acked'
  PROVE  Behind(p)'
<1> SUFFICES ASSUME pc[p] # "idle", mode[p] = "write" PROVE OneBehind(p)'
  BY DEF Behind
<1>1. /\ tx[p] \in Fragments /\ tx[p].peer = p /\ tx[p].idx \in 0..MaxFrags - 1
      /\ MaxFrags \in Nat
  BY FragmentIs, EspNowAssumption DEF TypeInv, TypeOK, SenderTypeOK, Sending, EspNowAssumption
<1>2. OneBehind(p)
  BY DEF Behind
<1>3. NoTwoLost(tx[p], tx[p].idx - 1)'
  <2>1. CASE tx[p].idx = 0
    BY <1>1, <2>1 DEF NoTwoLost
  <2>2. CASE tx[p].idx # 0
    <3>1. tx[p].idx - 1 \in 0..MaxFrags - 1
      BY <1>1, <2>2
    <3>2. NoTwoLost(tx[p], tx[p].idx - 1)
      BY <1>2 DEF OneBehind
    <3>3. \A f : f = tx[p] => (NoTwoLost(f, tx[p].idx - 1) => NoTwoLost(f, tx[p].idx - 1)')
      BY <1>1, <3>1, DoneKept
    <3> QED BY <3>2, <3>3 DEF NoTwoLost
  <2> QED BY <2>1, <2>2
<1>4. Answered(p) => Answered(p)'
  BY <1>1 DEF Answered
<1>5. tx[p].idx > 0 /\ Nth(tx[p], tx[p].idx - 1) \in acked
      => Nth(tx[p], tx[p].idx - 1) \in acked'
  <2>1. tx[p].idx > 0 => tx[p].idx - 1 \in 0..MaxFrags - 1
    BY <1>1
  <2> QED BY <1>1, <2>1, NthIs
<1> HIDE DEF NoTwoLost
<1> QED BY <1>2, <1>3, <1>4, <1>5 DEF OneBehind

(* What is acknowledged of a peer's reports stays so. *)
LEMMA ReportsKept ==
  ASSUME TypeInv, NEW p \in Peers, \A f \in acked : f.peer = p => f \in acked',
         \A f \in reported' : f.peer = p => f \in reported
  PROVE  (Reports(p) => Reports(p)') /\ (Gaps(p) => Gaps(p)')
<1>1. reported \subseteq Fragments
  BY DEF TypeInv, TypeOK, SenderTypeOK
<1>2. ASSUME NEW f \in reported', f.peer = p
      PROVE  /\ f \in reported
             /\ Done(f) => Done(f)'
             /\ NoTwoLost(f, f.total - 1) => NoTwoLost(f, f.total - 1)'
  <2>1. f \in Fragments /\ f \in reported
    BY <1>1, <1>2
  <2>2. f.total - 1 \in 0..MaxFrags - 1
    BY <2>1, FragmentIs, EspNowAssumption DEF EspNowAssumption
  <2> QED BY <1>2, <2>1, <2>2, DoneKept
<1> QED BY <1>2 DEF Reports, Gaps

LEMMA OthersKept ==
  ASSUME TypeInv, AckInv, NEW p \in Peers, SenderStep(p) \/ RadioStep(p),
         NEW q \in Peers \ {p}
  PROVE  /\ q \in gave_up' <=> q \in gave_up
         /\ q \notin gave_up => InStep(q)' /\ Reports(q)'
         /\ Behind(q)' /\ Gaps(q)'
<1>1. \A f \in acked : f.peer = q => f \in acked'
  BY DEF SenderStep, RadioStep, Begin, SendFragment, WaitDone, CheckSuccess, WaitTimeout,
         Transmit, SendCbGive, senderVars
<1>2. /\ pc'[q] = pc[q] /\ mode'[q] = mode[q] /\ tx'[q] = tx[q]
      /\ q \in gave_up' <=> q \in gave_up
  BY DEF SenderStep, RadioStep, Begin, SendFragment, WaitDone, CheckSuccess, WaitTimeout,
         NextFragment, Transmit, SendCbGive, senderVars, TypeInv, TypeOK, SenderTypeOK
<1>3. /\ air'[q] = air[q] /\ send_cb'[q] = send_cb[q]
      /\ tx_done_sem'[q] = tx_done_sem[q] /\ tx_success'[q] = tx_success[q]
  BY DEF SenderStep, RadioStep, Begin, SendFragment, WaitDone, CheckSuccess, WaitTimeout,
         Transmit, SendCbGive, radioVars, TypeInv, TypeOK, RadioTypeOK
<1>4. \A f \in reported' : f.peer = q => f \in reported
  <2>1. pc[p] # "idle" => tx[p].peer = p
    BY DEF TypeInv, Sending
  <2>2. /\ pc[p] = "wait" => pc[p] # "idle"
        /\ pc[p] = "check" => pc[p] # "idle"
    OBVIOUS
  <2> QED BY <2>1, <2>2 DEF SenderStep, RadioStep, Begin, SendFragment, WaitDone,
             CheckSuccess, WaitTimeout, NextFragment, Transmit, SendCbGive, senderVars
<1>5. q \notin gave_up => InStep(q)'
  BY <1>1, <1>2, <1>3, InStepKept DEF AckInv
<1>6. Behind(q)'
  BY <1>1, <1>2, <1>3, BehindKept DEF AckInv
<1>7. (q \notin gave_up => Reports(q)) /\ Gaps(q)
  BY ReportsAre DEF AckInv, TypeInv, TypeOK, SenderTypeOK
<1> QED BY <1>1, <1>2, <1>4, <1>5, <1>6, <1>7, ReportsKept

(* On to the next fragment: the one before is acknowledged. *)
LEMMA NextAcked ==
  ASSUME TypeInv, NEW p \in Peers, InStep(p), NextFragment(p), pc[p] # "idle",
         mode[p] = "write" => tx[p] \in acked, Fresh(p)', UNCHANGED <<mode, acked>>,
         Reports(p)
  PROVE  InStep(p)' /\ Reports(p)'
<1>1. tx[p] \in Fragments /\ tx[p].peer = p /\ tx[p].idx < tx[p].total
  BY DEF TypeInv, TypeOK, SenderTypeOK, Sending
<1>2. /\ tx[p].idx \in 0..MaxFrags - 1 /\ tx[p].idx \in Nat
      /\ tx[p].total \in 1..MaxFrags /\ tx[p].total \in Nat
  BY <1>1, FragmentIs
<1>3. mode[p] = "write" => \A i \in 0..tx[p].idx : Nth(tx[p], i) \in acked
  <2> SUFFICES ASSUME mode[p] = "write", NEW i \in 0..tx[p].idx PROVE Nth(tx[p], i) \in acked
    OBVIOUS
  <2>1. CASE i = tx[p].idx
    BY <1>1, <2>1, NthSame
  <2>2. CASE i # tx[p].idx
    <3>1. i \in 0..tx[p].idx - 1
      BY <1>2, <2>2
    <3> QED BY <3>1 DEF InStep, Nth
  <2> QED BY <2>1, <2>2
<1>4. CASE tx[p].idx + 1 < tx[p].total
  <2> DEFINE next == Nth(tx[p], tx[p].idx + 1)
  <2>1. tx[p].idx + 1 \in 0..MaxFrags - 1
    BY <1>2, <1>4, EspNowAssumption DEF EspNowAssumption
  <2>2. tx'[p] = next /\ pc'[p] = "send" /\ reported' = reported
    BY <1>4 DEF NextFragment, Nth, TypeInv, TypeOK, SenderTypeOK
  <2>3. next.idx = tx[p].idx + 1
    BY <1>1, <2>1, NthIs
  <2>4. \A i \in 0..next.idx - 1 : i \in 0..tx[p].idx /\ Nth(next, i) = Nth(tx[p], i)
    BY <1>1, <1>2, <2>3, NthNth
  <2> HIDE DEF next
  <2>5. mode'[p] = "write" => \A i \in 0..tx'[p].idx - 1 : [tx'[p] EXCEPT !.idx = i] \in acked'
    BY <1>3, <2>2, <2>4 DEF Nth
  <2>6. InStep(p)'
    BY <2>2, <2>5 DEF InStep
  <2> QED BY <2>2, <2>6 DEF Reports, Done
<1>5. CASE ~(tx[p].idx + 1 < tx[p].total)
  <2>1. /\ pc'[p] = "idle"
        /\ reported' = IF mode[p] = "write" THEN reported \cup {tx[p]} ELSE reported
    BY <1>5 DEF NextFragment, TypeInv, TypeOK, SenderTypeOK
  <2>2. tx[p].total - 1 = tx[p].idx
    BY <1>1, <1>2, <1>5
  <2>3. mode[p] = "write" => Done(tx[p])
    BY <1>1, <1>3, <2>2 DEF Done
  <2>4. InStep(p)'
    BY <2>1 DEF InStep
  <2> QED BY <2>1, <2>3, <2>4 DEF Reports, Done
<1> QED BY <1>4, <1>5

(* The writer and its radio keep in step, and what is reported is done. *)
LEMMA PeerKept ==
  ASSUME TypeInv, AckInv, NEW p \in Peers, SenderStep(p) \/ RadioStep(p), p \notin gave_up'
  PROVE  InStep(p)' /\ Reports(p)'
<1> USE DEF SenderTypeOK, RadioTypeOK
<1>1. p \notin gave_up /\ SenderTypeOK /\ RadioTypeOK
  BY DEF SenderStep, RadioStep, Begin, SendFragment, WaitDone, CheckSuccess, WaitTimeout,
         Transmit, SendCbGive, senderVars, TypeInv, TypeOK
<1>2. InStep(p) /\ Reports(p)
  BY <1>1, ReportsAre DEF AckInv, TypeInv, TypeOK
<1>3. /\ pc[p] \in {"idle", "send", "wait", "check"}
      /\ send_cb[p] \in BOOLEAN /\ tx_done_sem[p] \in BOOLEAN /\ tx_success[p] \in BOOLEAN
  BY <1>1
<1>4. CASE Begin(p)
  <2>1. /\ pc[p] = "idle" /\ pc'[p] = "send" /\ reported' = {f \in reported : f.peer # p}
        /\ tx'[p].idx = 0
        /\ air' = air /\ send_cb' = send_cb /\ tx_done_sem' = tx_done_sem
    BY <1>1, <1>4 DEF Begin, radioVars
  <2>2. Fresh(p)'
    BY <1>2, <2>1 DEF InStep, Fresh
  <2> QED BY <2>1, <2>2 DEF InStep, Reports
<1>5. CASE SendFragment(p)
  <2>1. /\ pc[p] = "send" /\ UNCHANGED <<mode, acked, reported, tx_done_sem, send_cb>>
        /\ \/ air'[p] = tx[p] /\ pc'[p] = "wait" /\ tx' = tx
           \/ pc'[p] = "idle" /\ air' = air
    BY <1>1, <1>5 DEF SendFragment
  <2>2. Fresh(p)
    BY <1>2, <2>1 DEF InStep
  <2>3. CASE air'[p] = tx[p] /\ pc'[p] = "wait" /\ tx' = tx
    BY <1>2, <2>1, <2>2, <2>3 DEF InStep, Fresh, Reports, Done
  <2>4. CASE pc'[p] = "idle" /\ air' = air
    BY <1>2, <2>1, <2>2, <2>4 DEF InStep, Fresh, Reports, Done
  <2> QED BY <2>1, <2>3, <2>4
<1>6. CASE WaitDone(p)
  <2>1. /\ pc[p] = "wait" /\ tx_done_sem[p] /\ ~tx_done_sem'[p]
        /\ UNCHANGED <<mode, acked, air, send_cb, tx_success>>
    BY <1>1, <1>6 DEF WaitDone, radioVars
  <2>2. air[p] = None /\ ~send_cb[p] /\ Answered(p)
    BY <1>2, <1>3, <2>1 DEF InStep
  <2>3. Fresh(p)'
    BY <2>1, <2>2 DEF Fresh
  <2>4. CASE mode[p] = "write"
    <3>1. pc'[p] = "check" /\ tx' = tx /\ reported' = reported
      BY <1>1, <1>6, <2>4 DEF WaitDone
    <3>2. Answered(p)'
      BY <2>1, <2>2, <3>1 DEF Answered
    <3> QED BY <1>2, <2>1, <2>3, <2>4, <3>1, <3>2 DEF InStep, Reports, Done
  <2>5. CASE mode[p] # "write"
    <3>1. NextFragment(p)
      BY <1>6, <2>5 DEF WaitDone
    <3> QED BY <1>2, <2>1, <2>3, <2>5, <3>1, NextAcked
  <2> QED BY <2>4, <2>5
<1>7. CASE CheckSuccess(p)
  <2>1. /\ pc[p] = "check" /\ UNCHANGED <<mode, acked, air, send_cb, tx_success, tx_done_sem>>
    BY <1>7 DEF CheckSuccess, radioVars
  <2>2. Fresh(p)' /\ Answered(p)
    BY <1>2, <2>1 DEF InStep, Fresh
  <2>3. CASE tx_success[p]
    <3>1. NextFragment(p) /\ tx[p] \in acked
      BY <1>7, <2>2, <2>3 DEF CheckSuccess, Answered
    <3> QED BY <1>2, <2>1, <2>2, <3>1, NextAcked
  <2>4. CASE ~tx_success[p]
    BY <1>1, <1>2, <1>7, <2>1, <2>2, <2>4 DEF CheckSuccess, InStep, Reports, Done
  <2> QED BY <2>3, <2>4
<1>8. CASE WaitTimeout(p)
  BY <1>1, <1>8 DEF WaitTimeout
<1>9. CASE Transmit(p)
  <2>1. PICK success \in BOOLEAN :
          /\ tx_success' = [tx_success EXCEPT ![p] = success]
          /\ acked' = IF success /\ air[p].msg = sent[p] THEN acked \cup {air[p]} ELSE acked
    BY <1>9 DEF Transmit
  <2>2. /\ air[p] # None /\ ~send_cb[p] /\ air'[p] = None /\ send_cb'[p]
        /\ UNCHANGED <<pc, mode, tx, sent, reported, tx_done_sem>>
    BY <1>1, <1>9 DEF Transmit
  <2>3. pc[p] = "wait" /\ air[p] = tx[p] /\ ~tx_done_sem[p]
    BY <1>2, <1>3, <2>2 DEF InStep, Fresh
  <2>4. tx[p].msg = sent[p]
    BY <2>3 DEF TypeInv, Sending
  <2>5. Answered(p)'
    BY <1>1, <2>1, <2>2, <2>3, <2>4 DEF Answered
  <2>6. acked \subseteq acked'
    BY <2>1
  <2>7. InStep(p)'
    BY <1>2, <2>2, <2>3, <2>5, <2>6 DEF InStep
  <2> QED BY <1>2, <2>2, <2>6, <2>7, ReportsKept
<1>10. CASE SendCbGive(p)
  <2>1. /\ send_cb[p] /\ ~send_cb'[p] /\ tx_done_sem'[p]
        /\ UNCHANGED <<pc, mode, tx, acked, reported, air, tx_success>>
    BY <1>1, <1>10 DEF SendCbGive, senderVars
  <2>2. pc[p] = "wait" /\ air[p] = None /\ Answered(p)
    BY <1>2, <1>3, <2>1, FragmentIs DEF InStep, Fresh
  <2>3. Answered(p)'
    BY <2>1, <2>2 DEF Answered
  <2> QED BY <1>2, <2>1, <2>2, <2>3 DEF InStep, Reports, Done
<1> QED BY <1>4, <1>5, <1>6, <1>7, <1>8, <1>9, <1>10 DEF SenderStep, RadioStep

(* The writer is never more than one fragment ahead of its radio. *)
LEMMA NextBehind ==
  ASSUME TypeInv, NEW p \in Peers, Behind(p), Gaps(p), NextFragment(p), pc[p] = "check",
         tx_success[p], UNCHANGED <<mode, acked, air, tx_success>>
  PROVE  Behind(p)' /\ Gaps(p)'
<1>1. tx[p] \in Fragments /\ tx[p].peer = p /\ tx[p].idx < tx[p].total
  BY DEF TypeInv, TypeOK, SenderTypeOK, Sending
<1>2. /\ tx[p].idx \in 0..MaxFrags - 1 /\ tx[p].idx \in Nat
      /\ tx[p].total \in 1..MaxFrags /\ tx[p].total \in Nat
  BY <1>1, FragmentIs
<1>3. ASSUME mode[p] = "write"
      PROVE  /\ NoTwoLost(tx[p], tx[p].idx)
             /\ \/ air[p] = tx[p]
                \/ air[p] = None /\ tx[p] \in acked
  <2>1. OneBehind(p)
    BY <1>3 DEF Behind
  <2>2. \/ air[p] = tx[p] /\ (tx[p].idx > 0 => Nth(tx[p], tx[p].idx - 1) \in acked)
        \/ air[p] = None /\ tx[p] \in acked
    BY <2>1 DEF OneBehind, Answered
  <2>3. ASSUME NEW i \in 1..tx[p].idx
        PROVE  Nth(tx[p], i - 1) \in acked \/ Nth(tx[p], i) \in acked
    <3>1. CASE i = tx[p].idx
      BY <1>1, <1>2, <2>2, <2>3, <3>1, NthSame
    <3>2. CASE i # tx[p].idx
      <4>1. i \in 1..tx[p].idx - 1
        BY <1>2, <3>2
      <4> QED BY <2>1, <4>1 DEF OneBehind, NoTwoLost
    <3> QED BY <3>1, <3>2
  <2> QED BY <2>2, <2>3 DEF NoTwoLost
<1>4. CASE tx[p].idx + 1 < tx[p].total
  <2> DEFINE next == Nth(tx[p], tx[p].idx + 1)
  <2>1. tx[p].idx + 1 \in 0..MaxFrags - 1
    BY <1>2, <1>4, EspNowAssumption DEF EspNowAssumption
  <2>2. tx'[p] = next /\ pc'[p] = "send" /\ reported' = reported
    BY <1>4 DEF NextFragment, Nth, TypeInv, TypeOK, SenderTypeOK
  <2>3. next.idx - 1 = tx[p].idx
    BY <1>1, <1>2, <2>1, NthIs
  <2>4. \A i : Nth(next, i) = Nth(tx[p], i)
    BY <1>1, NthNth
  <2>5. Nth(tx[p], tx[p].idx) = tx[p]
    BY <1>1, NthSame
  <2> HIDE DEF next
  <2>6. mode[p] = "write" => NoTwoLost(tx[p], tx[p].idx)
    BY <1>3
  <2>7. mode[p] = "write" => NoTwoLost(tx[p], tx[p].idx - 1)'
    BY <2>2, <2>3, <2>4, <2>6 DEF NoTwoLost
  <2>8. mode[p] = "write" =>
          \/ air'[p] = Nth(tx'[p], tx'[p].idx - 1)
          \/ air'[p] = None /\ Nth(tx'[p], tx'[p].idx - 1) \in acked'
    BY <1>3, <2>2, <2>3, <2>4, <2>5
  <2>9. Behind(p)'
    BY <2>2, <2>7, <2>8 DEF Behind, OneBehind
  <2>10. Gaps(p)'
    BY <2>2 DEF Gaps, NoTwoLost
  <2> QED BY <2>9, <2>10
<1>5. CASE ~(tx[p].idx + 1 < tx[p].total)
  <2>1. /\ pc'[p] = "idle"
        /\ reported' = IF mode[p] = "write" THEN reported \cup {tx[p]} ELSE reported
    BY <1>5 DEF NextFragment, TypeInv, TypeOK, SenderTypeOK
  <2>2. tx[p].total - 1 = tx[p].idx
    BY <1>1, <1>2, <1>5
  <2>3. mode[p] = "write" => NoTwoLost(tx[p], tx[p].total - 1)
    BY <1>3, <2>2
  <2>4. Gaps(p)'
    BY <2>1, <2>3 DEF Gaps, NoTwoLost
  <2> QED BY <2>1, <2>4 DEF Behind
<1> QED BY <1>4, <1>5

LEMMA PeerBehind ==
  ASSUME TypeInv, AckInv, NEW p \in Peers, SenderStep(p) \/ RadioStep(p)
  PROVE  Behind(p)' /\ Gaps(p)'
<1> USE DEF SenderTypeOK, RadioTypeOK
<1>1. SenderTypeOK /\ RadioTypeOK
  BY DEF TypeInv, TypeOK
<1>2. Behind(p) /\ Gaps(p)
  BY <1>1, ReportsAre DEF AckInv
<1>3. /\ pc[p] \in {"idle", "send", "wait", "check"}
      /\ mode[p] \in {"write", "write_async"}
  BY <1>1
<1>a. pc[p] # "idle" =>
        /\ tx[p] \in Fragments /\ tx[p] # None /\ tx[p].msg = sent[p] /\ tx[p].peer = p
        /\ tx[p].idx \in Nat
        /\ tx[p].idx > 0 => /\ Nth(tx[p], tx[p].idx - 1) # None
                            /\ Nth(tx[p], tx[p].idx - 1).msg = sent[p]
  <2>1. ASSUME pc[p] # "idle"
        PROVE  tx[p] \in Fragments /\ tx[p] # None /\ tx[p].msg = sent[p] /\ tx[p].peer = p
    BY <1>1, <2>1 DEF TypeInv, Sending
  <2>2. ASSUME pc[p] # "idle"
        PROVE  tx[p].idx \in Nat /\ tx[p].idx \in 0..MaxFrags - 1
    BY <2>1, <2>2, FragmentIs
  <2>3. ASSUME pc[p] # "idle", tx[p].idx > 0
        PROVE  /\ Nth(tx[p], tx[p].idx - 1) \in Fragments
               /\ Nth(tx[p], tx[p].idx - 1).msg = sent[p]
    <3>1. tx[p].idx - 1 \in 0..MaxFrags - 1
      BY <2>2, <2>3, EspNowAssumption DEF EspNowAssumption
    <3> QED BY <2>1, <2>3, <3>1, NthIs
  <2> QED BY <2>1, <2>2, <2>3, FragmentIs
<1>4. CASE Begin(p)
  <2>1. /\ pc'[p] = "send" /\ tx'[p].idx = 0
        /\ reported' = {f \in reported : f.peer # p}
    BY <1>1, <1>4 DEF Begin
  <2>2. Behind(p)'
    BY <2>1 DEF Behind, OneBehind, NoTwoLost
  <2> QED BY <2>1, <2>2 DEF Gaps
<1>5. CASE SendFragment(p)
  <2>1. /\ pc[p] = "send" /\ UNCHANGED <<mode, acked, reported, tx_success>>
        /\ \/ air[p] = None /\ air'[p] = tx[p] /\ pc'[p] = "wait" /\ tx' = tx
           \/ pc'[p] = "idle"
    BY <1>1, <1>5 DEF SendFragment
  <2>2. Gaps(p)'
    BY <1>2, <2>1 DEF Gaps, NoTwoLost
  <2>3. CASE pc'[p] = "idle"
    BY <2>2, <2>3 DEF Behind
  <2>4. CASE air[p] = None /\ air'[p] = tx[p] /\ pc'[p] = "wait" /\ tx' = tx
    <3> SUFFICES ASSUME mode[p] = "write" PROVE OneBehind(p)'
      BY <2>1, <2>2 DEF Behind
    <3>1. OneBehind(p)
      BY <2>1 , <1>2 DEF Behind
    <3>2. NoTwoLost(tx[p], tx[p].idx - 1)'
      BY <2>1, <2>4, <3>1 DEF OneBehind, NoTwoLost
    <3>3. tx_success[p] /\ tx[p].idx > 0 => Nth(tx[p], tx[p].idx - 1) \in acked
      BY <1>a, <2>1, <2>4, <3>1 DEF OneBehind
    <3> HIDE DEF NoTwoLost
    <3> QED BY <2>1, <2>4, <3>2, <3>3 DEF OneBehind, Nth
  <2> QED BY <2>1, <2>3, <2>4
<1>6. CASE WaitDone(p)
  <2>1. pc[p] = "wait" /\ UNCHANGED <<mode, acked, air, tx_success>>
    BY <1>6 DEF WaitDone, radioVars
  <2>2. CASE mode[p] = "write"
    <3>1. pc'[p] = "check" /\ UNCHANGED <<tx, reported>>
      BY <1>1, <1>6, <2>2 DEF WaitDone
    <3> QED BY <1>2, <2>1, <3>1 DEF Behind, OneBehind, NoTwoLost, Answered, Gaps, Nth
  <2>3. CASE mode[p] # "write"
    <3>1. reported' = reported /\ mode'[p] # "write"
      BY <1>6, <2>1, <2>3 DEF WaitDone, NextFragment
    <3> QED BY <1>2, <2>1, <3>1 DEF Behind, NoTwoLost, Gaps
  <2> QED BY <2>2, <2>3
<1>7. CASE CheckSuccess(p)
  <2>1. pc[p] = "check" /\ UNCHANGED <<mode, acked, air, tx_success>>
    BY <1>7 DEF CheckSuccess, radioVars
  <2>2. CASE tx_success[p]
    BY <1>2, <1>7, <2>1, <2>2, NextBehind DEF CheckSuccess
  <2>3. CASE ~tx_success[p]
    <3>1. pc'[p] = "idle" /\ reported' = reported
      BY <1>1, <1>7, <2>3 DEF CheckSuccess
    <3> QED BY <1>2, <2>1, <3>1 DEF Behind, NoTwoLost, Gaps
  <2> QED BY <2>2, <2>3
<1>8. CASE WaitTimeout(p)
  <2>1. pc'[p] = "idle" /\ UNCHANGED <<acked, reported>>
    BY <1>1, <1>8 DEF WaitTimeout
  <2> QED BY <1>2, <2>1 DEF Behind, NoTwoLost, Gaps
<1>9. CASE Transmit(p)
  <2>1. PICK success \in BOOLEAN :
          /\ tx_success' = [tx_success EXCEPT ![p] = success]
          /\ acked' = IF success /\ air[p].msg = sent[p] THEN acked \cup {air[p]} ELSE acked
    BY <1>9 DEF Transmit
  <2>2. /\ air[p] # None /\ air'[p] = None /\ tx_success'[p] = success
        /\ UNCHANGED <<pc, mode, tx, sent, reported>>
    BY <1>1, <1>9, <2>1 DEF Transmit
  <2>3. acked \subseteq acked'
    BY <2>1
  <2>4. Gaps(p)'
    BY <1>2, <2>2, <2>3, ReportsKept
  <2>5. ASSUME pc[p] # "idle", mode[p] = "write" PROVE OneBehind(p)'
    <3>1. OneBehind(p)
      BY <1>2, <2>5 DEF Behind
    <3>2. NoTwoLost(tx[p], tx[p].idx - 1)'
      BY <2>2, <2>3, <3>1 DEF OneBehind, NoTwoLost
    <3>3. pc[p] = "send" /\ tx[p].idx > 0 /\ success => Nth(tx[p], tx[p].idx - 1) \in acked'
      BY <1>a, <2>1, <2>2, <3>1 DEF OneBehind
    <3>4. pc[p] \in {"wait", "check"} /\ success => tx[p] \in acked'
      BY <1>a, <2>1, <2>2, <3>1 DEF OneBehind
    <3> HIDE DEF NoTwoLost
    <3> QED BY <2>2, <3>2, <3>3, <3>4 DEF OneBehind, Answered, Nth
  <2> QED BY <2>2, <2>4, <2>5 DEF Behind
<1>10. CASE SendCbGive(p)
  <2>1. UNCHANGED <<pc, mode, tx, acked, reported, air, tx_success>>
    BY <1>10 DEF SendCbGive, senderVars
  <2> QED BY <1>2, <2>1 DEF Behind, OneBehind, NoTwoLost, Answered, Gaps, Nth
<1> QED BY <1>4, <1>5, <1>6, <1>7, <1>8, <1>9, <1>10 DEF SenderStep, RadioStep

LEMMA AckKept == TypeInv /\ AckInv /\ [Next]_vars => AckInv'
<1> SUFFICES ASSUME TypeInv, AckInv, [Next]_vars PROVE AckInv'
  OBVIOUS
<1>0. reported' \subseteq Fragments
  BY TypesKept DEF TypeInv, TypeOK, SenderTypeOK
<1>1. ASSUME NEW p \in Peers, SenderStep(p) \/ RadioStep(p) PROVE AckInv'
  <2>1. ASSUME NEW q \in Peers
        PROVE  /\ q \notin gave_up' => InStep(q)' /\ Reports(q)'
               /\ Behind(q)' /\ Gaps(q)'
    <3>1. CASE q = p
      BY <1>1, <3>1, PeerKept, PeerBehind
    <3>2. CASE q # p
      BY <1>1, <2>1, <3>2, OthersKept
    <3> QED BY <3>1, <3>2
  <2>2. (\A q \in Peers \ gave_up : Reports(q))' /\ (\A q \in Peers : Gaps(q))'
    BY <2>1
  <2>3. (reported \subseteq Fragments)' /\ (\A q \in Peers \ gave_up : Reports(q))'
        /\ (\A q \in Peers : Gaps(q))' => ReportedMeansDone'
    <3>1. \A f \in reported' : f.peer \in Peers
      BY <1>0, FragmentIs
    <3>2. ReportedMeansDone' <=>
            \A f \in reported' :
              (f.peer \notin gave_up' => Done(f)') /\ NoTwoLost(f, f.total - 1)'
      BY DEF ReportedMeansDone, Done, NoTwoLost, Nth
    <3> QED BY <3>1, <3>2 DEF Reports, Gaps
  <2>4. ReportedMeansDone'
    BY <1>0, <2>2, <2>3
  <2> QED BY <2>1, <2>4 DEF AckInv
<1>2. CASE Stray \/ Flush \/ RxTask \/ UNCHANGED vars
  <2>1. UNCHANGED <<senderVars, tx_done_sem, radioVars>>
    BY <1>2, QueueFrame, TaskFrame DEF vars
  <2>2. ReportedMeansDone'
    BY <2>1 DEF AckInv, ReportedMeansDone, senderVars
  <2>3. \A p \in Peers \ gave_up' : InStep(p)'
    BY <2>1 DEF AckInv, InStep, Fresh, Answered, senderVars, radioVars
  <2>4. \A p \in Peers : Behind(p)'
    BY <2>1 DEF AckInv, Behind, OneBehind, NoTwoLost, Answered, Nth, senderVars, radioVars
  <2> QED BY <2>2, <2>3, <2>4 DEF AckInv
<1> QED BY <1>1, <1>2, NextCases

(* A write() that returns the length has had every fragment acknowledged,  *)
(* as long as its writer has not given up waiting, and no two fragments in *)
(* a row unacknowledged even then, whatever the radios lose and however    *)
(* many peers send.                                                        *)
THEOREM ReportsAreTrue == Spec => []ReportedMeansDone
<1>1. AckInv => ReportedMeansDone
  BY DEF AckInv
<1>2. Init => TypeInv /\ AckInv
  BY TypesInit, AckInit
<1>3. TypeInv /\ AckInv /\ [Next]_vars => (TypeInv /\ AckInv)'
  BY TypesKept, AckKept
<1> QED BY <1>1, <1>2, <1>3, PTL DEF Spec

-----------------------------------------------------------------------------
(* The order of fragments. *)

OnePeer == \A p, q \in Peers : p = q

LEMMA BeforeTrans ==
  ASSUME NEW f \in Fragments, NEW g \in Fragments, NEW h \in Fragments,
         Before(f, g), Before(g, h)
  PROVE  Before(f, h) /\ f # h
<1>1. /\ f.msg \in Nat /\ g.msg \in Nat /\ h.msg \in Nat
      /\ f.idx \in Nat /\ g.idx \in Nat /\ h.idx \in Nat
  BY FragmentIs
<1> QED BY <1>1 DEF Before

LEMMA BeforeStrict ==
  ASSUME NEW f \in Fragments, NEW g \in Fragments, Before(f, g)
  PROVE  ~Before(g, f) /\ f # g
<1>1. f.msg \in Nat /\ g.msg \in Nat /\ f.idx \in Nat /\ g.idx \in Nat
  BY FragmentIs
<1> QED BY <1>1 DEF Before

LEMMA ArrivedIs ==
  ASSUME TypeInv, Members
  PROVE  /\ Arrived \subseteq Fragments /\ queued \subseteq Fragments
         /\ InQueue \subseteq Arrived /\ Assembled \subseteq Arrived
         /\ item # None => item \in Arrived
         /\ Lasts \subseteq Arrived
         /\ Lasts \subseteq Fragments /\ Assembled \subseteq Fragments
         /\ InQueue \subseteq Fragments
BY DEF TypeInv, TypeOK, QueueTypeOK, Members, Arrived

(* Of one peer there is one fragment in the writer and one on the radio. *)
LEMMA WayIs ==
  ASSUME OnePeer, NEW p \in Peers
  PROVE  OnTheWay = {air[p], tx[p]} \ {None}
<1>1. \A q \in Peers : q = p
  BY DEF OnePeer
<1> QED BY <1>1 DEF OnTheWay

SentFirst(p) ==
  \E f \in Fragments :
    /\ f.msg = sent[p] + 1 /\ f.idx = 0 /\ WellNumbered(f)
    /\ tx'[p] = f /\ pc'[p] = "send" /\ sent'[p] = sent[p] + 1 /\ air'[p] = air[p]
ToRadio(p) ==
  /\ pc[p] = "send" /\ tx[p] # None /\ air[p] = None
  /\ air'[p] = tx[p] /\ pc'[p] = "wait" /\ tx'[p] = tx[p] /\ sent'[p] = sent[p]
SameFragment(p) ==
  /\ pc[p] # "send" /\ pc'[p] # "send" /\ tx'[p] = tx[p]
  /\ sent'[p] = sent[p] /\ air'[p] = air[p]
NoFragment(p) ==
  tx'[p] = None /\ sent'[p] = sent[p] /\ air'[p] = air[p]
NextOne(p) ==
  /\ tx[p] \in Fragments /\ tx[p].idx + 1 < tx[p].total
  /\ tx'[p] = Nth(tx[p], tx[p].idx + 1)
  /\ pc'[p] = "send" /\ sent'[p] = sent[p] /\ air'[p] = air[p]

LEMMA SenderCases ==
  ASSUME TypeInv, NEW p \in Peers, SenderStep(p)
  PROVE  SentFirst(p) \/ ToRadio(p) \/ SameFragment(p) \/ NoFragment(p) \/ NextOne(p)
<1> USE DEF SenderTypeOK, RadioTypeOK
<1>1. SenderTypeOK /\ RadioTypeOK /\ (pc[p] # "idle" => tx[p] # None)
  BY DEF TypeInv, TypeOK, Sending
<1>2. CASE Begin(p)
  <2>1. PICK total \in Totals :
          tx' = [tx EXCEPT ![p] =
                   [peer |-> p, msg |-> sent[p] + 1, seq |-> MsgSeq(sent[p] + 1),
                    idx |-> 0, total |-> total]]
    BY <1>2 DEF Begin
  <2> DEFINE first == [peer |-> p, msg |-> sent[p] + 1, seq |-> MsgSeq(sent[p] + 1),
                       idx |-> 0, total |-> total]
  <2>2. /\ first.msg = sent[p] + 1 /\ first.seq = MsgSeq(first.msg) /\ first.idx = 0
    OBVIOUS
  <2>3. tx'[p] = first
    BY <1>1, <2>1
  <2> HIDE DEF first
  <2>4. SenderTypeOK' /\ Sending'
    BY <1>2, SenderTyped DEF SenderStep
  <2>5. pc'[p] = "send" /\ sent'[p] = sent[p] + 1 /\ air'[p] = air[p]
    BY <1>1, <1>2 DEF Begin, radioVars
  <2>6. first \in Fragments /\ first.idx < first.total
    BY <2>3, <2>4, <2>5 DEF Sending
  <2> QED BY <2>2, <2>3, <2>5, <2>6 DEF SentFirst, WellNumbered
<1>3. CASE SendFragment(p)
  BY <1>1, <1>3 DEF SendFragment, ToRadio, NoFragment
<1>4. CASE WaitTimeout(p)
  BY <1>1, <1>4 DEF WaitTimeout, NoFragment, radioVars
<1>5. ASSUME NextFragment(p), pc[p] # "idle", UNCHANGED <<sent, air>>
      PROVE  NextOne(p) \/ NoFragment(p)
  <2>1. CASE tx[p].idx + 1 < tx[p].total
    <3>1. /\ tx[p] \in Fragments /\ tx' = [tx EXCEPT ![p].idx = @ + 1] /\ pc'[p] = "send"
      BY <1>1, <1>5, <2>1 DEF NextFragment
    <3>2. tx'[p] = Nth(tx[p], tx[p].idx + 1)
      BY <1>1, <3>1 DEF Nth
    <3> QED BY <1>5, <2>1, <3>1, <3>2 DEF NextOne
  <2>2. CASE ~(tx[p].idx + 1 < tx[p].total)
    BY <1>1, <1>5, <2>2 DEF NextFragment, NoFragment
  <2> QED BY <2>1, <2>2
<1>6. CASE WaitDone(p)
  <2>1. CASE mode[p] = "write"
    BY <1>1, <1>6, <2>1 DEF WaitDone, SameFragment, radioVars
  <2>2. CASE mode[p] # "write"
    BY <1>5, <1>6, <2>2 DEF WaitDone, radioVars
  <2> QED BY <2>1, <2>2
<1>7. CASE CheckSuccess(p)
  <2>1. CASE tx_success[p]
    BY <1>5, <1>7, <2>1 DEF CheckSuccess, radioVars
  <2>2. CASE ~tx_success[p]
    BY <1>1, <1>7, <2>2 DEF CheckSuccess, NoFragment, radioVars
  <2> QED BY <2>1, <2>2
<1> QED BY <1>2, <1>3, <1>4, <1>5, <1>6, <1>7 DEF SenderStep

(* What the radio has is no later than what the writer is at. *)
ComingTo(p, f) ==
  f.msg <= sent[p] /\ (tx[p] # None => Before(f, tx[p]) \/ (pc[p] # "send" /\ f = tx[p]))

LEMMA ComingKept ==
  ASSUME TypeInv, NEW p \in Peers, SenderStep(p), NEW f \in Fragments, ComingTo(p, f)
  PROVE  ComingTo(p, f)'
<1>1. sent[p] \in Nat /\ f.msg \in Nat /\ f.idx \in Nat /\ tx[p] \in Fragments \cup {None}
  BY FragmentIs, EspNowAssumption DEF TypeInv, TypeOK, SenderTypeOK, EspNowAssumption
<1>2. CASE SentFirst(p)
  <2>1. f.msg < tx'[p].msg /\ f.msg <= sent'[p]
    BY <1>1, <1>2 DEF SentFirst, ComingTo
  <2> QED BY <2>1 DEF ComingTo, Before
<1>3. CASE ToRadio(p)
  BY <1>3 DEF ToRadio, ComingTo
<1>4. CASE SameFragment(p)
  BY <1>4 DEF SameFragment, ComingTo
<1>5. CASE NoFragment(p)
  BY <1>5 DEF NoFragment, ComingTo
<1>6. CASE NextOne(p)
  <2>1. tx[p] \in Fragments /\ tx[p].idx + 1 \in 0..MaxFrags - 1
    BY <1>6, FragmentIs, EspNowAssumption DEF NextOne, EspNowAssumption
  <2>2. tx'[p].msg = tx[p].msg /\ tx'[p].idx = tx[p].idx + 1
    BY <1>6, <2>1, NthIs DEF NextOne
  <2>3. Before(f, tx[p]) \/ f = tx[p]
    BY <2>1, FragmentIs DEF ComingTo
  <2>4. tx[p].msg \in Nat /\ tx[p].idx \in Nat
    BY <2>1, FragmentIs
  <2>5. Before(f, tx'[p])
    BY <1>1, <2>2, <2>3, <2>4 DEF Before
  <2> QED BY <1>6, <2>5 DEF NextOne, ComingTo
<1> QED BY <1>2, <1>3, <1>4, <1>5, <1>6, SenderCases

LEMMA ComingIs ==
  ASSUME OnePeer, NEW p \in Peers
  PROVE  Coming <=> /\ \A f \in Arrived : air[p] # None => Before(f, air[p])
                    /\ \A f \in Arrived : ComingTo(p, f)
                    /\ air[p] # None => ComingTo(p, air[p])
<1>1. \A q \in Peers : q = p
  BY DEF OnePeer
<1> QED BY <1>1 DEF Coming, ComingTo

Alike(f, g) == f.msg = g.msg => f.peer = g.peer /\ f.total = g.total

LEMMA SenderOrder ==
  ASSUME OnePeer, TypeInv, OrderInv, NEW p \in Peers, SenderStep(p)
  PROVE  OrderInv'
<1> USE DEF OrderInv
<1>0. UNCHANGED <<rx_queue, queued, item, reassembly, buf, complete, delivered>>
  BY SenderFrame DEF taskVars
<1>1. Members' /\ Queue' /\ Assembly' /\ MessagesWhole' /\ Arrived' = Arrived
  <2>1. /\ InQueue' = InQueue /\ Assembled' = Assembled /\ Lasts' = Lasts
        /\ Arrived' = Arrived /\ Held' = Held
    BY <1>0 DEF InQueue, Assembled, Held, Lasts, Arrived
  <2>2. Members'
    BY <1>0, <2>1 DEF Members
  <2>3. Queue'
    BY <1>0, <2>1 DEF Queue
  <2>4. Assembly'
    BY <1>0, <2>1 DEF Assembly
  <2>5. MessagesWhole'
    BY <1>0 DEF MessagesWhole
  <2> QED BY <2>1, <2>2, <2>3, <2>4, <2>5
<1>2. Arrived \subseteq Fragments /\ queued \subseteq Arrived
  BY ArrivedIs DEF Arrived
<1>3. air[p] \in Fragments \cup {None} /\ tx[p] \in Fragments \cup {None}
  BY DEF TypeInv, TypeOK, SenderTypeOK, RadioTypeOK
<1>4. Coming'
  <2>1. \A q \in Peers : q = p
    BY DEF OnePeer
  <2>2. \A f \in Arrived : ComingTo(p, f)'
    BY <1>2, ComingIs, ComingKept
  <2>3. \A f \in Fragments : f = air[p] => ComingTo(p, f)'
    BY FragmentIs, ComingIs, ComingKept
  <2>4. CASE ToRadio(p)
    <3>1. \A f \in Arrived : Before(f, tx[p])
      BY <2>4, ComingIs DEF ToRadio, ComingTo
    <3>2. ComingTo(p, air[p])'
      <4>1. tx[p].msg = sent[p]
        BY <2>4 DEF ToRadio, TypeInv, Sending
      <4>2. sent[p] \in Nat
        BY EspNowAssumption DEF TypeInv, TypeOK, SenderTypeOK, EspNowAssumption
      <4> QED BY <2>4, <4>1, <4>2 DEF ToRadio, ComingTo
    <3>3. \A f \in Arrived : Before(f, air'[p])
      BY <2>4, <3>1 DEF ToRadio
    <3> QED BY <1>1, <2>1, <2>2, <3>2, <3>3 DEF Coming, ComingTo
  <2>5. CASE air'[p] = air[p]
    <3>1. air[p] # None => ComingTo(p, air[p])'
      BY <1>3, <2>3, <2>5
    <3> QED BY <1>1, <2>1, <2>2, <2>5, <3>1, ComingIs DEF Coming, ComingTo
  <2> QED BY <2>4, <2>5, SenderCases DEF SentFirst, SameFragment, NoFragment, NextOne
<1>5. Numbered'
  <2> DEFINE Way == {air[p], tx[p]} \ {None}
  <2>1. OnTheWay = Way /\ OnTheWay' = {air'[p], tx'[p]} \ {None}
    <3>1. \A q \in Peers : q = p
      BY DEF OnePeer
    <3> QED BY <3>1 DEF OnTheWay
  <2>2. /\ \A f \in queued \cup Way : WellNumbered(f)
        /\ \A f, g \in queued \cup Way : Alike(f, g)
    BY <2>1 DEF Numbered, Alike
  <2>3. queued \cup Way \subseteq Fragments
    BY <1>2, <1>3
  <2>4. ASSUME NEW h \in Fragments, WellNumbered(h),
               \A f \in queued \cup ({air[p]} \ {None}) : Alike(f, h) /\ Alike(h, f),
               tx'[p] = h, air'[p] = air[p]
        PROVE  Numbered'
    <3>1. OnTheWay' \subseteq Way \cup {h} /\ Alike(h, h)
      BY <2>1, <2>4 DEF Alike
    <3>2. \A f \in OnTheWay' : f = h \/ (f = air[p] /\ f # None)
      BY <2>1, <2>4
    <3>3. \A f \in queued \cup OnTheWay' : WellNumbered(f)
      BY <2>2, <2>4, <3>2
    <3>4. \A f, g \in queued \cup OnTheWay' : Alike(f, g)
      BY <2>2, <2>4, <3>1, <3>2
    <3>5. queued' = queued
      BY <1>0
    <3> QED BY <3>3, <3>4, <3>5 DEF Numbered, Alike, WellNumbered, MsgSeq
  <2>5. CASE SentFirst(p)
    <3>1. PICK h \in Fragments :
            /\ h.msg = sent[p] + 1 /\ WellNumbered(h)
            /\ tx'[p] = h /\ air'[p] = air[p]
      BY <2>5 DEF SentFirst
    <3>2. \A f \in queued \cup ({air[p]} \ {None}) : f.msg <= sent[p]
      BY <1>2, ComingIs DEF ComingTo
    <3>3. sent[p] \in Nat
      BY EspNowAssumption DEF TypeInv, TypeOK, SenderTypeOK, EspNowAssumption
    <3>4. \A f \in queued \cup ({air[p]} \ {None}) : f.msg # h.msg
      BY <1>2, <1>3, <3>1, <3>2, <3>3, FragmentIs
    <3> QED BY <2>4, <3>1, <3>4 DEF Alike
  <2>6. CASE NextOne(p)
    <3>1. /\ tx[p] \in Fragments /\ tx[p].idx + 1 \in 0..MaxFrags - 1
          /\ tx[p].idx + 1 < tx[p].total
      BY <2>6, FragmentIs, EspNowAssumption DEF NextOne, EspNowAssumption
    <3> DEFINE h == Nth(tx[p], tx[p].idx + 1)
    <3>2. /\ h \in Fragments /\ h.idx = tx[p].idx + 1 /\ h.msg = tx[p].msg
          /\ h.total = tx[p].total /\ h.peer = tx[p].peer /\ h.seq = tx[p].seq
      BY <3>1, NthIs
    <3>3. tx'[p] = h /\ air'[p] = air[p]
      BY <2>6 DEF NextOne
    <3> HIDE DEF h
    <3>4. tx[p] \in Way
      BY <3>1, FragmentIs
    <3>5. WellNumbered(h)
      BY <2>2, <3>1, <3>2, <3>4 DEF WellNumbered
    <3>6. \A f \in queued \cup ({air[p]} \ {None}) : Alike(f, h) /\ Alike(h, f)
      BY <2>2, <3>2, <3>4 DEF Alike
    <3> QED BY <2>4, <3>2, <3>3, <3>5, <3>6
  <2>7. CASE ToRadio(p) \/ SameFragment(p) \/ NoFragment(p)
    <3>1. OnTheWay' \subseteq OnTheWay /\ queued' = queued
      BY <1>0, <2>1, <2>7 DEF ToRadio, SameFragment, NoFragment
    <3> QED BY <3>1 DEF Numbered, WellNumbered, MsgSeq
  <2> QED BY <2>5, <2>6, <2>7, SenderCases
<1> QED BY <1>1, <1>4, <1>5

LEMMA QueueGrows ==
  ASSUME QueueTypeOK, NEW x \in Fragments \cup {None}, rx_queue' = Append(rx_queue, x)
  PROVE  /\ Len(rx_queue') = Len(rx_queue) + 1
         /\ rx_queue'[Len(rx_queue) + 1] = x
         /\ \A k \in 1..Len(rx_queue) : rx_queue'[k] = rx_queue[k]
         /\ InQueue' = InQueue \cup ({x} \ {None})
<1>1. /\ Len(rx_queue') = Len(rx_queue) + 1
      /\ rx_queue'[Len(rx_queue) + 1] = x
      /\ \A k \in 1..Len(rx_queue) : rx_queue'[k] = rx_queue[k]
      /\ Len(rx_queue) \in Nat
  BY DEF QueueTypeOK
<1>2. \A k : k \in 1..Len(rx_queue') <=> k \in 1..Len(rx_queue) \/ k = Len(rx_queue) + 1
  BY <1>1
<1>3. InQueue' = InQueue \cup ({x} \ {None})
  BY <1>1, <1>2 DEF InQueue
<1> QED BY <1>1, <1>3

(* A frame comes last. *)
LEMMA QueueOrdered ==
  ASSUME TypeInv, Members, Queue, NEW x \in Fragments \cup {None},
         rx_queue' = Append(rx_queue, x), UNCHANGED taskVars,
         x # None => \A f \in Arrived : Before(f, x)
  PROVE  Queue'
<1> DEFINE n == Len(rx_queue)
<1>1. /\ Len(rx_queue') = n + 1 /\ rx_queue'[n + 1] = x
      /\ \A k \in 1..n : rx_queue'[k] = rx_queue[k]
      /\ InQueue' = InQueue \cup ({x} \ {None})
      /\ n \in Nat
  BY QueueGrows DEF TypeInv, TypeOK, QueueTypeOK
<1>2. \A k \in 1..n : rx_queue[k] # None => rx_queue[k] \in Arrived
  BY ArrivedIs DEF InQueue
<1>3. ASSUME NEW j \in 1..n + 1, NEW k \in 1..n + 1, j < k,
             rx_queue'[j] # None, rx_queue'[k] # None
      PROVE  Before(rx_queue'[j], rx_queue'[k])
  <2>1. j \in 1..n
    BY <1>1, <1>3
  <2>2. rx_queue'[j] = rx_queue[j]
    BY <1>1, <2>1
  <2>3. CASE k = n + 1
    BY <1>1, <1>2, <1>3, <2>1, <2>2, <2>3
  <2>4. CASE k # n + 1
    <3>1. k \in 1..n /\ rx_queue'[k] = rx_queue[k]
      BY <1>1, <2>4
    <3> QED BY <1>3, <2>1, <2>2, <3>1 DEF Queue
  <2> QED BY <2>3, <2>4
<1>4. UNCHANGED <<item, complete, Lasts, Assembled>>
  BY DEF taskVars, Lasts, Assembled, Held
<1>5. \A f \in Lasts \cup Assembled \cup ({item} \ {None}) : f \in Arrived
  BY ArrivedIs
<1>6. \A f \in Lasts \cup Assembled \cup ({item} \ {None}), g \in InQueue' : Before(f, g)
  BY <1>1, <1>5 DEF Queue
<1> QED BY <1>1, <1>3, <1>4, <1>6 DEF Queue, Before

LEMMA RadioOrder ==
  ASSUME OnePeer, TypeInv, OrderInv, NEW p \in Peers, RadioStep(p)
  PROVE  OrderInv'
<1> USE DEF OrderInv
<1>0. UNCHANGED <<pc, tx, sent, taskVars>>
  BY RadioFrame
<1>1. UNCHANGED <<Lasts, Assembled, Held>> /\ Assembly' /\ MessagesWhole'
  BY <1>0 DEF taskVars, Lasts, Assembled, Held, Assembly, MessagesWhole
<1>2. CASE SendCbGive(p)
  BY <1>1, <1>2 DEF SendCbGive, senderVars, taskVars, Members, InQueue, Numbered, OnTheWay, Coming,
     Arrived, Queue
<1>3. CASE Transmit(p)
  <2> DEFINE h == air[p]
  <2>0. \A q \in Peers : q = p
    BY DEF OnePeer
  <2>1. h \in Fragments /\ air'[p] = None
    BY <1>3 DEF Transmit, TypeInv, TypeOK, RadioTypeOK
  <2>2. \/ UNCHANGED <<rx_queue, queued>>
        \/ rx_queue' = Append(rx_queue, h) /\ queued' = queued \cup {h}
    BY <1>3, <2>1, RecvIs, FragmentIs DEF Transmit, TypeInv, TypeOK
  <2>3. /\ \A f \in Arrived : Before(f, h)
        /\ ComingTo(p, h) /\ \A f \in Arrived : ComingTo(p, f)
    BY <2>1, ComingIs, FragmentIs
  <2>4. h \in OnTheWay /\ OnTheWay' \subseteq OnTheWay
    BY <1>0, <2>0, <2>1, FragmentIs DEF OnTheWay
  <2> HIDE DEF h
  <2>5. queued' \subseteq queued \cup {h} /\ queued \subseteq queued'
    BY <2>2
  <2>6. Numbered'
    BY <2>4, <2>5 DEF Numbered, WellNumbered, MsgSeq
  <2>7. Coming'
    <3>1. Arrived' \subseteq Arrived \cup {h}
      BY <1>1, <2>5 DEF Arrived
    <3> QED BY <1>0, <2>0, <2>1, <2>3, <3>1 DEF Coming, ComingTo
  <2>8. Members'
    <3>1. InQueue' \subseteq queued'
      <4>1. CASE UNCHANGED <<rx_queue, queued>>
        BY <4>1 DEF Members, InQueue
      <4>2. CASE rx_queue' = Append(rx_queue, h) /\ queued' = queued \cup {h}
        BY <2>1, <4>2, QueueGrows DEF TypeInv, TypeOK, Members
      <4> QED BY <2>2, <4>1, <4>2
    <3> QED BY <1>0, <1>1, <2>5, <3>1 DEF Members, taskVars
  <2>9. Queue'
    <3>1. CASE UNCHANGED <<rx_queue, queued>>
      BY <1>0, <1>1, <3>1 DEF Queue, InQueue, taskVars
    <3>2. CASE rx_queue' = Append(rx_queue, h) /\ queued' = queued \cup {h}
      BY <1>0, <2>1, <2>3, <3>2, QueueOrdered
    <3> QED BY <2>2, <3>1, <3>2
  <2> QED BY <1>1, <2>6, <2>7, <2>8, <2>9
<1> QED BY <1>2, <1>3 DEF RadioStep

LEMMA FewerArrived ==
  ASSUME Numbered, Coming, Arrived' \subseteq Arrived, queued' \subseteq queued,
         UNCHANGED <<pc, tx, sent, air>>
  PROVE  Numbered' /\ Coming'
<1>1. OnTheWay' = OnTheWay
  BY DEF OnTheWay
<1>2. Numbered'
  BY <1>1 DEF Numbered, WellNumbered, MsgSeq
<1>3. Coming'
  BY DEF Coming
<1> QED BY <1>2, <1>3

LEMMA StrayOrder ==
  ASSUME TypeInv, OrderInv, Stray
  PROVE  OrderInv'
<1> USE DEF OrderInv
<1>1. UNCHANGED <<senderVars, radioVars, taskVars>>
  BY DEF Stray
<1>2. rx_queue' = Append(rx_queue, None) /\ queued' = queued
  BY StrayIs DEF TypeInv, TypeOK
<1>3. UNCHANGED <<Lasts, Assembled, Held, Arrived>> /\ Assembly' /\ MessagesWhole'
  BY <1>1, <1>2 DEF taskVars, Lasts, Assembled, Held, Arrived, Assembly, MessagesWhole
<1>4. Queue'
  BY <1>1, <1>2, QueueOrdered
<1>5. InQueue' = InQueue
  BY <1>2, QueueGrows DEF TypeInv, TypeOK
<1>6. Members'
  BY <1>1, <1>2, <1>3, <1>5 DEF Members, taskVars
<1>7. Numbered' /\ Coming'
  BY <1>1, <1>2, <1>3, FewerArrived DEF senderVars, radioVars
<1> QED BY <1>3, <1>4, <1>6, <1>7

(* What the RX task has taken is not in the queue. *)
LEMMA TakenIs ==
  ASSUME TypeInv, Members, Queue, NEW f \in Lasts \cup Assembled \cup ({item} \ {None})
  PROVE  f \notin InQueue
<1>1. f \in Fragments
  BY ArrivedIs
<1> QED BY <1>1, BeforeStrict DEF Queue

LEMMA FlushOrder ==
  ASSUME TypeInv, OrderInv, Flush
  PROVE  OrderInv'
<1> USE DEF OrderInv
<1>1. UNCHANGED <<senderVars, radioVars, taskVars>> /\ rx_queue' = <<>>
  BY DEF Flush
<1>2. queued' = queued \ InQueue
  BY NoneAssumption DEF Flush, InQueue, TypeInv, TypeOK, QueueTypeOK
<1>3. UNCHANGED <<Lasts, Assembled, Held, item>> /\ Assembly' /\ MessagesWhole'
  BY <1>1 DEF taskVars, Lasts, Assembled, Held, Assembly, MessagesWhole
<1>4. InQueue' = {} /\ Len(rx_queue') = 0
  BY <1>1 DEF InQueue
<1>5. Queue'
  BY <1>1, <1>3, <1>4 DEF Queue, taskVars
<1>6. Members'
  BY <1>2, <1>3, <1>4, TakenIs DEF Members
<1>7. Numbered' /\ Coming'
  BY <1>1, <1>2, <1>3, FewerArrived DEF senderVars, radioVars, Arrived
<1> QED BY <1>3, <1>5, <1>6, <1>7

(* Nothing is assembled after the message was handed on or given up. *)
LEMMA NothingHeld ==
  ASSUME ~complete', reassembly'.received = 0, ~reassembly'.active
  PROVE  Held' = 0 /\ Assembled' = {} /\ Assembly'
<1>1. Held' = 0
  BY DEF Held
<1> QED BY <1>1 DEF Assembled, Assembly

LEMMA ReceiveOrder ==
  ASSUME TypeInv, OrderInv, Receive
  PROVE  OrderInv'
<1> USE DEF OrderInv
<1>1. /\ UNCHANGED <<senderVars, radioVars, queued, reassembly, buf, complete, delivered>>
      /\ item = None /\ rx_queue # <<>>
      /\ item' = Head(rx_queue) /\ rx_queue' = Tail(rx_queue)
  BY DEF Receive
<1>2. UNCHANGED <<Lasts, Assembled, Held, Arrived>> /\ Assembly' /\ MessagesWhole'
  <2>1. UNCHANGED <<Lasts, Assembled, Held, Arrived>> /\ MessagesWhole'
    BY <1>1 DEF Lasts, Assembled, Held, Arrived, MessagesWhole
  <2>2. ~complete
    <3>1. complete => Len(buf) \in 1..Len(buf) /\ item = buf[Len(buf)] /\ buf \in Seq(Fragments)
      BY DEF Assembling, TypeInv, TypeOK, TaskTypeOK
    <3>2. complete => item \in Fragments
      BY <3>1
    <3>3. complete \in BOOLEAN
      BY DEF TypeInv, TypeOK, TaskTypeOK
    <3>4. None \notin Fragments
      BY NoneAssumption
    <3> QED BY ONLY <1>1, <3>2, <3>3, <3>4
  <2>3. Assembly'
    BY <1>1, <2>1 DEF Assembly
  <2> QED BY <2>1, <2>3
<1>3. /\ Len(rx_queue) \in Nat \ {0} /\ item' = rx_queue[1]
      /\ Len(rx_queue') = Len(rx_queue) - 1
      /\ \A k \in 1..Len(rx_queue') : rx_queue'[k] = rx_queue[k + 1]
  BY <1>1 DEF TypeInv, TypeOK, QueueTypeOK
<1>4. \A k \in 1..Len(rx_queue') : k + 1 \in 1..Len(rx_queue)
  BY <1>3
<1>5. InQueue' \subseteq InQueue
  BY <1>3, <1>4 DEF InQueue
<1>6. item' # None => item' \in InQueue
  BY <1>3 DEF InQueue
<1>7. Members'
  BY <1>1, <1>2, <1>5, <1>6 DEF Members
<1>8. Queue'
  <2>1. ASSUME NEW j \in 1..Len(rx_queue'), NEW k \in 1..Len(rx_queue'), j < k,
               rx_queue'[j] # None, rx_queue'[k] # None
        PROVE  Before(rx_queue'[j], rx_queue'[k])
    <3>1. j + 1 \in 1..Len(rx_queue) /\ k + 1 \in 1..Len(rx_queue) /\ j + 1 < k + 1
      BY <1>3, <2>1
    <3> QED BY <1>3, <2>1, <3>1 DEF Queue
  <2>2. item' # None => \A g \in InQueue' : Before(item', g)
    <3> SUFFICES ASSUME item' # None, NEW g \in InQueue' PROVE Before(item', g)
      OBVIOUS
    <3>1. PICK k \in 1..Len(rx_queue') : g = rx_queue'[k] /\ g # None
      BY DEF InQueue
    <3>2. k + 1 \in 1..Len(rx_queue) /\ 1 < k + 1 /\ 1 \in 1..Len(rx_queue)
      BY <1>3, <1>4
    <3> QED BY <1>3, <3>1, <3>2 DEF Queue
  <2>3. \A f \in Lasts \cup Assembled, g \in InQueue' : Before(f, g)
    BY <1>5 DEF Queue
  <2>4. item' # None => \A f \in Lasts \cup Assembled : Before(f, item')
    BY <1>6 DEF Queue
  <2> QED BY <1>2, <2>1, <2>2, <2>3, <2>4 DEF Queue, Before
<1>9. Numbered' /\ Coming'
  BY <1>1, <1>2, FewerArrived DEF senderVars, radioVars
<1> QED BY <1>2, <1>7, <1>8, <1>9

(* The fragment in hand is put behind the first n of the assembly. *)
LEMMA AppendOrder ==
  ASSUME TypeInv, OrderInv, item \in Fragments, ~complete,
         NEW n \in Nat, n <= Held, n + 1 <= MaxFrags,
         item.idx = n, n > 0 => item.seq = reassembly.msg_seq,
         Len(buf') = n + 1, buf'[n + 1] = item, \A i \in 1..n : buf'[i] = buf[i],
         UNCHANGED <<senderVars, radioVars, rx_queue, queued, delivered>>,
         \/ /\ ~complete' /\ item' = None
            /\ reassembly'.received = n + 1 /\ reassembly'.msg_seq = item.seq
            /\ reassembly'.expected = buf'[1].total
         \/ /\ complete' /\ item' = item
            /\ reassembly'.received = 0 /\ ~reassembly'.active
            /\ n + 1 = buf'[1].total
  PROVE  OrderInv' /\ Held' = n + 1
<1> USE DEF OrderInv
<1>1. Held = reassembly.received
  BY DEF Held
<1>2. Held' = n + 1
  BY DEF Held
<1>3. \A i \in 1..n + 1 : i = n + 1 \/ i \in 1..n
  OBVIOUS
<1>4. \A i \in 1..n : i \in 1..Held /\ i \in 1..reassembly.received
  BY <1>1 DEF TypeInv, TypeOK, TaskTypeOK
<1>5. \A i \in 1..n : buf[i] \in Assembled
  BY <1>4 DEF Assembled
<1>6. Assembled' \subseteq Assembled \cup {item}
  BY <1>2, <1>3, <1>5 DEF Assembled
<1>7. UNCHANGED <<Lasts, InQueue, Arrived>> /\ MessagesWhole'
  BY DEF Lasts, InQueue, Arrived, MessagesWhole
<1>8. item # None
  BY NoneAssumption
<1>9. \A f \in Lasts \cup Assembled : Before(f, item)
  BY <1>8 DEF Queue
<1>10. Members'
  BY <1>6, <1>7, <1>8 DEF Members
<1>11. Queue'
  <2>1. \A f \in Lasts \cup Assembled' \cup ({item'} \ {None}), g \in InQueue : Before(f, g)
    BY <1>6, <1>8 DEF Queue
  <2>2. ~(item' # None /\ ~complete')
    OBVIOUS
  <2> QED BY <1>7, <2>1, <2>2 DEF Queue, Before
<1>12. Assembled \subseteq Fragments /\ Lasts \subseteq Fragments /\ queued \subseteq Fragments
  BY ArrivedIs
<1>13. Assembly'
  <2>1. reassembly'.active => reassembly'.expected = buf'[1].total
    OBVIOUS
  <2>2. complete' => Len(buf') = buf'[1].total
    OBVIOUS
  <2>3. \A i \in 1..n : buf[i].idx = i - 1 /\ buf[i].seq = item.seq
    BY <1>4 DEF Assembly
  <2>4. \A i \in 1..n + 1 : buf'[i].idx = i - 1 /\ buf'[i].seq = item.seq
    BY <1>3, <2>3
  <2>5. ASSUME NEW i \in 1..n
        PROVE  /\ buf[i].msg <= item.msg
               /\ buf[i].msg = item.msg \/ buf[i].msg + SeqMod <= item.msg
    <3>1. /\ buf[i] \in queued /\ item \in queued /\ Before(buf[i], item)
          /\ buf[i].seq = item.seq
      BY <1>5, <1>8, <1>9, <2>3 DEF Members
    <3>2. /\ buf[i].msg \in Nat \ {0} /\ item.msg \in Nat \ {0}
          /\ buf[i].seq = MsgSeq(buf[i].msg) /\ item.seq = MsgSeq(item.msg)
      BY <1>12, <3>1, FragmentIs DEF Numbered, WellNumbered
    <3>3. buf[i].msg <= item.msg
      BY <3>1, <3>2 DEF Before
    <3>4. buf[i].msg < item.msg => buf[i].msg + SeqMod <= item.msg
      BY <3>1, <3>2, TurnApart
    <3> QED BY <3>2, <3>3, <3>4
  <2>6. ASSUME NEW i \in 2..n + 1
        PROVE  buf'[i - 1].msg = buf'[i].msg \/ buf'[i - 1].msg + SeqMod <= buf'[i].msg
    <3>1. i - 1 \in 1..n /\ i - 1 \in Nat
      OBVIOUS
    <3>2. CASE i = n + 1
      BY <2>5, <3>1, <3>2
    <3>3. CASE i # n + 1
      <4>1. i \in 1..n /\ i \in 2..Held
        BY <1>4, <3>3
      <4> QED BY <3>1, <4>1 DEF Assembly
    <3> QED BY <3>2, <3>3
  <2>7. ASSUME NEW i \in 1..n + 1, NEW j \in 1..n + 1, i < j
        PROVE  buf'[i].msg <= buf'[j].msg
    <3>1. i \in 1..n
      BY <2>7
    <3>2. CASE j = n + 1
      BY <2>5, <3>1, <3>2
    <3>3. CASE j # n + 1
      <4>1. j \in 1..n
        BY <3>3
      <4> QED BY <1>4, <2>7, <3>1, <4>1 DEF Assembly
    <3> QED BY <3>2, <3>3
  <2>8. ASSUME NEW f \in Lasts, NEW i \in 1..n + 1 PROVE Before(f, buf'[i])
    <3>1. CASE i = n + 1
      BY <1>9, <3>1
    <3>2. CASE i # n + 1
      <4>1. i \in 1..n
        BY <3>2
      <4> QED BY <1>4, <4>1 DEF Assembly
    <3> QED BY <3>1, <3>2
  <2>9. \A i \in 1..reassembly'.received : buf'[i].seq = reassembly'.msg_seq
    BY <2>4
  <2> QED BY <1>2, <1>7, <2>1, <2>2, <2>4, <2>6, <2>7, <2>8, <2>9 DEF Assembly, Before
<1>14. Numbered' /\ Coming'
  BY <1>7, FewerArrived DEF senderVars, radioVars
<1> QED BY <1>2, <1>7, <1>10, <1>11, <1>13, <1>14

LEMMA RestartOrder ==
  ASSUME TypeInv, OrderInv, Restart
  PROVE  OrderInv' /\ Held' = 1 /\ buf'[1] = item
<1> DEFINE r == Begun(item)
<1>1. /\ item \in Fragments /\ ~complete /\ item.idx = 0
      /\ r \in [active : BOOLEAN, msg_seq : 0..SeqMod - 1,
                expected : 0..MaxFrags, received : 0..MaxFrags]
      /\ r.received = 0 /\ r.active /\ r.expected = item.total /\ r.msg_seq = item.seq
      /\ r.received < r.expected /\ r.received <= Len(buf)
      /\ AppendFragment(r)
  BY RestartIs
<1> HIDE DEF r
<1> DEFINE n == r.received
<1>2. /\ Len(buf') = n + 1 /\ buf'[n + 1] = item
      /\ TaskTypeOK'
      /\ \/ /\ n + 1 < r.expected
            /\ ~complete' /\ item' = None
            /\ reassembly' = [r EXCEPT !.received = n + 1]
         \/ /\ n + 1 = r.expected
            /\ complete' /\ item' = item
            /\ reassembly'.received = 0 /\ ~reassembly'.active
  BY <1>1, AppendIs
<1>3. n = 0 /\ n + 1 = 1
  BY <1>1
<1> HIDE DEF n
<1>4. UNCHANGED <<senderVars, radioVars, rx_queue, queued, delivered>>
  BY <1>1 DEF AppendFragment
<1>5. \A m \in 0..MaxFrags :
         LET e == [r EXCEPT !.received = m]
         IN  e.received = m /\ e.msg_seq = r.msg_seq /\ e.expected = r.expected
  BY <1>1
<1>6. 1 \in 0..MaxFrags /\ 0 + 1 = 1
  BY EspNowAssumption DEF EspNowAssumption
<1>7. \/ /\ ~complete' /\ item' = None
         /\ reassembly'.received = 0 + 1 /\ reassembly'.msg_seq = item.seq
         /\ reassembly'.expected = buf'[1].total
      \/ /\ complete' /\ item' = item
         /\ reassembly'.received = 0 /\ ~reassembly'.active
         /\ 0 + 1 = buf'[1].total
  BY <1>1, <1>2, <1>3, <1>5, <1>6
<1>8. 0 \in Nat /\ 0 <= Held /\ 0 + 1 <= MaxFrags /\ 0 + 1 = 1
  BY EspNowAssumption DEF EspNowAssumption, Held, TypeInv, TypeOK, TaskTypeOK
<1>9. \A i \in 1..0 : buf'[i] = buf[i]
  OBVIOUS
<1>10. OrderInv' /\ Held' = 0 + 1
  BY <1>1, <1>2, <1>3, <1>4, <1>7, <1>8, <1>9, AppendOrder
<1> QED BY <1>2, <1>3, <1>10

LEMMA ContinueOrder ==
  ASSUME TypeInv, OrderInv, Continue
  PROVE  /\ OrderInv' /\ Held' = Held + 1
         /\ item \in Fragments /\ item.idx = Held /\ Held > 0
         /\ buf'[Held + 1] = item /\ \A i \in 1..Held : buf'[i] = buf[i]
<1> DEFINE n == reassembly.received
<1>1. /\ item \in Fragments /\ ~complete /\ item.idx # 0
      /\ reassembly \in [active : BOOLEAN, msg_seq : 0..SeqMod - 1,
                         expected : 0..MaxFrags, received : 0..MaxFrags]
      /\ reassembly.active /\ item.seq = reassembly.msg_seq /\ item.idx = n
      /\ n < reassembly.expected /\ n <= Len(buf)
      /\ AppendFragment(reassembly)
  BY ContinueIs
<1>2. n \in Nat /\ n > 0 /\ n + 1 <= MaxFrags /\ n = Held
  BY <1>1, FragmentIs, EspNowAssumption DEF Held, EspNowAssumption
<1>3. /\ Len(buf') = n + 1 /\ buf'[n + 1] = item /\ \A i \in 1..n : buf'[i] = buf[i]
      /\ TaskTypeOK'
      /\ \/ /\ n + 1 < reassembly.expected
            /\ ~complete' /\ item' = None
            /\ reassembly' = [reassembly EXCEPT !.received = n + 1]
         \/ /\ n + 1 = reassembly.expected
            /\ complete' /\ item' = item
            /\ reassembly'.received = 0 /\ ~reassembly'.active
  BY <1>1, AppendIs
<1>4. UNCHANGED <<senderVars, radioVars, rx_queue, queued, delivered>>
  BY <1>1 DEF AppendFragment
<1>5. reassembly.expected = buf'[1].total
  <2>1. 1 \in 1..n
    BY <1>2
  <2> QED BY <1>1, <1>3, <2>1 DEF OrderInv, Assembly
<1> DEFINE r == reassembly
<1>6. [r EXCEPT !.received = n + 1].received = n + 1
      /\ [r EXCEPT !.received = n + 1].msg_seq = r.msg_seq
      /\ [r EXCEPT !.received = n + 1].expected = r.expected
  BY <1>1
<1>7. \/ /\ ~complete' /\ item' = None
         /\ reassembly'.received = n + 1 /\ reassembly'.msg_seq = item.seq
         /\ reassembly'.expected = buf'[1].total
      \/ /\ complete' /\ item' = item
         /\ reassembly'.received = 0 /\ ~reassembly'.active
         /\ n + 1 = buf'[1].total
  BY <1>1, <1>3, <1>5, <1>6
<1>8. n <= Held
  BY <1>2
<1>9. OrderInv' /\ Held' = n + 1
  BY <1>1, <1>2, <1>3, <1>4, <1>7, <1>8, AppendOrder
<1> QED BY <1>1, <1>2, <1>3, <1>9

LEMMA DropOrder ==
  ASSUME TypeInv, OrderInv, DropOrphan \/ DropOutOfOrder
  PROVE  OrderInv'
<1> USE DEF OrderInv
<1>1. /\ UNCHANGED <<senderVars, radioVars, rx_queue, queued, complete, delivered>>
      /\ item' = None /\ ~complete
      /\ \/ UNCHANGED <<reassembly, buf>>
         \/ reassembly' = NoMessage
  BY DEF DropOrphan, DropOutOfOrder, DropFragment
<1>2. UNCHANGED <<Lasts, InQueue, Arrived>> /\ MessagesWhole'
  BY <1>1 DEF Lasts, InQueue, Arrived, MessagesWhole
<1>3. Assembled' \subseteq Assembled /\ Assembly'
  <2>1. CASE UNCHANGED <<reassembly, buf>>
    BY <1>1, <1>2, <2>1 DEF Assembled, Held, Assembly
  <2>2. CASE reassembly' = NoMessage
    <3>1. reassembly'.received = 0 /\ ~reassembly'.active
      BY <2>2 DEF NoMessage
    <3> QED BY <1>1, <3>1, NothingHeld
  <2> QED BY <1>1, <2>1, <2>2
<1>4. Members' /\ Queue'
  BY <1>1, <1>2, <1>3 DEF Members, Queue
<1>5. Numbered' /\ Coming'
  BY <1>1, <1>2, FewerArrived DEF senderVars, radioVars
<1> QED BY <1>2, <1>3, <1>4, <1>5

(* The message in the buffer *)
LEMMA CompleteIs ==
  ASSUME TypeInv, OrderInv, complete
  PROVE  /\ Held = Len(buf) /\ Len(buf) \in Nat \ {0} /\ buf \in Seq(Fragments)
         /\ item = LastOf(buf) /\ item \in Fragments
         /\ Whole(buf)
         /\ ~reassembly.active /\ reassembly.received = 0
<1>1. /\ Held = Len(buf) /\ Len(buf) \in Nat \ {0} /\ buf \in Seq(Fragments)
      /\ item = buf[Len(buf)] /\ ~reassembly.active
  BY DEF TypeInv, TypeOK, TaskTypeOK, Assembling, Held
<1>2. item \in Fragments /\ reassembly.received = 0
  BY <1>1 DEF TypeInv, Assembling
<1>3. Whole(buf)
  BY <1>1 DEF OrderInv, Assembly, Whole
<1> QED BY <1>1, <1>2, <1>3 DEF LastOf

LEMMA DeliverOrder ==
  ASSUME TypeInv, OrderInv, Deliver
  PROVE  /\ OrderInv' /\ Held' = 0
         /\ Lasts' = Lasts \cup {item} /\ queued' = queued \ Assembled
<1> USE DEF OrderInv
<1>1. /\ complete /\ ~complete' /\ item' = None
      /\ delivered' = Append(delivered, buf)
      /\ UNCHANGED <<senderVars, radioVars, rx_queue, reassembly, buf>>
  BY DEF Deliver
<1>2. /\ Held = Len(buf) /\ Len(buf) \in Nat \ {0} /\ buf \in Seq(Fragments)
      /\ item = LastOf(buf) /\ item \in Fragments
      /\ Whole(buf)
      /\ ~reassembly.active /\ reassembly.received = 0
  BY <1>1, CompleteIs
<1>3. queued' = queued \ Assembled
  BY <1>2 DEF Deliver, Assembled
<1>4. Held' = 0 /\ Assembled' = {} /\ Assembly'
  BY <1>1, <1>2, NothingHeld
<1> DEFINE d == Len(delivered)
<1>5. /\ d \in Nat /\ Len(delivered') = d + 1 /\ delivered'[d + 1] = buf
      /\ \A k \in 1..d : delivered'[k] = delivered[k]
  BY <1>1, <1>2 DEF TypeInv, TypeOK, TaskTypeOK
<1> HIDE DEF d
<1>6. \A k : k \in 1..d + 1 <=> k \in 1..d \/ k = d + 1
  BY <1>5
<1>7. Lasts' = Lasts \cup {item}
  BY <1>2, <1>5, <1>6 DEF Lasts, LastOf, d
<1>8. InQueue' = InQueue
  BY <1>1 DEF InQueue
<1>9. item # None
  BY <1>2, NoneAssumption
<1>10. Arrived' \subseteq Arrived
  BY <1>3, <1>7, <1>9 DEF Arrived, Members
<1>11. Members'
  <2>1. InQueue \cap Assembled = {}
    BY TakenIs
  <2> QED BY <1>1, <1>2, <1>3, <1>4, <1>7, <1>8, <2>1 DEF Members
<1>12. Queue'
  BY <1>1, <1>4, <1>7, <1>8, <1>9 DEF Queue
<1>13. MessagesWhole'
  <2>1. \A k \in 1..d + 1 : Whole(delivered'[k])
    BY <1>2, <1>5, <1>6 DEF MessagesWhole, d
  <2>2. ASSUME NEW j \in 1..d + 1, NEW k \in 1..d + 1, j < k
        PROVE  delivered'[j][Len(delivered'[j])].msg < delivered'[k][1].msg
    <3>1. j \in 1..d /\ delivered'[j] = delivered[j]
      BY <1>5, <2>2
    <3>2. CASE k = d + 1
      <4>1. LastOf(delivered[j]) \in Lasts /\ 1 \in 1..Held
        BY <1>2, <3>1 DEF Lasts, d
      <4>2. Before(LastOf(delivered[j]), buf[1]) /\ buf[1].idx = 1 - 1
        BY <4>1 DEF Assembly
      <4>3. LastOf(delivered[j]) \in Fragments
        BY <4>1, ArrivedIs
      <4>4. LastOf(delivered[j]).idx \in Nat
        BY <4>3, FragmentIs
      <4>5. LastOf(delivered[j]).msg < buf[1].msg
        BY <4>2, <4>4 DEF Before
      <4> QED BY <1>5, <3>1, <3>2, <4>5 DEF LastOf
    <3>3. CASE k # d + 1
      <4>1. k \in 1..d
        BY <1>6, <3>3
      <4> QED BY <1>5, <2>2, <3>1, <4>1 DEF MessagesWhole, d
    <3> QED BY <3>2, <3>3
  <2> QED BY <1>5, <2>1, <2>2 DEF MessagesWhole, Whole
<1>14. Numbered' /\ Coming'
  BY <1>1, <1>3, <1>10, FewerArrived DEF senderVars, radioVars
<1> QED BY <1>3, <1>4, <1>7, <1>11, <1>12, <1>13, <1>14

LEMMA OrderInit == Init => OrderInv
<1> SUFFICES ASSUME Init PROVE OrderInv
  OBVIOUS
<1>1. InQueue = {} /\ Lasts = {} /\ Held = 0 /\ Assembled = {} /\ OnTheWay = {} /\ Arrived = {}
  BY DEF Init, InQueue, Lasts, Held, Assembled, OnTheWay, Arrived, NoMessage
<1>2. Members /\ Numbered
  BY <1>1 DEF Init, Members, Numbered
<1>3. Coming
  BY <1>1 DEF Init, Coming
<1>4. Queue /\ MessagesWhole
  BY <1>1 DEF Init, Queue, MessagesWhole
<1>5. Assembly
  BY <1>1 DEF Init, Assembly, NoMessage
<1> QED BY <1>2, <1>3, <1>4, <1>5 DEF OrderInv

LEMMA OrderKept == OnePeer /\ TypeInv /\ OrderInv /\ [Next]_vars => OrderInv'
<1> SUFFICES ASSUME OnePeer, TypeInv, OrderInv, [Next]_vars PROVE OrderInv'
  OBVIOUS
<1>1. CASE UNCHANGED vars
  BY <1>1 DEF vars, senderVars, radioVars, taskVars, OrderInv, Members, InQueue, Assembled,
     Held, Lasts, Arrived, Numbered, OnTheWay, Coming, Queue, Assembly, MessagesWhole
<1>2. CASE RxTask
  BY <1>2, ReceiveOrder, RestartOrder, ContinueOrder, DropOrder, DeliverOrder DEF RxTask
<1> QED BY <1>1, <1>2, SenderOrder, RadioOrder, StrayOrder, FlushOrder, NextCases

(* From one peer, what rx_callback_ gets are whole messages, fragment by   *)
(* fragment and in the order they were sent, whatever is lost, refused or  *)
(* flushed, for every length of message and of the queue and every width   *)
(* of msg_seq: fragments with the same number that are not of one message  *)
(* are at least a turn of the counter apart.                               *)
THEOREM WholeInOrder ==
  ASSUME OnePeer
  PROVE  Spec => []MessagesWhole
<1>1. OrderInv => MessagesWhole
  BY DEF OrderInv
<1>2. Init => TypeInv /\ OrderInv
  BY TypesInit, OrderInit
<1>3. TypeInv /\ OrderInv /\ [Next]_vars => (TypeInv /\ OrderInv)'
  BY TypesKept, OrderKept
<1> QED BY <1>1, <1>2, <1>3, PTL DEF Spec

-----------------------------------------------------------------------------
(* What becomes of a fragment that reached the queue. *)

(* All of its message up to this fragment reached the queue. *)
Upto(f) == \A i \in 0..f.idx : Nth(f, i) \in queued

LEMMA FollowedIs == Followed <=> \A f \in queued : Upto(f) /\ ~Pending(f) => Kept(f) \/ Broken(f)
BY DEF Followed, Upto

LEMMA PlaceIs ==
  ASSUME NEW f \in Fragments, NEW i \in Nat, i < f.total
  PROVE  /\ i \in 0..MaxFrags - 1
         /\ Nth(f, i) \in Fragments
         /\ Nth(f, i).idx = i
         /\ Nth(f, i).msg = f.msg /\ Nth(f, i).peer = f.peer
         /\ Nth(f, i).seq = f.seq /\ Nth(f, i).total = f.total
<1>1. i \in 0..MaxFrags - 1
  BY FragmentIs, EspNowAssumption DEF EspNowAssumption
<1> QED BY <1>1, NthIs

LEMMA QueuedIs ==
  ASSUME TypeInv, OrderInv, NEW f \in queued
  PROVE  f \in Fragments /\ f.idx \in Nat /\ f.total \in Nat /\ f.msg \in Nat /\ f.idx < f.total
<1>1. f \in Fragments
  BY DEF TypeInv, TypeOK, QueueTypeOK
<1> QED BY <1>1, FragmentIs DEF OrderInv, Numbered, WellNumbered

LEMMA Siblings ==
  ASSUME TypeInv, OrderInv, NEW f \in queued, NEW g \in queued, f.msg = g.msg
  PROVE  g = Nth(f, g.idx) /\ f.total = g.total
<1>1. f \in Fragments /\ g \in Fragments
  BY QueuedIs
<1>2. f.peer = g.peer /\ f.total = g.total
  BY DEF OrderInv, Numbered
<1>3. f.seq = g.seq
  BY DEF OrderInv, Numbered, WellNumbered
<1> QED BY <1>1, <1>2, <1>3, SameMessage

LEMMA PendingIs ==
  ASSUME NEW f \in Fragments
  PROVE  Pending(f) <=> f = item \/ f \in InQueue
BY FragmentIs DEF Pending, InQueue

(* A step that leaves the buffer alone and puts nothing back. *)
LEMMA FollowedStep ==
  ASSUME TypeInv, OrderInv, Followed, UNCHANGED <<Lasts, Held, buf>>,
         \A f \in queued' \ queued : Pending(f)',
         \A f \in queued \cap queued' : Pending(f) => Pending(f)',
         \A f \in queued \cap queued' :
           \A i \in 0..f.idx : Nth(f, i) \in queued' => Nth(f, i) \in queued,
         \A x \in Fragments : Passed(x) => Passed(x)'
  PROVE  Followed'
<1> SUFFICES ASSUME NEW f \in queued', \A i \in 0..f.idx : Nth(f, i) \in queued', ~Pending(f)'
             PROVE  Kept(f)' \/ Broken(f)'
  BY DEF Followed
<1>1. f \in queued /\ Upto(f) /\ ~Pending(f)
  BY DEF Upto
<1>2. Kept(f) \/ Broken(f)
  BY <1>1, FollowedIs
<1>3. Kept(f) => Kept(f)'
  BY DEF Kept
<1>4. ASSUME Broken(f) PROVE Broken(f)'
  <2>1. PICK j \in f.idx + 1..f.total - 1 : Passed(Nth(f, j))
    BY <1>4 DEF Broken
  <2>2. j \in Nat /\ j < f.total
    BY <1>1, QueuedIs
  <2>3. Nth(f, j) \in Fragments
    BY <1>1, <2>2, QueuedIs, PlaceIs
  <2> DEFINE x == Nth(f, j)
  <2>4. Passed(x)'
    <3>1. \A y \in Fragments : Passed(y) => Passed(y)'
      OBVIOUS
    <3> QED BY <2>1, <2>3, <3>1
  <2> QED BY <2>1, <2>4 DEF Broken
<1> QED BY <1>2, <1>3, <1>4

LEMMA TransmitFollowed ==
  ASSUME OnePeer, TypeInv, OrderInv, Followed, NEW p \in Peers, Transmit(p)
  PROVE  Followed'
<1> DEFINE h == air[p]
<1>1. h \in Fragments /\ UNCHANGED taskVars
  BY DEF Transmit, TypeInv, TypeOK, RadioTypeOK
<1>2. UNCHANGED <<Lasts, Held, buf, item, complete>>
  BY <1>1 DEF taskVars, Lasts, Held
<1>3. \A f \in Arrived : Before(f, h)
  BY <1>1, ComingIs, FragmentIs DEF OrderInv
<1>4. \/ UNCHANGED <<rx_queue, queued>>
      \/ rx_queue' = Append(rx_queue, h) /\ queued' = queued \cup {h}
  BY <1>1, RecvIs, FragmentIs DEF Transmit, TypeInv, TypeOK
<1> HIDE DEF h
<1>5. CASE UNCHANGED <<rx_queue, queued>>
  BY <1>2, <1>5 DEF Followed, Pending, Kept, Broken, Passed, InQueue
<1>6. CASE rx_queue' = Append(rx_queue, h) /\ queued' = queued \cup {h}
  <2>1. InQueue' = InQueue \cup {h}
    BY <1>1, <1>6, QueueGrows, FragmentIs DEF TypeInv, TypeOK
  <2>2. \A f \in Fragments : Pending(f)' <=> f = item \/ f \in InQueue'
    BY <1>2, FragmentIs DEF Pending, InQueue
  <2>3. \A f \in queued : f \in Fragments /\ f \in Arrived
    BY QueuedIs DEF Arrived
  <2>4. \A f \in queued' \ queued : Pending(f)'
    BY <1>1, <1>6, <2>1, <2>2
  <2>5. \A f \in queued \cap queued' : Pending(f) => Pending(f)'
    BY <2>1, <2>2, <2>3, PendingIs
  <2>6. ASSUME NEW f \in queued \cap queued', NEW i \in 0..f.idx, Nth(f, i) \in queued'
        PROVE  Nth(f, i) \in queued
    <3>1. f \in Fragments /\ f.idx \in Nat /\ i \in Nat /\ i < f.total /\ Before(f, h)
      BY <1>3, <2>3, QueuedIs
    <3>2. Nth(f, i).msg = f.msg /\ Nth(f, i).idx = i
      BY <3>1, PlaceIs
    <3>3. Nth(f, i) # h
      BY <3>1, <3>2, FragmentIs DEF Before
    <3> QED BY <1>6, <2>6, <3>3
  <2>7. ASSUME NEW x \in Fragments, Passed(x) PROVE Passed(x)'
    <3>1. PICK g \in (queued \ InQueue) \cup Lasts : x \notin queued /\ Before(x, g)
      BY <2>7 DEF Passed
    <3>2. g \in Arrived /\ g \in Fragments /\ Before(g, h)
      BY <1>3, ArrivedIs DEF Arrived, OrderInv
    <3>3. x # h /\ g # h
      BY <1>1, <3>1, <3>2, BeforeStrict
    <3>4. x \notin queued' /\ g \in (queued' \ InQueue') \cup Lasts'
      BY <1>2, <1>6, <2>1, <3>1, <3>3
    <3> QED BY <3>1, <3>4 DEF Passed, Before
  <2> QED BY <1>2, <2>4, <2>5, <2>6, <2>7, FollowedStep
<1> QED BY <1>4, <1>5, <1>6

LEMMA QueueFollowed ==
  ASSUME TypeInv, OrderInv, Followed, Stray \/ Flush \/ Receive
  PROVE  Followed'
<1>1. UNCHANGED <<Lasts, Held, buf>>
  BY DEF Stray, Flush, Receive, taskVars, Lasts, Held
<1>2. queued' \subseteq queued /\ queued \subseteq queued' \cup InQueue
      /\ InQueue' \subseteq InQueue
  <2>1. CASE Stray
    <3>1. rx_queue' = Append(rx_queue, None) /\ queued' = queued
      BY <2>1, StrayIs DEF TypeInv, TypeOK
    <3> QED BY <3>1, QueueGrows DEF TypeInv, TypeOK
  <2>2. CASE Flush
    <3>1. queued' = queued \ InQueue /\ rx_queue' = <<>>
      BY <2>2, NoneAssumption DEF Flush, InQueue, TypeInv, TypeOK, QueueTypeOK
    <3> QED BY <3>1 DEF InQueue
  <2>3. CASE Receive
    <3>1. /\ \A k \in 1..Len(rx_queue') : k + 1 \in 1..Len(rx_queue)
                                         /\ rx_queue'[k] = rx_queue[k + 1]
          /\ queued' = queued
      BY <2>3 DEF Receive, TypeInv, TypeOK, QueueTypeOK
    <3> QED BY <3>1 DEF InQueue
  <2> QED BY <2>1, <2>2, <2>3
<1>3. \A f \in queued \cap queued' : Pending(f) => Pending(f)'
  <2> SUFFICES ASSUME NEW f \in queued \cap queued', Pending(f) PROVE Pending(f)'
    OBVIOUS
  <2>0. f \in Fragments /\ f # None
    BY QueuedIs, FragmentIs
  <2>1. CASE Stray
    <3>1. rx_queue' = Append(rx_queue, None) /\ item' = item
      BY <2>1, StrayIs DEF TypeInv, TypeOK, Stray, taskVars
    <3>2. \A k \in 1..Len(rx_queue) : rx_queue'[k] = rx_queue[k] /\ k \in 1..Len(rx_queue')
      BY <3>1 DEF TypeInv, TypeOK, QueueTypeOK
    <3> QED BY <3>1, <3>2 DEF Pending
  <2>2. CASE Flush
    <3>1. f \notin InQueue /\ item' = item
      BY <2>2 DEF Flush, InQueue, taskVars
    <3> QED BY <2>0, <3>1, PendingIs DEF Pending
  <2>3. CASE Receive
    <3>1. /\ f \in InQueue /\ rx_queue # <<>>
          /\ item' = Head(rx_queue) /\ rx_queue' = Tail(rx_queue)
      BY <2>0, <2>3, PendingIs DEF Receive
    <3>2. PICK k \in 1..Len(rx_queue) : rx_queue[k] = f
      BY <3>1 DEF InQueue
    <3>3. CASE k = 1
      BY <3>1, <3>2, <3>3 DEF Pending, TypeInv, TypeOK, QueueTypeOK
    <3>4. CASE k # 1
      <4>1. k - 1 \in 1..Len(rx_queue') /\ rx_queue'[k - 1] = f
        BY <3>1, <3>2, <3>4 DEF TypeInv, TypeOK, QueueTypeOK
      <4> QED BY <4>1 DEF Pending
    <3> QED BY <3>3, <3>4
  <2> QED BY <2>1, <2>2, <2>3
<1>4. ASSUME NEW x \in Fragments, Passed(x) PROVE Passed(x)'
  <2>1. PICK g \in (queued \ InQueue) \cup Lasts : x \notin queued /\ Before(x, g)
    BY <1>4 DEF Passed
  <2>2. x \notin queued' /\ g \in (queued' \ InQueue') \cup Lasts'
    BY <1>1, <1>2, <2>1
  <2> QED BY <2>1, <2>2 DEF Passed, Before
<1>5. \A f \in queued' \ queued : Pending(f)'
  BY <1>2
<1>6. \A f \in queued \cap queued' :
        \A i \in 0..f.idx : Nth(f, i) \in queued' => Nth(f, i) \in queued
  BY <1>2
<1> QED BY <1>1, <1>3, <1>4, <1>5, <1>6, FollowedStep

(* The fragment in hand finds those before it in the buffer, or one after  *)
(* it is known to be missing.                                              *)
Found(x) == x.idx <= Held /\ \A i \in 0..x.idx - 1 : buf[i + 1] = Nth(x, i)

LEMMA ItemFollows ==
  ASSUME TypeInv, OrderInv, Followed, item # None, Upto(item)
  PROVE  item.idx = 0 \/ Found(item) \/ Broken(item)
<1> SUFFICES ASSUME item.idx # 0 PROVE Found(item) \/ Broken(item)
  OBVIOUS
<1> DEFINE x == item
           m == x.idx - 1
           y == Nth(x, m)
<1>1. x \in queued
  BY DEF OrderInv, Members
<1>2. x \in Fragments /\ x.idx \in Nat /\ x.total \in Nat /\ x.msg \in Nat /\ x.idx < x.total
  BY <1>1, QueuedIs
<1>3. m \in Nat /\ m < x.total /\ m \in 0..x.idx /\ m + 1 = x.idx
  BY <1>2
<1>4. y \in Fragments /\ y.idx = m /\ y.msg = x.msg /\ y.total = x.total
  BY <1>2, <1>3, PlaceIs
<1>5. y \in queued
  BY <1>3 DEF Upto
<1>6. \A i : Nth(y, i) = Nth(x, i)
  BY <1>2, NthNth
<1> HIDE DEF x, y, m
<1>7. ~Pending(y)
  <2>1. y # x
    BY <1>3, <1>4
  <2>2. y \notin InQueue
    <3>1. y \in InQueue => Before(x, y)
      BY DEF OrderInv, Queue, x
    <3> QED BY <1>2, <1>3, <1>4, <3>1 DEF Before
  <2> QED BY <1>4, <2>1, <2>2, PendingIs DEF x
<1>8. Upto(y)
  <2>1. \A i \in 0..m : i \in 0..x.idx
    BY <1>2, <1>3
  <2> QED BY <1>4, <1>6, <2>1 DEF Upto, x
<1>9. CASE Kept(y)
  <2>1. x.idx <= Held /\ \A i \in 0..m : buf[i + 1] = Nth(x, i)
    BY <1>3, <1>4, <1>6, <1>9 DEF Kept
  <2>2. m = x.idx - 1
    BY DEF m
  <2> QED BY <2>1, <2>2 DEF Found, x
<1>10. CASE Broken(y)
  <2>1. PICK j \in m + 1..x.total - 1 : Passed(Nth(x, j))
    BY <1>4, <1>6, <1>10 DEF Broken
  <2>2. j # x.idx
    <3>1. Nth(x, x.idx) = x
      BY <1>2, NthSame
    <3> QED BY <1>1, <2>1, <3>1 DEF Passed
  <2>3. j \in x.idx + 1..x.total - 1
    BY <1>2, <1>3, <2>1, <2>2
  <2> QED BY <2>1, <2>3 DEF Broken, x
<1> QED BY <1>5, <1>7, <1>8, <1>9, <1>10, FollowedIs

(* Such a fragment continues the assembly. *)
LEMMA FoundIs ==
  ASSUME TypeInv, OrderInv, item # None, ~complete, item.idx # 0, Found(item)
  PROVE  Belongs /\ item.idx = reassembly.received /\ Held = item.idx
<1>0. item \in queued
  BY DEF OrderInv, Members
<1>1. /\ item \in Fragments /\ item.idx \in Nat /\ item.idx > 0 /\ item.msg \in Nat
      /\ item.idx < item.total
  BY <1>0, QueuedIs
<1>2. Held = reassembly.received /\ Held \in Nat /\ item.idx <= Held
  <2>1. reassembly.received \in Nat
    BY EspNowAssumption DEF TypeInv, TypeOK, TaskTypeOK, EspNowAssumption
  <2>2. Held = reassembly.received
    BY DEF Held
  <2>3. item.idx <= Held
    BY DEF Found
  <2> QED BY <2>1, <2>2, <2>3
<1>3. \A i \in 0..item.idx - 1 : i + 1 \in 1..Held /\ i \in Nat /\ i < item.total
  <2> DEFINE d == item.idx  n == Held
  <2>1. d \in Nat /\ n \in Nat /\ d <= n /\ item.total \in Int /\ d < item.total
    BY <1>0, <1>1, <1>2, QueuedIs
  <2> HIDE DEF d, n
  <2>2. \A i \in 0..d - 1 : i + 1 \in 1..n /\ i \in Nat /\ i < item.total
    BY <2>1
  <2> QED BY <2>2 DEF d, n
<1>4. \A i \in 0..item.idx - 1 : buf[i + 1] = Nth(item, i) /\ buf[i + 1].msg = item.msg
                                 /\ buf[i + 1].seq = item.seq
  <2> TAKE i \in 0..item.idx - 1
  <2>1. buf[i + 1] = Nth(item, i)
    BY DEF Found
  <2>2. i \in Nat /\ i < item.total
    BY <1>3
  <2>3. Nth(item, i).msg = item.msg /\ Nth(item, i).seq = item.seq
    BY <1>1, <2>2, PlaceIs
  <2> QED BY <2>1, <2>3
<1>5. Belongs
  <2>1. 0 \in 0..item.idx - 1 /\ 0 + 1 = 1 /\ 1 \in 1..reassembly.received
    BY <1>1, <1>2
  <2>2. buf[1].seq = item.seq
    BY <1>4, <2>1
  <2>3. buf[1].seq = reassembly.msg_seq
    BY <2>1 DEF OrderInv, Assembly
  <2>4. reassembly.active
    BY <2>1 DEF TypeInv, Assembling
  <2> QED BY <2>2, <2>3, <2>4 DEF Belongs
<1>6. Held = item.idx
  <2> SUFFICES ASSUME item.idx < Held PROVE FALSE
    BY <1>1, <1>2
  <2> DEFINE k == item.idx  z == buf[k + 1]
  <2>1. k + 1 \in 1..Held /\ k \in 1..Held /\ k < k + 1 /\ k - 1 \in 0..k - 1 /\ (k - 1) + 1 = k
        /\ (k + 1) - 1 = k
    BY <1>1, <1>2
  <2>2. z \in Assembled
    BY <2>1 DEF Assembled
  <2>3. Before(z, item) /\ z \in Fragments /\ z.msg \in Nat
    BY <2>2, ArrivedIs, FragmentIs DEF OrderInv, Queue
  <2>4. z.idx = k
    BY <2>1 DEF OrderInv, Assembly
  <2>5. buf[k].msg = item.msg
    BY <1>4, <2>1
  <2>6. buf[k].msg <= z.msg
    BY <2>1 DEF OrderInv, Assembly
  <2> QED BY <1>1, <2>3, <2>4, <2>5, <2>6 DEF Before
<1> QED BY <1>2, <1>5, <1>6

(* What the buffer holds of an unfinished message is not all of it. *)
LEMMA KeptIs ==
  ASSUME TypeInv, OrderInv, NEW f \in queued, Kept(f)
  PROVE  /\ f \in Assembled
         /\ Held = buf[1].total => Held = f.total
         /\ ~complete => Held < f.total
<1>1. f \in Fragments /\ f.idx \in Nat /\ f.total \in Nat /\ f.idx < f.total
  BY QueuedIs
<1>2. f.idx \in 0..f.idx /\ 0 \in 0..f.idx /\ 0 + 1 = 1 /\ 0 \in Nat /\ 0 < f.total
  BY <1>1
<1>3. buf[f.idx + 1] = f
  BY <1>1, <1>2, NthSame DEF Kept
<1>4. Held \in Nat /\ f.idx + 1 <= Held
  BY DEF Kept, Held, TypeInv, TypeOK, TaskTypeOK
<1>5. f \in Assembled
  <2>1. f.idx + 1 \in 1..Held
    BY <1>1, <1>4
  <2> QED BY <1>3, <2>1 DEF Assembled
<1>6. buf[1].total = f.total
  BY <1>1, <1>2, PlaceIs DEF Kept
<1>7. ~complete => Held < f.total
  <2> SUFFICES ASSUME ~complete PROVE Held < f.total
    OBVIOUS
  <2>1. Held = reassembly.received /\ Held # 0
    BY <1>1, <1>4 DEF Held
  <2>2. reassembly.active /\ reassembly.received \in 1..reassembly.expected - 1
    BY <2>1 DEF TypeInv, Assembling
  <2>3. reassembly.expected = f.total
    BY <1>6, <2>2 DEF OrderInv, Assembly
  <2> QED BY <1>1, <2>1, <2>2, <2>3
<1> QED BY <1>5, <1>6, <1>7

(* A fragment that does not continue the assembly comes after one that is  *)
(* missing there.                                                          *)
LEMMA LeftBehind ==
  ASSUME TypeInv, OrderInv, Followed, item # None, ~complete,
         ~(item.idx # 0 /\ Belongs /\ item.idx = reassembly.received),
         NEW f \in queued, Upto(f), Kept(f)
  PROVE  Broken(f)
<1> DEFINE x == item
<1>1. x \in queued /\ x \notin InQueue
  BY TakenIs DEF OrderInv, Members
<1>2. /\ x \in Fragments /\ x.idx \in Nat /\ x.total \in Nat /\ x.msg \in Nat /\ x.idx < x.total
      /\ f \in Fragments /\ f.idx \in Nat /\ f.total \in Nat /\ f.msg \in Nat /\ f.idx < f.total
  BY <1>1, QueuedIs
<1>3. Before(f, x)
  BY KeptIs DEF OrderInv, Queue
<1>4. Held < f.total /\ Held \in Nat
  BY KeptIs, EspNowAssumption DEF Held, TypeInv, TypeOK, TaskTypeOK, EspNowAssumption
<1>5. ~(x.idx # 0 /\ Found(x))
  BY FoundIs
<1> HIDE DEF x
<1>6. ASSUME NEW j \in Nat, j < f.total, Nth(f, j) \notin queued, Before(Nth(f, j), x)
      PROVE  Broken(f)
  <2>1. Passed(Nth(f, j))
    BY <1>1, <1>6 DEF Passed
  <2>2. j > f.idx
    BY <1>2, <1>6 DEF Upto
  <2>3. j \in f.idx + 1..f.total - 1
    BY <1>2, <1>6, <2>2
  <2> QED BY <2>1, <2>3 DEF Broken
<1>7. CASE x.msg = f.msg
  <2>1. x = Nth(f, x.idx) /\ f.total = x.total
    BY <1>1, <1>7, Siblings
  <2>2. f.idx < x.idx
    BY <1>2, <1>3, <1>7 DEF Before
  <2>3. \A i : Nth(x, i) = Nth(f, i)
    BY <1>2, <2>1, NthNth
  <2>4. CASE Upto(x)
    <3>1. Broken(x)
      BY <1>2, <1>5, <2>2, <2>4, ItemFollows DEF x
    <3>2. PICK j \in x.idx + 1..x.total - 1 : Passed(Nth(f, j))
      BY <2>3, <3>1 DEF Broken
    <3>3. j \in f.idx + 1..f.total - 1
      BY <1>2, <2>1, <2>2, <3>2
    <3> QED BY <3>2, <3>3 DEF Broken
  <2>5. CASE ~Upto(x)
    <3>1. PICK j \in 0..x.idx : Nth(f, j) \notin queued
      BY <2>3, <2>5 DEF Upto
    <3>2. j # x.idx /\ j \in Nat /\ j < x.idx /\ j < f.total
      BY <1>1, <1>2, <2>1, <3>1
    <3>3. Nth(f, j).msg = f.msg /\ Nth(f, j).idx = j
      BY <1>2, <3>2, PlaceIs
    <3>4. Before(Nth(f, j), x)
      BY <1>7, <3>2, <3>3 DEF Before
    <3> QED BY <1>6, <3>1, <3>2, <3>4
  <2> QED BY <2>4, <2>5
<1>8. CASE x.msg # f.msg
  <2>0. f.msg < x.msg
    BY <1>2, <1>3, <1>8 DEF Before
  <2> DEFINE last == f.total - 1
             l == Nth(f, last)
  <2>1. last \in Nat /\ last < f.total /\ last + 1 = f.total
    BY <1>2
  <2>2. l \in Fragments /\ l.idx = last /\ l.msg = f.msg /\ l.total = f.total
    BY <1>2, <2>1, PlaceIs
  <2>3. \A i : Nth(l, i) = Nth(f, i)
    BY <1>2, NthNth
  <2> HIDE DEF l
  <2>4. CASE Upto(l)
    <3>1. l \in queued
      <4>1. last \in 0..last
        BY <2>1
      <4>2. Nth(l, last) = l
        BY <2>2, NthSame
      <4> QED BY <2>2, <2>4, <4>1, <4>2 DEF Upto
    <3>2. ~Pending(l)
      <4>1. l # x
        BY <1>8, <2>2
      <4>2. l \in InQueue => Before(x, l)
        <5>1. \A g \in InQueue : Before(x, g)
          BY DEF OrderInv, Queue, x
        <5> QED BY <5>1
      <4>3. ~Before(x, l)
        BY <1>2, <2>0, <2>2 DEF Before
      <4> QED BY <2>2, <4>1, <4>2, <4>3, PendingIs DEF x
    <3>3. ~Kept(l)
      BY <1>2, <1>4, <2>1, <2>2 DEF Kept
    <3>4. ~Broken(l)
      BY <1>2, <2>1, <2>2 DEF Broken
    <3> QED BY <2>4, <3>1, <3>2, <3>3, <3>4, FollowedIs
  <2>5. CASE ~Upto(l)
    <3>1. PICK j \in 0..last : Nth(f, j) \notin queued
      BY <2>2, <2>3, <2>5 DEF Upto
    <3>2. j \in Nat /\ j < f.total
      BY <2>1
    <3>3. Nth(f, j).msg = f.msg
      BY <1>2, <3>2, PlaceIs
    <3>4. Before(Nth(f, j), x)
      BY <2>0, <3>3 DEF Before
    <3> QED BY <1>6, <3>1, <3>2, <3>4
  <2> QED BY <2>4, <2>5
<1> QED BY <1>7, <1>8

(* A step of the task that leaves the queue and what was handed on alone:  *)
(* a fragment before the one in hand stays or is left behind.              *)
LEMMA TaskFollowed ==
  ASSUME TypeInv, OrderInv, Followed, item # None, ~complete,
         UNCHANGED <<rx_queue, queued, delivered>>,
         \A f \in queued : f = item /\ Upto(f) /\ ~Pending(f)' => Kept(f)' \/ Broken(f),
         \A f \in queued : Upto(f) /\ Kept(f) => Kept(f)' \/ Broken(f)
  PROVE  Followed'
<1> SUFFICES ASSUME NEW f \in queued, Upto(f), ~Pending(f)'
             PROVE  Kept(f)' \/ Broken(f)
  <2>1. \A x : Passed(x)' <=> Passed(x)
    BY DEF Passed, InQueue, Lasts, Before
  <2>2. ASSUME NEW f \in queued, Broken(f) PROVE Broken(f)'
    BY <2>1, <2>2 DEF Broken
  <2>3. ASSUME NEW f \in queued', \A i \in 0..f.idx : Nth(f, i) \in queued', ~Pending(f)'
        PROVE  Kept(f)' \/ Broken(f)'
    <3>1. f \in queued /\ Upto(f)
      BY <2>3 DEF Upto
    <3> QED BY <2>2, <2>3, <3>1
  <2> QED BY <2>3 DEF Followed
<1>1. CASE f = item
  BY <1>1
<1>2. CASE f # item
  <2>1. ~Pending(f)
    BY <1>2 DEF Pending
  <2> QED BY <2>1, FollowedIs
<1> QED BY <1>1, <1>2

LEMMA AssembleFollowed ==
  ASSUME TypeInv, OrderInv, Followed, Restart \/ Continue \/ DropOrphan \/ DropOutOfOrder
  PROVE  Followed'
<1>1. item # None /\ ~complete /\ UNCHANGED <<rx_queue, queued, delivered>>
  BY DEF Restart, Continue, DropOrphan, DropOutOfOrder, AppendFragment, DropFragment
<1>2. item \in queued /\ item \in Fragments /\ item.idx \in Nat
  BY <1>1, QueuedIs DEF OrderInv, Members
<1>3. Held = reassembly.received /\ Held \in Nat
  <2>1. reassembly.received \in Nat
    BY EspNowAssumption DEF TypeInv, TypeOK, TaskTypeOK, EspNowAssumption
  <2> QED BY <1>1, <2>1 DEF Held
<1>4. \A f \in queued : f.idx \in Nat /\ f \in Fragments
  BY QueuedIs
<1>5. CASE Restart
  <2>1. item.idx = 0 /\ Held' = 1 /\ buf'[1] = item
    BY <1>5, RestartOrder DEF Restart
  <2>2. ASSUME NEW f \in queued, f = item PROVE Kept(f)'
    <3>1. f.idx = 0 /\ f = buf'[1] /\ Nth(f, 0) = f
      BY <1>2, <2>1, <2>2, NthSame
    <3>2. \A i \in 0..f.idx : i = 0 /\ i + 1 = 1
      BY <3>1
    <3>3. \A i \in 0..f.idx : buf'[i + 1] = Nth(f, i)
      BY <3>1, <3>2
    <3>4. f.idx + 1 <= Held'
      BY <2>1, <3>1
    <3> QED BY <3>3, <3>4 DEF Kept, Nth
  <2>3. \A f \in queued : Upto(f) /\ Kept(f) => Broken(f)
    BY <1>1, <2>1, LeftBehind
  <2> QED BY <1>1, <2>2, <2>3, TaskFollowed
<1>6. CASE Continue
  <2>1. /\ Held' = Held + 1 /\ item.idx = Held /\ Held > 0
        /\ buf'[Held + 1] = item /\ \A i \in 1..Held : buf'[i] = buf[i]
    BY <1>6, ContinueOrder
  <2>2. ASSUME NEW f \in queued, f = item, Upto(f) PROVE Kept(f)' \/ Broken(f)
    <3>1. Found(f) \/ Broken(f)
      BY <1>1, <1>3, <2>1, <2>2, ItemFollows
    <3>2. CASE Found(f)
      <4>1. f.idx = Held /\ f \in Fragments /\ Nth(f, Held) = f /\ buf'[Held + 1] = f
        BY <1>2, <2>1, <2>2, NthSame
      <4>2. ASSUME NEW i \in 0..Held PROVE buf'[i + 1] = Nth(f, i)
        <5>1. CASE i = Held
          BY <4>1, <5>1
        <5>2. CASE i # Held
          <6>1. i + 1 \in 1..Held /\ i \in 0..Held - 1
            BY <1>3, <5>2
          <6>2. buf[i + 1] = Nth(f, i)
            BY <3>2, <4>1, <6>1 DEF Found
          <6> QED BY <2>1, <6>1, <6>2
        <5> QED BY <5>1, <5>2
      <4>3. f.idx + 1 <= Held' /\ \A i \in 0..f.idx : buf'[i + 1] = Nth(f, i)
        BY <1>3, <2>1, <4>1, <4>2
      <4> QED BY <4>3 DEF Kept, Nth
    <3> QED BY <3>1, <3>2
  <2>3. ASSUME NEW f \in queued, Kept(f) PROVE Kept(f)'
    <3>1. f.idx + 1 <= Held /\ f.idx \in Nat
      BY <1>4, <2>3 DEF Kept
    <3>2. \A i \in 0..f.idx : i + 1 \in 1..Held
      BY <1>3, <3>1
    <3>3. \A i \in 0..f.idx : buf'[i + 1] = Nth(f, i)
      BY <2>1, <2>3, <3>2 DEF Kept
    <3>4. f.idx + 1 <= Held'
      BY <1>3, <2>1, <3>1
    <3> QED BY <3>3, <3>4 DEF Kept, Nth
  <2> QED BY <1>1, <2>2, <2>3, TaskFollowed
<1>7. CASE DropOrphan \/ DropOutOfOrder
  <2>1. item.idx # 0 /\ ~(Belongs /\ item.idx = reassembly.received)
    BY <1>7 DEF DropOrphan, DropOutOfOrder
  <2>2. \A f \in queued : f = item /\ Upto(f) => Broken(f)
    BY <1>1, <2>1, ItemFollows, FoundIs
  <2>3. \A f \in queued : Upto(f) /\ Kept(f) => Broken(f)
    BY <1>1, <2>1, LeftBehind
  <2> QED BY <1>1, <2>2, <2>3, TaskFollowed
<1> QED BY <1>5, <1>6, <1>7

LEMMA DeliverFollowed ==
  ASSUME TypeInv, OrderInv, Followed, Deliver
  PROVE  Followed'
<1>1. complete /\ item' = None /\ UNCHANGED <<rx_queue, buf>>
  BY DEF Deliver
<1>2. /\ Lasts' = Lasts \cup {item} /\ queued' = queued \ Assembled
  BY DeliverOrder
<1>3. /\ Held = Len(buf) /\ Held \in Nat \ {0} /\ item = buf[Held] /\ item \in Fragments
  BY <1>1, CompleteIs DEF LastOf
<1>4. item \in Assembled /\ InQueue' = InQueue
  BY <1>1, <1>3 DEF Assembled, InQueue
<1>5. ASSUME NEW g \in Assembled PROVE g = item \/ Before(g, item)
  <2>1. PICK i \in 1..Held : g = buf[i]
    BY <1>5 DEF Assembled
  <2>2. i < Held => g.msg <= item.msg /\ g.idx = i - 1 /\ item.idx = Held - 1
    BY <1>3, <2>1 DEF OrderInv, Assembly
  <2>3. g \in Fragments /\ g.msg \in Nat /\ item.msg \in Nat
    BY <1>3, <1>5, ArrivedIs, FragmentIs DEF OrderInv
  <2> QED BY <1>3, <2>1, <2>2, <2>3 DEF Before
<1>6. ASSUME NEW x \in Fragments, Passed(x) PROVE Passed(x)'
  <2>1. PICK g \in (queued \ InQueue) \cup Lasts : x \notin queued /\ Before(x, g)
    BY <1>6 DEF Passed
  <2>2. CASE g \in Assembled
    <3>1. Before(x, item)
      <4>1. g \in Fragments
        BY <2>2, ArrivedIs DEF OrderInv
      <4> QED BY <1>3, <1>5, <2>1, <2>2, <4>1, BeforeTrans
    <3>2. \E h \in Lasts' : Before(x, h)
      BY <1>2, <3>1
    <3>3. x \notin queued'
      BY <1>2, <2>1
    <3> QED BY <3>2, <3>3 DEF Passed, Before
  <2>3. CASE g \notin Assembled
    <3>1. x \notin queued' /\ g \in (queued' \ InQueue') \cup Lasts'
      BY <1>2, <1>4, <2>1, <2>3
    <3> QED BY <2>1, <3>1 DEF Passed, Before
  <2> QED BY <2>2, <2>3
<1> SUFFICES ASSUME NEW f \in queued', \A i \in 0..f.idx : Nth(f, i) \in queued', ~Pending(f)'
             PROVE  Broken(f)'
  BY DEF Followed
<1>7. f \in queued /\ f \notin Assembled /\ Upto(f)
  BY <1>2 DEF Upto
<1>8. ~Pending(f)
  BY <1>1, <1>4, <1>7 DEF Pending
<1>9. Broken(f)
  BY <1>7, <1>8, KeptIs, FollowedIs
<1>10. PICK j \in f.idx + 1..f.total - 1 : Passed(Nth(f, j))
  BY <1>9 DEF Broken
<1>11. Nth(f, j) \in Fragments
  <2>1. f \in Fragments /\ f.idx \in Nat /\ f.total \in Nat /\ f.idx < f.total
    BY <1>7, QueuedIs
  <2>2. j \in Nat /\ j < f.total
    BY <2>1
  <2> QED BY <2>1, <2>2, PlaceIs
<1> DEFINE x == Nth(f, j)
<1>12. Passed(x)'
  <2>1. \A y \in Fragments : Passed(y) => Passed(y)'
    BY <1>6
  <2> QED BY <1>10, <1>11, <2>1
<1> QED BY <1>10, <1>12 DEF Broken

LEMMA FollowedKept == OnePeer /\ TypeInv /\ OrderInv /\ Followed /\ [Next]_vars => Followed'
<1> SUFFICES ASSUME OnePeer, TypeInv, OrderInv, Followed, [Next]_vars PROVE Followed'
  OBVIOUS
<1>1. ASSUME UNCHANGED <<rx_queue, queued, taskVars>> PROVE Followed'
  <2>1. UNCHANGED <<rx_queue, queued, item, reassembly, buf, complete, delivered>>
    BY <1>1 DEF taskVars
  <2> QED BY <2>1 DEF Followed, Pending, Kept, Held, Broken, Passed, InQueue, Lasts, Before, Nth
<1>2. ASSUME NEW p \in Peers, SenderStep(p) PROVE Followed'
  BY <1>1, <1>2, SenderFrame
<1>3. ASSUME NEW p \in Peers, RadioStep(p) PROVE Followed'
  <2>1. CASE SendCbGive(p)
    BY <1>1, <2>1 DEF SendCbGive
  <2> QED BY <1>3, <2>1, TransmitFollowed DEF RadioStep
<1>4. CASE RxTask
  BY <1>4, QueueFollowed, AssembleFollowed, DeliverFollowed DEF RxTask
<1>5. CASE UNCHANGED vars
  BY <1>1, <1>5 DEF vars
<1> QED BY <1>2, <1>3, <1>4, <1>5, QueueFollowed, NextCases

(* No fragment of a message that reached the queue whole is taken without  *)
(* the message being handed on.                                            *)
LEMMA NoneLost == TypeInv /\ OrderInv /\ Followed => QueuedDelivered
<1> SUFFICES ASSUME TypeInv, OrderInv, Followed, NEW f \in queued,
                    \A i \in 0..f.total - 1 : Nth(f, i) \in queued
             PROVE  \E i \in 0..f.total - 1 : Pending(Nth(f, i))
  BY DEF QueuedDelivered, Nth
<1> DEFINE last == f.total - 1
           l == Nth(f, last)
<1>1. f \in Fragments /\ f.total \in Nat /\ f.idx \in Nat /\ f.idx < f.total
  BY QueuedIs
<1>2. last \in Nat /\ last < f.total /\ last + 1 = f.total /\ last \in 0..f.total - 1
  BY <1>1
<1>3. l \in Fragments /\ l.idx = last /\ l.total = f.total /\ \A i : Nth(l, i) = Nth(f, i)
  BY <1>1, <1>2, PlaceIs, NthNth
<1>4. l \in queued
  BY <1>2
<1> HIDE DEF l
<1>5. Upto(l)
  BY <1>3 DEF Upto
<1>6. SUFFICES ASSUME ~Pending(l) PROVE FALSE
  BY <1>2 DEF l
<1>7. ~Broken(l)
  BY <1>1, <1>2, <1>3 DEF Broken
<1>8. Kept(l)
  BY <1>4, <1>5, <1>6, <1>7, FollowedIs
<1>9. f.total <= Held /\ buf[f.total] = l
  <2>1. last \in 0..last
    BY <1>2
  <2>2. Nth(l, last) = l
    BY <1>3, NthSame
  <2> QED BY <1>2, <1>3, <1>8, <2>1, <2>2 DEF Kept
<1>10. complete
  <2>1. complete \in BOOLEAN /\ Held \in Int
    BY EspNowAssumption DEF TypeInv, TypeOK, TaskTypeOK, Held, EspNowAssumption
  <2>2. ~complete => Held < f.total
    BY <1>3, <1>4, <1>8, KeptIs
  <2> QED BY <1>1, <1>9, <2>1, <2>2
<1>11. Held = f.total
  BY <1>3, <1>4, <1>8, <1>10, KeptIs, CompleteIs DEF OrderInv, Assembly
<1>12. item = l
  BY <1>9, <1>10, <1>11, CompleteIs DEF LastOf
<1> QED BY <1>6, <1>12 DEF Pending

(* From one peer, a message all of whose fragments reached rx_queue_ is    *)
(* handed on, whatever became of the messages before and after it.         *)
THEOREM QueuedHandedOn ==
  ASSUME OnePeer
  PROVE  Spec => []QueuedDelivered
<1>1. Init => Followed
  BY DEF Init, Followed
<1>2. Init => TypeInv /\ OrderInv /\ Followed
  BY <1>1, TypesInit, OrderInit
<1>3. TypeInv /\ OrderInv /\ Followed /\ [Next]_vars => (TypeInv /\ OrderInv /\ Followed)'
  BY TypesKept, OrderKept, FollowedKept
<1> QED BY <1>2, <1>3, NoneLost, PTL DEF Spec
=============================================================================
