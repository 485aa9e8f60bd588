---------------------------- MODULE UdpTransport ----------------------------
(***************************************************************************)
(* UDPTransport with the tasks that send by it and change where it sends:  *)
(* remote_addr_, the peer table peers_ and net_mutex_, which init() makes  *)
(* and deinit() deletes, over the life of the transport that RxTask        *)
(* models.  An address is two words, the IP and the port.                  *)
(*                                                                         *)
(* What is done under net_mutex_ is one step, but for remote_addr_, which  *)
(* init() sets without it.                                                 *)
(***************************************************************************)
EXTENDS RxTask

CONSTANTS
  Users,       \* tasks of the application, besides the one that starts and stops
  Nodes,       \* node_id of the peers
  Endpoints,   \* pairs of an IP and a port that the application names
  Default,     \* hw_cfg_.remote_ip and hw_cfg_.remote_port
  MaxPeers,    \* UDP_MAX_PEERS
  MaxShared,   \* bound: RX tasks created when there are other tasks
  None

ASSUME UdpAssumption ==
  /\ Default \in Endpoints
  /\ MaxPeers \in Nat
  /\ MaxShared \in Nat
  /\ None \notin Nodes \cup Endpoints
  /\ {"free", "gone"} \cap Users = {}

VARIABLES
  users,        \* the application has these tasks
  remote_addr,  \* remote_addr_
  peers,        \* peers_
  net_mutex,    \* net_mutex_: "gone", "free" or the task that holds it
  upc,          \* upc[u]: where the task u is in its call
  arg,          \* arg[u]: what it was called with
  dest,         \* dest[u]: its copy of an address
  late          \* history: deinit() has come under a call

callVars == <<upc, arg, dest>>
addressVars == <<users, remote_addr, peers, net_mutex, callVars, late>>

Address(ip, port) == [ip |-> ip, port |-> port]
Whole(a) == a.ip = a.port
NoAddress == Address(None, None)
NoPeer == [used |-> FALSE, node_id |-> None, addr |-> NoAddress]
Slots == 1..MaxPeers

UdpInit ==
  /\ Init
  /\ users \in {{}, Users}
  /\ users # {} => transport = "udp"
  /\ remote_addr = NoAddress
  /\ peers = [i \in Slots |-> NoPeer]
  /\ net_mutex = "gone"
  /\ upc = [u \in Users |-> "idle"]
  /\ arg = [u \in Users |-> None]
  /\ dest = [u \in Users |-> NoAddress]
  /\ late = FALSE

-----------------------------------------------------------------------------
(* The life of the transport *)

(* init() makes net_mutex_ first of all, ... *)
MakeMutex ==
  /\ InitBegin
  /\ net_mutex' = "free"
  /\ UNCHANGED <<users, remote_addr, peers, callVars, late>>

(* ... and, last, remote_addr_ is what hw_cfg_ says; what was set before   *)
(* is forgotten, and the peers are not.                                    *)
SetDefault ==
  /\ InitDone
  /\ remote_addr' = Address(Default, Default)
  /\ UNCHANGED <<users, peers, net_mutex, callVars, late>>

Calling(u) == upc[u] \notin {"idle", "fault"}

(* net_mutex_ is deleted, whoever holds it or is about to take it. *)
DeleteMutex ==
  /\ InitFailed \/ Deinit
  /\ net_mutex' = "gone"
  /\ late' = (late \/ \E u \in Users : Calling(u))
  /\ UNCHANGED <<users, remote_addr, peers, callVars>>

(* start(); with other tasks up to MaxShared times. *)
Restart ==
  /\ StartCreate
  /\ users = {} \/ starts < MaxShared
  /\ UNCHANGED addressVars

(* The rest does not touch the addresses. *)
RxStep ==
  /\ \/ BindSocket \/ RegisterCallbacks \/ StartDone
     \/ StopBegin \/ StopTaken \/ StopTimeout \/ StopDelete \/ DeinitDone
     \/ Arrive \/ \E t \in Tasks : TaskStep(t)
  /\ UNCHANGED addressVars

-----------------------------------------------------------------------------
(* The other tasks.  write() and its like test state_ themselves; a task   *)
(* does not change the addresses before init() has returned, or once       *)
(* deinit() has.                                                           *)

May(u) == u \in users /\ upc[u] = "idle"
Ready == state # "UNINITIALIZED" /\ lpc # "deinit"

UserGo(u, label) == upc' = [upc EXCEPT ![u] = label]

(* xSemaphoreTake() and xSemaphoreGive(): a null handle, or a mutex that   *)
(* another task holds, ends in an assertion.                               *)
Take(u, label) ==
  \/ net_mutex = "free" /\ net_mutex' = u /\ UserGo(u, label)
  \/ net_mutex = "gone" /\ net_mutex' = "gone" /\ UserGo(u, "fault")

Give(u, label) ==
  IF net_mutex \in {u, "free"} THEN net_mutex' = "free" /\ UserGo(u, label)
  ELSE net_mutex' = net_mutex /\ UserGo(u, "fault")

(* set_remote_endpoint(), add_peer() and remove_peer() when deinit() is    *)
(* about to return: the mutex is gone, and state_ does not say so.         *)
CallInDeinit(u) ==
  /\ May(u) /\ lpc = "deinit"
  /\ UserGo(u, "fault")
  /\ late' = TRUE
  /\ UNCHANGED <<vars, users, remote_addr, peers, net_mutex, arg, dest>>

(* set_remote_endpoint(): the IP, ... *)
SetRemoteIp(u, e) ==
  /\ May(u) /\ Ready
  /\ Take(u, "set")
  /\ remote_addr' = [remote_addr EXCEPT !.ip = e]
  /\ arg' = [arg EXCEPT ![u] = e]
  /\ UNCHANGED <<vars, users, peers, dest, late>>

(* ... and the port. *)
SetRemotePort(u) ==
  /\ upc[u] = "set"
  /\ remote_addr' = [remote_addr EXCEPT !.port = arg[u]]
  /\ arg' = [arg EXCEPT ![u] = None]
  /\ Give(u, "idle")
  /\ UNCHANGED <<vars, users, peers, dest, late>>

Named(n) == {i \in Slots : peers[i].used /\ peers[i].node_id = n}
Unused == {i \in Slots : ~peers[i].used}
IsFirstOf(i, S) == i \in S /\ \A j \in S : i <= j

(* Mutant: one search for both, which ends at the first slot not in use. *)
AddPeer_OneSearch(u, n, e) ==
  /\ May(u) /\ Ready
  /\ net_mutex = "free"
  /\ \E i \in Slots :
       /\ IsFirstOf(i, Named(n) \cup Unused)
       /\ i \in Unused
       /\ peers' = [peers EXCEPT ![i] =
                      [used |-> TRUE, node_id |-> n, addr |-> Address(e, e)]]
  /\ UNCHANGED <<vars, users, remote_addr, net_mutex, callVars, late>>

(* add_peer(): the first slot not in use, if no slot has the node; else,   *)
(* and when the table is full, nothing.                                    *)
AddPeer(u, n, e) ==
  /\ May(u) /\ Ready
  /\ net_mutex = "free"
  /\ Named(n) = {}
  /\ \E i \in Slots :
       /\ IsFirstOf(i, Unused)
       /\ peers' = [peers EXCEPT ![i] =
                      [used |-> TRUE, node_id |-> n, addr |-> Address(e, e)]]
  /\ UNCHANGED <<vars, users, remote_addr, net_mutex, callVars, late>>

(* remove_peer(): the first slot that has the node. *)
RemovePeer(u, n) ==
  /\ May(u) /\ Ready
  /\ net_mutex = "free"
  /\ \E i \in Slots :
       /\ IsFirstOf(i, Named(n))
       /\ peers' = [peers EXCEPT ![i] = NoPeer]
  /\ UNCHANGED <<vars, users, remote_addr, net_mutex, callVars, late>>

(* write() and write_async(): state_ is tested, ... *)
WriteCheck(u) ==
  /\ May(u) /\ state = "RUNNING"
  /\ UserGo(u, "copy")
  /\ UNCHANGED <<vars, users, remote_addr, peers, net_mutex, arg, dest, late>>

(* ... remote_addr_ copied under net_mutex_, ... *)
CopyIp(u) ==
  /\ upc[u] = "copy"
  /\ Take(u, "copying")
  /\ dest' = [dest EXCEPT ![u].ip = remote_addr.ip]
  /\ UNCHANGED <<vars, users, remote_addr, peers, arg, late>>

CopyPort(u) ==
  /\ upc[u] = "copying"
  /\ dest' = [dest EXCEPT ![u].port = remote_addr.port]
  /\ Give(u, "send")
  /\ UNCHANGED <<vars, users, remote_addr, peers, arg, late>>

(* write_to_peer(): the same with the address of a peer, ... *)
PeerCheck(u, n) ==
  /\ May(u) /\ state = "RUNNING"
  /\ UserGo(u, "find")
  /\ arg' = [arg EXCEPT ![u] = n]
  /\ UNCHANGED <<vars, users, remote_addr, peers, net_mutex, dest, late>>

(* ... which it may not have. *)
FindPeer(u) ==
  /\ upc[u] = "find"
  /\ arg' = [arg EXCEPT ![u] = None]
  /\ \/ net_mutex = "gone" /\ UserGo(u, "fault") /\ UNCHANGED dest
     \/ net_mutex = "free" /\ Named(arg[u]) = {} /\ UserGo(u, "idle") /\ UNCHANGED dest
     \/ /\ net_mutex = "free"
        /\ UserGo(u, "send")
        /\ \E i \in Slots :
             /\ IsFirstOf(i, Named(arg[u]))
             /\ dest' = [dest EXCEPT ![u] = peers[i].addr]
  /\ UNCHANGED <<vars, users, remote_addr, peers, net_mutex, late>>

(* sendto(), which may fail, without the mutex; the callback is called. *)
Sendto(u) ==
  /\ upc[u] = "send"
  /\ UserGo(u, "idle")
  /\ dest' = [dest EXCEPT ![u] = NoAddress]
  /\ UNCHANGED <<vars, users, remote_addr, peers, net_mutex, arg, late>>

UserStep(u) ==
  \/ \E e \in Endpoints : SetRemoteIp(u, e)
  \/ SetRemotePort(u) \/ CallInDeinit(u)
  \/ \E n \in Nodes, e \in Endpoints : AddPeer(u, n, e)
  \/ \E n \in Nodes : RemovePeer(u, n) \/ PeerCheck(u, n)
  \/ WriteCheck(u) \/ CopyIp(u) \/ CopyPort(u) \/ FindPeer(u) \/ Sendto(u)

-----------------------------------------------------------------------------
UdpNext ==
  \/ MakeMutex \/ SetDefault \/ DeleteMutex \/ Restart \/ RxStep
  \/ \E u \in Users : UserStep(u)

UdpSpec == UdpInit /\ [][UdpNext]_<<vars, addressVars>>

UdpFairSpec == UdpSpec /\ \A t \in Tasks : WF_vars(TaskStep(t))

-----------------------------------------------------------------------------
Addresses == [ip : Endpoints \cup {None}, port : Endpoints \cup {None}]
Peers == [used : BOOLEAN, node_id : Nodes \cup {None}, addr : Addresses]

(* Every variable has its type. *)
AddressTypeOK ==
  /\ users \subseteq Users
  /\ remote_addr \in Addresses
  /\ peers \in [Slots -> Peers]
  /\ net_mutex \in {"gone", "free"} \cup Users
  /\ upc \in [Users -> {"idle", "set", "copy", "copying", "find", "send", "fault"}]
  /\ arg \in [Users -> Nodes \cup Endpoints \cup {None}]
  /\ \A u \in Users : upc[u] = "set" => arg[u] \in Endpoints
  /\ dest \in [Users -> Addresses]
  /\ late \in BOOLEAN
UdpTypeOK == TypeOK /\ AddressTypeOK

(* However peers come and go, a node has one slot: remove_peer() leaves    *)
(* none behind that write_to_peer() would go on to send to.                *)
OneSlotEach ==
  \A i, j \in Slots :
    peers[i].used /\ peers[j].used /\ peers[i].node_id = peers[j].node_id => i = j

(* A datagram goes to an address that was set as a whole, ...              *)
SentWhole == \A u \in Users : upc[u] = "send" => Whole(dest[u])

(* ... and no call meets a mutex that is not there, ...                    *)
NoFault == \A u \in Users : upc[u] # "fault"

(* ... unless deinit() has come under a call.                              *)
AddressesRight == OneSlotEach /\ (late \/ (SentWhole /\ NoFault))
=============================================================================
