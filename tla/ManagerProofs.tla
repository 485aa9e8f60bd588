--------------------------- MODULE ManagerProofs ---------------------------
(***************************************************************************)
(* Proofs of what module Manager promises, whatever the tasks, commands    *)
(* and bounds.                                                             *)
(*                                                                         *)
(* TypeOK, CachedBeforeHandled and FaultOnlyIfExposed are not inductive.   *)
(* IInv adds what the router, the registries and the cache know of one     *)
(* another: what the router's step says of the packet and of the entry it  *)
(* holds, what init() has done before the packet callback is registered,   *)
(* and which entry a command's handler and its cached value are found in.  *)
(***************************************************************************)
EXTENDS Manager, WellFoundedInduction, TLAPS

(* The router's packet is the last that came; where its step needs an      *)
(* entry it has one, and a reply to send when it sends.                    *)
PacketInHand ==
  /\ rpc = "idle" <=> packet = None
  /\ packet # None => packet.id = arrived
  /\ rpc \in {"serve", "store", "stored", "deliver", "act"} => entry # 0
  /\ rpc = "reply" => response # None
  /\ due => packet # None

(* Until the first deinit(): the packet callback is registered last, with  *)
(* every mutex created, and no endpoint is reached before that.            *)
HookedLast ==
  deinits = 0 =>
    /\ lpc # "clear"
    /\ lpc = "transactions" => ~initialized
    /\ initialized \/ lpc = "transactions" => \A m \in Mutexes : live[m]
    /\ hooked => initialized
    /\ packet # None => hooked
    /\ ~initialized => \A c \in Commands : handledBy[c] = None

(* While the manager is initialized and not in deinit(), its mutexes are   *)
(* there.                                                                  *)
LiveWhenInitialized ==
  /\ lpc = "transactions" => ~initialized
  /\ (initialized /\ lpc # "clear") \/ lpc = "transactions" =>
       \A m \in Mutexes : live[m]

(* A packet that came to such a manager and has met no deinit() since: the *)
(* manager is still one, and the entry found for it is still used.         *)
EntryThere ==
  rpc # "idle" /\ ~exposed =>
    /\ initialized /\ lpc # "clear"
    /\ rpc = "serve" => entry <= Len(services)
    /\ rpc \in {"store", "stored", "deliver"} => entry <= Len(topics)
    /\ rpc = "act" => entry <= Len(actions)

(* Until the first deinit(): the entry the router found is the first of    *)
(* its command, registries only growing at their end.                      *)
EntryFound ==
  deinits = 0 =>
    /\ rpc = "serve" => entry = Find(services, packet.command)
    /\ rpc \in {"store", "stored", "deliver"} => entry = Find(topics, packet.command)
    /\ rpc = "act" => entry = Find(actions, packet.command)

KindsApart ==
  /\ \A i \in DOMAIN services : services[i].kind = "service"
  /\ \A i \in DOMAIN topics : topics[i].kind \in {"publisher", "subscription"}
  /\ \A i \in DOMAIN actions : actions[i].kind = "action"

(* Until then: what handled a command is the first of its registry ... *)
HandlerFirst ==
  deinits = 0 =>
    \A c \in Commands :
      \/ handledBy[c] = None
      \/ Find(services, c) # 0 /\ handledBy[c] = services[Find(services, c)]
      \/ Find(topics, c) # 0 /\ handledBy[c] = topics[Find(topics, c)]
      \/ Find(actions, c) # 0 /\ handledBy[c] = actions[Find(actions, c)]

(* ... and none that the router has already looked for in vain. *)
PassedOver ==
  deinits = 0 /\ packet # None /\ handledBy[packet.command] # None =>
    /\ rpc \in {"topic", "store", "stored", "deliver", "action", "act"} =>
         handledBy[packet.command].kind # "service"
    /\ rpc \in {"action", "act"} => handledBy[packet.command].kind = "action"

(* The cache has one entry per command; only the one being stored to may   *)
(* be torn, and nothing in it is newer than the last packet.               *)
OneEntry ==
  \A i, j \in DOMAIN retained : retained[i].command = retained[j].command => i = j

StoredWhole ==
  \A i \in DOMAIN retained :
    /\ retained[i].payload.head <= arrived
    /\ IF rpc = "stored" /\ retained[i].command = packet.command
       THEN retained[i].payload.head = packet.id
       ELSE retained[i].payload.head = retained[i].payload.tail

(* A due packet has its entry, and is stored before it is delivered. *)
DueStored ==
  due /\ live["retained"] =>
    \E i \in DOMAIN retained :
      /\ retained[i].command = packet.command
      /\ rpc = "deliver" =>
           retained[i].payload.head = packet.id /\ retained[i].has_payload

(* What a task was given is whole, and the entry it came from has it or a  *)
(* newer one.                                                              *)
GotBehind ==
  \A t \in Tasks, c \in Commands :
    /\ got[t][c].head = got[t][c].tail
    /\ got[t][c].head # 0 =>
         \E i \in DOMAIN retained :
           retained[i].command = c /\ retained[i].payload.head >= got[t][c].head

SeenArrived == \A c \in Commands : seen[c] <= arrived

IInv ==
  /\ TypeOK /\ PacketInHand /\ HookedLast /\ FaultOnlyIfExposed
  /\ LiveWhenInitialized /\ EntryThere
  /\ EntryFound /\ KindsApart /\ HandlerFirst /\ PassedOver
  /\ OneEntry /\ StoredWhole /\ DueStored /\ GotBehind /\ SeenArrived
  /\ CachedBeforeHandled

-----------------------------------------------------------------------------
(* What Find gives. *)

LEMMA LeastNumber ==
  ASSUME NEW T, T \subseteq Nat, T # {}
  PROVE  \E x \in T : \A y \in T : x <= y
<1> DEFINE R == OpToRel(<, Nat)
<1>1. IsWellFoundedOn(R, Nat)
  BY NatLessThanWellFounded
<1>2. \A a, b \in Nat : a < b => <<a, b>> \in R
  BY DEF OpToRel
<1> HIDE DEF R
<1>3. PICK x \in T : \A y \in T : ~ (<<y, x>> \in R)
  BY <1>1, WFMin
<1>4. ASSUME NEW y \in T PROVE x <= y
  <2>1. x \in Nat /\ y \in Nat
    OBVIOUS
  <2>2. ~ (y < x)
    BY <1>2, <1>3, <2>1
  <2> QED BY <2>1, <2>2
<1> QED BY <1>4

(* Find gives the first entry of a command, or 0 when there is none. *)
LEMMA FindIs ==
  ASSUME NEW R, NEW S \in Seq(R), NEW c
  PROVE  \/ /\ Find(S, c) = 0
            /\ \A i \in DOMAIN S : S[i].command # c
         \/ /\ Find(S, c) \in 1..Len(S)
            /\ S[Find(S, c)].command = c
            /\ \A i \in DOMAIN S : S[i].command = c => Find(S, c) <= i
<1> DEFINE I == {i \in 1..Len(S) : S[i].command = c}
<1>1. Find(S, c) = IF I # {} THEN Min(I) ELSE 0
  BY DEF Find, SelectInSeq
<1>2. DOMAIN S = 1..Len(S) /\ Len(S) \in Nat
  OBVIOUS
<1>3. CASE I = {}
  BY <1>1, <1>2, <1>3
<1>4. CASE I # {}
  <2>1. I \subseteq Nat
    BY <1>2
  <2>2. \A i \in I : i \in 1..Len(S) /\ S[i].command = c
    OBVIOUS
  <2>3. \A i \in DOMAIN S : S[i].command = c => i \in I
    BY <1>2
  <2>4. Find(S, c) = CHOOSE x \in I : \A y \in I : x <= y
    BY <1>1, <1>4 DEF Min
  <2> HIDE DEF I
  <2>5. \E x \in I : \A y \in I : x <= y
    BY <1>4, <2>1, LeastNumber
  <2>6. Find(S, c) \in I /\ \A y \in I : Find(S, c) <= y
    BY <2>4, <2>5
  <2> QED BY <2>2, <2>3, <2>6
<1> QED BY <1>3, <1>4

LEMMA FindRange ==
  ASSUME NEW R, NEW S \in Seq(R), NEW c
  PROVE  /\ Find(S, c) \in 0..Len(S) /\ Find(S, c) \in Nat
         /\ Find(S, c) # 0 => Find(S, c) \in DOMAIN S /\ S[Find(S, c)].command = c
<1>1. DOMAIN S = 1..Len(S) /\ Len(S) \in Nat
  OBVIOUS
<1> QED BY <1>1, FindIs

(* An entry found stays found when the registry grows. *)
LEMMA FindGrows ==
  ASSUME NEW R, NEW S \in Seq(R), NEW e \in R, NEW c, Find(S, c) # 0
  PROVE  /\ Find(Append(S, e), c) = Find(S, c)
         /\ Append(S, e)[Find(S, c)] = S[Find(S, c)]
<1> DEFINE T == Append(S, e)
<1>1. /\ T \in Seq(R) /\ Len(T) = Len(S) + 1 /\ Len(S) \in Nat
      /\ DOMAIN T = 1..(Len(S) + 1) /\ DOMAIN S = 1..Len(S)
      /\ \A i \in DOMAIN S : T[i] = S[i]
  OBVIOUS
<1> HIDE DEF T
<1>2. /\ Find(S, c) \in 1..Len(S)
      /\ S[Find(S, c)].command = c
      /\ \A i \in DOMAIN S : S[i].command = c => Find(S, c) <= i
  BY FindIs
<1>3. Find(S, c) \in DOMAIN T /\ T[Find(S, c)].command = c
  BY <1>1, <1>2
<1>4. /\ Find(T, c) \in 1..Len(T)
      /\ T[Find(T, c)].command = c
      /\ \A i \in DOMAIN T : T[i].command = c => Find(T, c) <= i
  BY <1>1, <1>3, FindIs
<1>5. Find(T, c) <= Find(S, c)
  BY <1>3, <1>4
<1>6. Find(T, c) \in DOMAIN S
  BY <1>1, <1>2, <1>4, <1>5
<1>7. Find(S, c) <= Find(T, c)
  BY <1>1, <1>2, <1>4, <1>6
<1>8. Find(T, c) = Find(S, c)
  BY <1>1, <1>2, <1>4, <1>5, <1>7
<1> QED BY <1>1, <1>2, <1>8 DEF T

-----------------------------------------------------------------------------
(* Who changes what. *)

(* The router's side of a step: the packets that come and what is done     *)
(* with them.                                                              *)
Routing == (\E c \in Commands : Receive(c)) \/ ReceiveReply \/ RouterStep

LEMMA NextCases ==
  ASSUME [Next]_vars
  PROVE  UNCHANGED vars \/ LifeStep \/ (\E t \in Tasks : TaskStep(t)) \/ Routing
BY DEF Next, Finished, Routing

(* init() and deinit() clear the registries or leave everything but their  *)
(* own state alone.                                                        *)
LEMMA LifeFrame ==
  ASSUME LifeStep
  PROVE  /\ UNCHANGED <<tpc, routerVars, sent, created, arrived, fault>>
         /\ \/ UNCHANGED <<registryVars, seenVars, got>>
            \/ ClearRegistries /\ (InitMutexes \/ DeinitClear)
BY DEF LifeStep, InitNoMemory, InitMutexes, InitTransactionsFail, InitRegister, Start, Stop,
       DeinitMutexes, DeinitClear

LEMMA TaskFrame ==
  ASSUME NEW t \in Tasks, TaskStep(t)
  PROVE  UNCHANGED <<lifeVars, routerVars, arrived, seenVars, countVars, fault, exposed>>
BY DEF TaskStep, MarkRetained, CreateService, CreateAction, CreatePublisher,
       CreateSubscription, Register, GetLast, Publish, routerVars

LEMMA RoutingFrame ==
  ASSUME Routing
  PROVE  UNCHANGED <<lifeVars, services, topics, actions, tpc, created, got, countVars>>
BY DEF Routing, Receive, ReceiveReply, RouterStep, FindService, FindTopic, FindAction, LookUp,
       ServeFail, Serve, Reply, StoreBegin, StoreEnd, Deliver, Act, Fault, Proceed, registryVars

-----------------------------------------------------------------------------
(* Types. *)

LEMMA BoundTypes ==
  /\ MaxServices \in Nat \ {0} /\ MaxTopics \in Nat \ {0} /\ MaxActions \in Nat \ {0}
  /\ MaxRetained \in Nat \ {0}
  /\ MaxMessages \in Nat \ {0} /\ MaxCreates \in Nat /\ MaxInits \in Nat /\ MaxDeinits \in Nat
BY ManagerAssumption

LEMMA ClearTypes ==
  ASSUME ClearRegistries
  PROVE  /\ services' \in Seq(Endpoints) /\ Len(services') <= MaxServices
         /\ topics' \in Seq(Endpoints) /\ Len(topics') <= MaxTopics
         /\ actions' \in Seq(Endpoints) /\ Len(actions') <= MaxActions
         /\ retained' \in Seq(Retained) /\ Len(retained') <= MaxRetained
         /\ got' \in [Tasks -> [Commands -> Payloads]]
         /\ due' \in BOOLEAN
         /\ seen' \in [Commands -> 0..MaxMessages]
         /\ handledBy' \in [Commands -> Endpoints \cup {None}]
<1> USE ClearRegistries DEF ClearRegistries
<1>1. /\ services' \in Seq(Endpoints) /\ Len(services') <= MaxServices
      /\ topics' \in Seq(Endpoints) /\ Len(topics') <= MaxTopics
      /\ actions' \in Seq(Endpoints) /\ Len(actions') <= MaxActions
      /\ retained' \in Seq(Retained) /\ Len(retained') <= MaxRetained
  BY BoundTypes
<1>2. got' \in [Tasks -> [Commands -> Payloads]]
  <2>1. NoPayload \in Payloads
    BY BoundTypes DEF NoPayload, Payloads
  <2>2. Nothing \in [Commands -> Payloads]
    BY <2>1 DEF Nothing
  <2> QED BY <2>2
<1>3. due' \in BOOLEAN
  BY Zenon
<1>4. /\ seen' \in [Commands -> 0..MaxMessages]
      /\ handledBy' \in [Commands -> Endpoints \cup {None}]
  BY BoundTypes
<1> QED BY <1>1, <1>2, <1>3, <1>4, Zenon

LEMMA LifeTypeStep ==
  ASSUME TypeOK, [Next]_vars
  PROVE  LifeTypeOK'
<1> USE DEF LifeTypeOK
<1>0. LifeTypeOK
  BY DEF TypeOK
<1>1. CASE LifeStep
  <2>0. /\ [m \in Mutexes |-> FALSE] \in [Mutexes -> BOOLEAN]
        /\ [m \in Mutexes |-> TRUE] \in [Mutexes -> BOOLEAN]
        /\ [live EXCEPT !["seq"] = FALSE, !["registry"] = FALSE] \in [Mutexes -> BOOLEAN]
    BY <1>0
  <2>1. /\ initialized' \in BOOLEAN /\ running' \in BOOLEAN /\ auto_reply' \in BOOLEAN
        /\ hooked' \in BOOLEAN /\ fault' \in BOOLEAN /\ exposed' \in BOOLEAN
    BY <1>0, <1>1, Zenon DEF LifeStep, InitNoMemory, InitMutexes, InitTransactionsFail,
       InitRegister, Start, Stop, DeinitMutexes, DeinitClear
  <2>2. live' \in [Mutexes -> BOOLEAN]
    BY <1>0, <1>1, <2>0 DEF LifeStep, InitNoMemory, InitMutexes, InitTransactionsFail,
       InitRegister, Start, Stop, DeinitMutexes, DeinitClear
  <2>3. /\ lpc' \in {"idle", "transactions", "clear"}
        /\ inits' \in Nat /\ deinits' \in Nat
    BY <1>0, <1>1 DEF LifeStep, InitNoMemory, InitMutexes, InitTransactionsFail,
       InitRegister, Start, Stop, DeinitMutexes, DeinitClear, countVars
  <2> QED BY <2>1, <2>2, <2>3, Zenon
<1>2. CASE \E t \in Tasks : TaskStep(t)
  BY <1>0, <1>2, TaskFrame, Zenon DEF lifeVars, countVars
<1>3. CASE Routing
  <2>1. fault' = fault \/ fault' = TRUE
    BY <1>3 DEF Routing, Receive, ReceiveReply, RouterStep, FindService, FindTopic,
       FindAction, LookUp, ServeFail, Serve, Reply, StoreBegin, StoreEnd, Deliver, Act, Fault,
       Proceed
  <2>2. UNCHANGED <<lifeVars, countVars>>
    BY <1>3, RoutingFrame
  <2>3. exposed' \in BOOLEAN
    <3>1. ASSUME NEW c \in Commands, Receive(c) PROVE exposed' \in BOOLEAN
      BY <3>1, Zenon DEF Receive
    <3>2. CASE ReceiveReply \/ RouterStep
      <4>1. exposed' = exposed
        BY <3>2 DEF ReceiveReply, RouterStep, FindService, FindTopic, FindAction, LookUp,
           ServeFail, Serve, Reply, StoreBegin, StoreEnd, Deliver, Act, Fault, Proceed
      <4> QED BY <1>0, <4>1
    <3> QED BY <1>3, <3>1, <3>2 DEF Routing
  <2> QED BY <1>0, <2>1, <2>2, <2>3, Zenon DEF lifeVars, countVars
<1>4. CASE UNCHANGED vars
  BY <1>0, <1>4, Zenon DEF vars, lifeVars, countVars
<1> QED BY <1>1, <1>2, <1>3, <1>4, NextCases

(* A registry grows by an endpoint of its kind, or stays. *)
Grows(registry, next, max, kinds) ==
  \/ next = registry
  \/ \E e \in Endpoints :
       e.kind \in kinds /\ next = Append(registry, e) /\ Len(registry) < max

LEMMA GrownType ==
  ASSUME NEW S \in Seq(Endpoints), NEW T, NEW m \in Nat, NEW k,
         Len(S) <= m, Grows(S, T, m, k)
  PROVE  T \in Seq(Endpoints) /\ Len(T) <= m
BY DEF Grows

LEMMA CreateGrows ==
  ASSUME TypeOK, NEW t \in Tasks, TaskStep(t)
  PROVE  /\ Grows(services, services', MaxServices, {"service"})
         /\ Grows(topics, topics', MaxTopics, {"publisher", "subscription"})
         /\ Grows(actions, actions', MaxActions, {"action"})
         /\ created' \in 0..MaxCreates
<1> DEFINE Goal == /\ Grows(services, services', MaxServices, {"service"})
                   /\ Grows(topics, topics', MaxTopics, {"publisher", "subscription"})
                   /\ Grows(actions, actions', MaxActions, {"action"})
                   /\ created' \in 0..MaxCreates
<1> SUFFICES Goal
  OBVIOUS
<1>0. created \in 0..MaxCreates /\ MaxCreates \in Nat
  BY BoundTypes DEF TypeOK, RegistryTypeOK
<1>1. \A c \in Commands, k \in {"service", "publisher", "subscription", "action"} :
        created < MaxCreates => [id |-> created + 1, command |-> c, kind |-> k] \in Endpoints
  BY <1>0 DEF Endpoints
<1>2. ASSUME NEW c \in Commands, CreateService(t, c)
      PROVE  Goal
  <2> DEFINE e == [id |-> created + 1, command |-> c, kind |-> "service"]
  <2>1. /\ created < MaxCreates /\ Len(services) < MaxServices
        /\ services' = Append(services, e) /\ created' = created + 1
        /\ UNCHANGED <<topics, actions>>
    BY <1>2, Zenon DEF CreateService, Register
  <2>2. e \in Endpoints /\ e.kind = "service"
    BY <1>1, <2>1
  <2> HIDE DEF e
  <2>3. created' \in 0..MaxCreates
    BY <1>0, <2>1
  <2> QED BY <2>1, <2>2, <2>3 DEF Grows
<1>3. ASSUME NEW c \in Commands, CreateAction(t, c)
      PROVE  Goal
  <2> DEFINE e == [id |-> created + 1, command |-> c, kind |-> "action"]
  <2>1. /\ created < MaxCreates /\ Len(actions) < MaxActions
        /\ actions' = Append(actions, e) /\ created' = created + 1
        /\ UNCHANGED <<services, topics>>
    BY <1>3, Zenon DEF CreateAction, Register
  <2>2. e \in Endpoints /\ e.kind = "action"
    BY <1>1, <2>1
  <2> HIDE DEF e
  <2>3. created' \in 0..MaxCreates
    BY <1>0, <2>1
  <2> QED BY <2>1, <2>2, <2>3 DEF Grows
<1>4. ASSUME NEW c \in Commands, CreatePublisher(t, c)
      PROVE  Goal
  <2> DEFINE e == [id |-> created + 1, command |-> c, kind |-> "publisher"]
  <2>1. /\ created < MaxCreates /\ Len(topics) < MaxTopics
        /\ topics' = Append(topics, e) /\ created' = created + 1
        /\ UNCHANGED <<services, actions>>
    BY <1>4, Zenon DEF CreatePublisher, Register
  <2>2. e \in Endpoints /\ e.kind = "publisher"
    BY <1>1, <2>1
  <2> HIDE DEF e
  <2>3. created' \in 0..MaxCreates
    BY <1>0, <2>1
  <2> QED BY <2>1, <2>2, <2>3 DEF Grows
<1>5. ASSUME NEW c \in Commands, CreateSubscription(t, c)
      PROVE  Goal
  <2> DEFINE e == [id |-> created + 1, command |-> c, kind |-> "subscription"]
  <2>1. /\ created < MaxCreates /\ Len(topics) < MaxTopics
        /\ topics' = Append(topics, e) /\ created' = created + 1
        /\ UNCHANGED <<services, actions>>
    BY <1>5, Zenon DEF CreateSubscription, Register
  <2>2. e \in Endpoints /\ e.kind = "subscription"
    BY <1>1, <2>1
  <2> HIDE DEF e
  <2>3. created' \in 0..MaxCreates
    BY <1>0, <2>1
  <2> QED BY <2>1, <2>2, <2>3 DEF Grows
<1>6. CASE MarkRetained(t) \/ \E c \in Commands : GetLast(t, c) \/ Publish(t, c)
  <2>1. UNCHANGED <<services, topics, actions, created>>
    BY <1>6 DEF MarkRetained, GetLast, Publish, registryVars
  <2> QED BY <1>0, <2>1 DEF Grows
<1> QED BY <1>2, <1>3, <1>4, <1>5, <1>6 DEF TaskStep

LEMMA RegistryTypeStep ==
  ASSUME TypeOK, [Next]_vars
  PROVE  RegistryTypeOK'
<1> USE DEF RegistryTypeOK
<1>0. RegistryTypeOK
  BY DEF TypeOK
<1>1. CASE LifeStep
  BY <1>0, <1>1, LifeFrame, ClearTypes DEF registryVars
<1>2. CASE \E t \in Tasks : TaskStep(t)
  <2>0. PICK t \in Tasks : TaskStep(t)
    BY <1>2
  <2>2. /\ Grows(services, services', MaxServices, {"service"})
        /\ Grows(topics, topics', MaxTopics, {"publisher", "subscription"})
        /\ Grows(actions, actions', MaxActions, {"action"})
        /\ created' \in 0..MaxCreates
    BY <2>0, CreateGrows
  <2>3. services' \in Seq(Endpoints) /\ Len(services') <= MaxServices
    BY <1>0, <2>2, BoundTypes, GrownType
  <2>4. topics' \in Seq(Endpoints) /\ Len(topics') <= MaxTopics
    BY <1>0, <2>2, BoundTypes, GrownType
  <2>5. actions' \in Seq(Endpoints) /\ Len(actions') <= MaxActions
    BY <1>0, <2>2, BoundTypes, GrownType
  <2> QED BY <2>2, <2>3, <2>4, <2>5
<1>3. CASE Routing
  BY <1>0, <1>3, RoutingFrame
<1>4. CASE UNCHANGED vars
  BY <1>0, <1>4 DEF vars, registryVars
<1> QED BY <1>1, <1>2, <1>3, <1>4, NextCases

(* What the tasks do to the cache: the entry appended is new to it. *)
NewEntry(c) == [command |-> c, payload |-> NoPayload, has_payload |-> FALSE]

LEMMA TaskCache ==
  ASSUME TypeOK, NEW t \in Tasks, TaskStep(t)
  PROVE  /\ \/ UNCHANGED retained
            \/ \E c \in Commands :
                 /\ Find(retained, c) = 0 /\ Len(retained) < MaxRetained
                 /\ rpc # "stored"
                 /\ retained' = Append(retained, NewEntry(c))
         /\ \/ UNCHANGED got
            \/ \E c \in Commands :
                 /\ rpc # "stored"
                 /\ Find(retained, c) # 0
                 /\ got' = [got EXCEPT ![t][c] = retained[Find(retained, c)].payload]
         /\ \/ UNCHANGED tpc
            \/ \E c \in Commands \cup {None} : tpc' = [tpc EXCEPT ![t] = c]
         /\ \/ UNCHANGED sent
            \/ \E c \in Commands :
                 sent' = sent \cup {[command |-> c, reply |-> FALSE, seq_id |-> 0,
                                     payload |-> Whole(1)]}
<1>1. CASE MarkRetained(t)
  <2>1. tpc[t] \in Commands
    BY <1>1 DEF MarkRetained, TypeOK, CacheTypeOK
  <2> QED BY <1>1, <2>1 DEF MarkRetained, RetainedFree, NewEntry
<1>2. CASE \E c \in Commands : CreateService(t, c) \/ CreateAction(t, c)
                                 \/ CreatePublisher(t, c) \/ CreateSubscription(t, c)
  BY <1>2 DEF CreateService, CreateAction, CreatePublisher, CreateSubscription, Register
<1>3. CASE \E c \in Commands : GetLast(t, c)
  BY <1>3 DEF GetLast, RetainedFree, registryVars
<1>4. CASE \E c \in Commands : Publish(t, c)
  BY <1>4 DEF Publish, registryVars
<1> QED BY <1>1, <1>2, <1>3, <1>4 DEF TaskStep

(* What the router does to the cache. *)
LEMMA RoutingCache ==
  ASSUME Routing
  PROVE  \/ UNCHANGED retained
         \/ /\ rpc = "store" /\ rpc' = "stored" /\ live["retained"]
            /\ Find(retained, packet.command) # 0
            /\ retained' = [retained EXCEPT
                              ![Find(retained, packet.command)].payload.head = packet.id]
         \/ /\ rpc = "stored" /\ rpc' = "deliver" /\ live["retained"]
            /\ Find(retained, packet.command) # 0
            /\ retained' = [retained EXCEPT
                              ![Find(retained, packet.command)].payload.tail = packet.id,
                              ![Find(retained, packet.command)].has_payload = TRUE]
<1>1. CASE StoreBegin
  BY <1>1 DEF StoreBegin, Proceed, Goto
<1>2. CASE StoreEnd
  BY <1>2 DEF StoreEnd, Proceed, Goto, Fault, registryVars
<1>3. CASE ~StoreBegin /\ ~StoreEnd
  BY <1>3 DEF Routing, Receive, ReceiveReply, RouterStep, FindService, FindTopic, FindAction,
     LookUp, ServeFail, Serve, Reply, Deliver, Act, Fault, registryVars
<1> QED BY <1>1, <1>2, <1>3

LEMMA CacheTypeStep ==
  ASSUME TypeOK, PacketInHand, [Next]_vars
  PROVE  CacheTypeOK'
<1> USE DEF CacheTypeOK
<1>0. CacheTypeOK /\ RouterTypeOK
  BY DEF TypeOK
<1>1. CASE LifeStep
  BY <1>0, <1>1, LifeFrame, ClearTypes DEF registryVars
<1>2. CASE \E t \in Tasks : TaskStep(t)
  <2>0. PICK t \in Tasks : TaskStep(t)
    BY <1>2
  <2>1. retained' \in Seq(Retained) /\ Len(retained') <= MaxRetained
    <3>1. \A c \in Commands : NewEntry(c) \in Retained
      <4>1. NoPayload \in Payloads
        BY BoundTypes DEF NoPayload, Payloads
      <4> QED BY <4>1 DEF NewEntry, Retained
    <3>2. \/ UNCHANGED retained
          \/ \E e \in Retained :
               Len(retained) < MaxRetained /\ retained' = Append(retained, e)
      BY <2>0, <3>1, TaskCache
    <3> QED BY <1>0, <3>2, BoundTypes
  <2>2. got' \in [Tasks -> [Commands -> Payloads]]
    <3>1. CASE UNCHANGED got
      BY <1>0, <3>1
    <3>2. ASSUME NEW c \in Commands, Find(retained, c) # 0,
                 got' = [got EXCEPT ![t][c] = retained[Find(retained, c)].payload]
          PROVE  got' \in [Tasks -> [Commands -> Payloads]]
      <4>1. retained[Find(retained, c)] \in Retained
        BY <1>0, <3>2, FindRange
      <4>2. retained[Find(retained, c)].payload \in Payloads
        BY <4>1 DEF Retained
      <4> QED BY <1>0, <3>2, <4>2
    <3> QED BY <2>0, <3>1, <3>2, TaskCache
  <2>3. tpc' \in [Tasks -> Commands \cup {None}]
    BY <1>0, <2>0, TaskCache
  <2> QED BY <2>1, <2>2, <2>3
<1>3. CASE Routing
  <2>0. UNCHANGED <<tpc, got>>
    BY <1>3, RoutingFrame
  <2>1. CASE UNCHANGED retained
    BY <1>0, <2>0, <2>1
  <2> DEFINE i == Find(retained, packet.command)
  <2>2. CASE rpc \in {"store", "stored"} /\ i # 0
    <3>1. packet \in Packets
      BY <1>0, <2>2 DEF RouterTypeOK, PacketInHand
    <3>2. packet.id \in 0..MaxMessages
      BY <3>1, BoundTypes DEF Packets
    <3>3. i \in DOMAIN retained /\ retained[i] \in Retained
      BY <1>0, <2>2, FindRange
    <3>4. /\ [retained[i] EXCEPT !.payload.head = packet.id] \in Retained
          /\ [retained[i] EXCEPT !.payload.tail = packet.id, !.has_payload = TRUE] \in Retained
      <4> DEFINE r == retained[i]  n == packet.id
      <4>1. r \in Retained /\ n \in 0..MaxMessages
        BY <3>2, <3>3
      <4> HIDE DEF r, n
      <4>2. [r EXCEPT !.payload.head = n] \in Retained
        BY <4>1 DEF Retained, Payloads
      <4>3. [r EXCEPT !.payload.tail = n, !.has_payload = TRUE] \in Retained
        BY <4>1 DEF Retained, Payloads
      <4> QED BY <4>2, <4>3 DEF r, n
    <3> DEFINE h == [retained[i] EXCEPT !.payload.head = packet.id]
               e == [retained[i] EXCEPT !.payload.tail = packet.id, !.has_payload = TRUE]
    <3>5. \/ UNCHANGED retained
          \/ retained' = [retained EXCEPT ![i] = h]
          \/ retained' = [retained EXCEPT ![i] = e]
      BY <1>3, <3>3, RoutingCache
    <3>6. h \in Retained /\ e \in Retained
      BY <3>4
    <3> HIDE DEF h, e, i
    <3>7. retained' \in Seq(Retained) /\ Len(retained') = Len(retained)
      BY <1>0, <3>3, <3>5, <3>6
    <3> QED BY <1>0, <2>0, <3>7
  <2> QED BY <1>3, <2>1, <2>2, RoutingCache
<1>4. CASE UNCHANGED vars
  BY <1>0, <1>4 DEF vars, registryVars
<1> QED BY <1>1, <1>2, <1>3, <1>4, NextCases

-----------------------------------------------------------------------------
(* The router, step by step: where it goes and what it holds. *)

PacketComes ==
  /\ rpc = "idle" /\ rpc' = "service" /\ hooked
  /\ \E c \in Commands : packet' = [id |-> arrived + 1, command |-> c]
  /\ arrived < MaxMessages /\ arrived' = arrived + 1
  /\ due' => Find(retained, packet'.command) # 0
  /\ UNCHANGED <<entry, response, sent, retained, seen, handledBy, fault>>

ReplyComes ==
  /\ rpc = "idle" /\ hooked
  /\ arrived < MaxMessages /\ arrived' = arrived + 1
  /\ UNCHANGED <<routerVars, sent, retained, seenVars, fault>>

PacketMoves ==
  \/ packet' = packet /\ (due' => due) /\ rpc' # "idle"
  \/ packet' = None /\ ~due' /\ rpc' = "idle"

ResponseMoves ==
  \/ response' = None /\ sent' \in {sent, sent \cup {response}} /\ rpc = "reply" /\ rpc' = "idle"
  \/ UNCHANGED sent /\ rpc' = "reply" /\ response' = Response
  \/ UNCHANGED sent /\ rpc' # "reply" /\ response' = None
  \/ UNCHANGED <<sent, response, rpc>>
  \/ UNCHANGED <<sent, response>> /\ rpc' # "reply"

EntryMoves ==
  \/ entry' = 0 /\ rpc' \notin {"serve", "store", "stored", "deliver", "act"}
  \/ entry' = entry /\ rpc' = rpc
  \/ /\ entry' = entry
     /\ rpc \in {"store", "stored"} /\ rpc' \in {"stored", "deliver"}
  \/ /\ rpc = "service" /\ rpc' = "serve"
     /\ entry' # 0 /\ entry' = Find(services, packet.command)
  \/ /\ rpc = "topic" /\ rpc' = "store"
     /\ entry' # 0 /\ entry' = Find(topics, packet.command)
  \/ /\ rpc = "action" /\ rpc' = "act"
     /\ entry' # 0 /\ entry' = Find(actions, packet.command)

RouterMoves ==
  /\ rpc # "idle" /\ UNCHANGED arrived
  /\ PacketMoves /\ ResponseMoves /\ EntryMoves

LEMMA RoutingSteps ==
  ASSUME TypeOK, Routing
  PROVE  PacketComes \/ ReplyComes \/ RouterMoves
<1> USE DEF PacketMoves, ResponseMoves, EntryMoves, RouterMoves
<1>0. due \in BOOLEAN
  BY DEF TypeOK, SeenTypeOK
<1>1. CASE \E c \in Commands : Receive(c)
  <2>1. PICK c \in Commands : Receive(c)
    BY <1>1
  <2>2. packet' = [id |-> arrived + 1, command |-> c] /\ packet'.command = c
    BY <2>1 DEF Receive
  <2>3. due' => Find(retained, packet'.command) # 0
    BY <2>1, <2>2, Zenon DEF Receive
  <2> QED BY <2>1, <2>2, <2>3 DEF Receive, PacketComes, registryVars
<1>2. CASE ReceiveReply
  BY <1>2 DEF ReceiveReply, ReplyComes, registryVars
<1>3. CASE FindService
  BY <1>3 DEF FindService, LookUp, Fault, Proceed, Goto, routerVars, seenVars
<1>4. CASE FindTopic
  BY <1>4 DEF FindTopic, LookUp, Fault, Proceed, Goto, routerVars, seenVars
<1>5. CASE FindAction
  BY <1>5 DEF FindAction, LookUp, Fault, Proceed, Goto, routerVars, seenVars
<1>6. CASE ServeFail
  BY <1>6 DEF ServeFail, Fault, Proceed, Goto, routerVars, seenVars
<1>7. CASE Serve
  BY <1>7 DEF Serve, Goto
<1>8. CASE Reply
  BY <1>8 DEF Reply, Goto
<1>9. CASE StoreBegin
  BY <1>9 DEF StoreBegin, Proceed, Goto
<1>10. CASE StoreEnd
  BY <1>10 DEF StoreEnd, Fault, Proceed, Goto, routerVars, seenVars
<1>11. CASE Deliver
  BY <1>11 DEF Deliver, Fault, Proceed, Goto, routerVars, seenVars
<1>12. CASE Act
  BY <1>12 DEF Act, Fault, Proceed, Goto, routerVars, seenVars
<1> QED BY <1>1, <1>2, <1>3, <1>4, <1>5, <1>6, <1>7, <1>8, <1>9, <1>10, <1>11, <1>12
        DEF Routing, RouterStep

LEMMA PacketTypes ==
  ASSUME TypeOK, packet # None
  PROVE  /\ packet \in Packets /\ packet.command \in Commands
         /\ packet.id \in 1..MaxMessages /\ packet.id \in Nat /\ packet.id # 0
         /\ Response \in Outgoing
<1>1. packet \in Packets
  BY DEF TypeOK, RouterTypeOK
<1>2. packet.command \in Commands /\ packet.id \in 1..MaxMessages
  BY <1>1 DEF Packets
<1>3. NoPayload \in Payloads
  BY BoundTypes DEF NoPayload, Payloads
<1>4. packet.id \in 0..MaxMessages
  BY <1>2, BoundTypes
<1>5. Response \in Outgoing
  BY <1>2, <1>3, <1>4 DEF Response, Outgoing
<1> QED BY <1>1, <1>2, <1>5, BoundTypes

LEMMA Apart ==
  None \notin Commands /\ None \notin Endpoints /\ None \notin Packets /\ None \notin Outgoing
BY ManagerAssumption

LEMMA RouterTypeStep ==
  ASSUME TypeOK, PacketInHand, [Next]_vars
  PROVE  RouterTypeOK' /\ PacketInHand'
<1> DEFINE Good == RouterTypeOK' /\ PacketInHand'
<1> SUFFICES Good
  OBVIOUS
<1>0. RouterTypeOK /\ SeenTypeOK /\ PacketInHand
  BY DEF TypeOK
<1>1. CASE LifeStep
  <2>1. UNCHANGED <<routerVars, sent, arrived>> /\ (due' => due)
    <3>1. UNCHANGED <<routerVars, sent, arrived>>
      BY <1>1, LifeFrame
    <3>2. due' => due
      BY <1>1, LifeFrame, Zenon DEF seenVars, ClearRegistries
    <3> QED BY <3>1, <3>2
  <2> QED BY <1>0, <2>1 DEF RouterTypeOK, PacketInHand, routerVars
<1>2. CASE \E t \in Tasks : TaskStep(t)
  <2>0. PICK t \in Tasks : TaskStep(t)
    BY <1>2
  <2>1. UNCHANGED <<routerVars, arrived, seenVars>>
    BY <2>0, TaskFrame
  <2>2. sent' \subseteq Outgoing
    <3>1. CASE UNCHANGED sent
      BY <1>0, <3>1 DEF RouterTypeOK
    <3>2. ASSUME NEW c \in Commands,
                 sent' = sent \cup {[command |-> c, reply |-> FALSE, seq_id |-> 0,
                                     payload |-> Whole(1)]}
          PROVE  sent' \subseteq Outgoing
      <4>1. Whole(1) \in Payloads
        BY BoundTypes DEF Whole, Payloads
      <4>2. [command |-> c, reply |-> FALSE, seq_id |-> 0, payload |-> Whole(1)] \in Outgoing
        BY <4>1, BoundTypes DEF Outgoing
      <4> QED BY <1>0, <3>2, <4>2 DEF RouterTypeOK
    <3> QED BY <2>0, <3>1, <3>2, TaskCache
  <2> QED BY <1>0, <2>1, <2>2 DEF RouterTypeOK, PacketInHand, routerVars, seenVars
<1>3. CASE Routing /\ PacketComes
  <2>1. PICK c \in Commands : packet' = [id |-> arrived + 1, command |-> c]
    BY <1>3 DEF PacketComes
  <2>2. packet' \in Packets /\ packet'.id = arrived'
    BY <1>0, <1>3, <2>1, BoundTypes DEF PacketComes, RouterTypeOK, Packets
  <2> QED BY <1>0, <1>3, <2>2, Apart, BoundTypes DEF PacketComes, RouterTypeOK, PacketInHand
<1>4. CASE Routing /\ ReplyComes
  BY <1>0, <1>4, BoundTypes DEF ReplyComes, RouterTypeOK, PacketInHand, routerVars, seenVars
<1>5. CASE Routing /\ RouterMoves
  <2>1. packet # None /\ Response \in Outgoing
    BY <1>0, <1>5, PacketTypes DEF RouterMoves, PacketInHand
  <2>2. rpc' \in {"idle", "service", "serve", "reply", "topic", "store", "stored",
                  "deliver", "action", "act"}
    BY <1>0, <1>5 DEF Routing, Receive, ReceiveReply, RouterStep, FindService, FindTopic,
       FindAction, LookUp, ServeFail, Serve, Reply, StoreBegin, StoreEnd, Deliver, Act, Fault,
       Proceed, Goto, RouterTypeOK, routerVars
  <2>3. /\ packet' \in Packets \cup {None}
        /\ rpc' = "idle" <=> packet' = None
        /\ packet' # None => packet'.id = arrived'
        /\ due' => packet' # None
    BY <1>0, <1>5, <2>1 DEF RouterMoves, PacketMoves, RouterTypeOK, PacketInHand
  <2>4. /\ entry' \in Nat
        /\ rpc' \in {"serve", "store", "stored", "deliver", "act"} => entry' # 0
    <3>1. /\ Find(services, packet.command) \in Nat
          /\ Find(topics, packet.command) \in Nat
          /\ Find(actions, packet.command) \in Nat
      BY FindRange DEF TypeOK, RegistryTypeOK
    <3> QED BY <1>0, <1>5, <3>1 DEF RouterMoves, EntryMoves, RouterTypeOK, PacketInHand
  <2>5. /\ response' \in Outgoing \cup {None}
        /\ rpc' = "reply" => response' # None
        /\ sent' \subseteq Outgoing
    BY <1>0, <1>5, <2>1, Apart DEF RouterMoves, ResponseMoves, RouterTypeOK, PacketInHand
  <2>6. arrived' \in 0..MaxMessages
    BY <1>0, <1>5 DEF RouterMoves, RouterTypeOK
  <2> QED BY <2>2, <2>3, <2>4, <2>5, <2>6 DEF RouterTypeOK, PacketInHand
<1>6. CASE UNCHANGED vars
  BY <1>0, <1>6 DEF vars, RouterTypeOK, PacketInHand, routerVars, seenVars
<1> QED BY <1>1, <1>2, <1>3, <1>4, <1>5, <1>6, NextCases, RoutingSteps

(* A callback runs for the entry the router holds, and that is the end of  *)
(* the packet but for a reply.                                             *)
HandledMoves ==
  \/ UNCHANGED handledBy
  \/ /\ rpc' \in {"idle", "reply"}
     /\ \/ /\ rpc = "serve" /\ entry <= Len(services)
           /\ handledBy' = [handledBy EXCEPT ![packet.command] = services[entry]]
        \/ /\ rpc = "deliver" /\ entry <= Len(topics)
           /\ handledBy' = [handledBy EXCEPT ![packet.command] = topics[entry]]
        \/ /\ rpc = "act" /\ entry <= Len(actions)
           /\ handledBy' = [handledBy EXCEPT ![packet.command] = actions[entry]]

SeenMoves ==
  \/ UNCHANGED seen
  \/ /\ rpc = "deliver" /\ due
     /\ seen' = [seen EXCEPT ![packet.command] = packet.id]

LEMMA RoutingCallbacks ==
  ASSUME TypeOK, Routing
  PROVE  HandledMoves /\ SeenMoves
<1> USE DEF HandledMoves, SeenMoves
<1>0. /\ entry \in Nat /\ Len(services) \in Nat /\ Len(topics) \in Nat
      /\ Len(actions) \in Nat /\ due \in BOOLEAN
  BY DEF TypeOK, RegistryTypeOK, RouterTypeOK, SeenTypeOK
<1>1. CASE ServeFail
  BY <1>0, <1>1 DEF ServeFail, Fault, Proceed, Goto, Handled, seenVars
<1>2. CASE Serve
  BY <1>2 DEF Serve, Goto, Handled
<1>3. CASE Deliver
  BY <1>0, <1>3 DEF Deliver, Fault, Proceed, Goto, Handled, seenVars
<1>4. CASE Act
  BY <1>0, <1>4 DEF Act, Fault, Proceed, Goto, Handled, seenVars
<1>5. CASE ~ServeFail /\ ~Serve /\ ~Deliver /\ ~Act
  BY <1>5 DEF Routing, Receive, ReceiveReply, RouterStep, FindService, FindTopic, FindAction,
     LookUp, Reply, StoreBegin, StoreEnd, seenVars
<1> QED BY <1>1, <1>2, <1>3, <1>4, <1>5

LEMMA SeenTypeStep ==
  ASSUME TypeOK, PacketInHand, [Next]_vars
  PROVE  SeenTypeOK'
<1> USE DEF SeenTypeOK
<1>0. SeenTypeOK
  BY DEF TypeOK
<1>1. CASE LifeStep
  <2>1. CASE UNCHANGED seenVars
    BY <1>0, <2>1, Zenon DEF seenVars
  <2>2. CASE ClearRegistries
    BY <2>2, ClearTypes, Zenon
  <2> QED BY <1>1, <2>1, <2>2, LifeFrame
<1>2. CASE \E t \in Tasks : TaskStep(t)
  BY <1>0, <1>2, TaskFrame, Zenon DEF seenVars
<1>3. CASE Routing
  <2>1. due' \in BOOLEAN
    BY <1>0, <1>3, Zenon DEF Routing, Receive, ReceiveReply, RouterStep, FindService,
       FindTopic, FindAction, LookUp, ServeFail, Serve, Reply, StoreBegin, StoreEnd, Deliver,
       Act, Fault, Proceed, Goto, seenVars
  <2>2. seen' \in [Commands -> 0..MaxMessages]
    <3>1. rpc = "deliver" => packet.id \in 0..MaxMessages
      BY PacketTypes, BoundTypes DEF PacketInHand
    <3> QED BY <1>0, <1>3, <3>1, RoutingCallbacks DEF SeenMoves
  <2>3. handledBy' \in [Commands -> Endpoints \cup {None}]
    <3>1. /\ services \in Seq(Endpoints) /\ topics \in Seq(Endpoints)
          /\ actions \in Seq(Endpoints) /\ entry \in Nat
      BY DEF TypeOK, RegistryTypeOK, RouterTypeOK
    <3>2. /\ rpc = "serve" /\ entry <= Len(services) => services[entry] \in Endpoints
          /\ rpc = "deliver" /\ entry <= Len(topics) => topics[entry] \in Endpoints
          /\ rpc = "act" /\ entry <= Len(actions) => actions[entry] \in Endpoints
      BY <3>1 DEF PacketInHand
    <3> QED BY <1>0, <1>3, <3>2, RoutingCallbacks DEF HandledMoves
  <2> QED BY <2>1, <2>2, <2>3, Zenon
<1>4. CASE UNCHANGED vars
  BY <1>0, <1>4, Zenon DEF vars, seenVars
<1> QED BY <1>1, <1>2, <1>3, <1>4, NextCases

-----------------------------------------------------------------------------
(* No null handle and no cleared entry before the first deinit(). *)

LEMMA HookedLastStep ==
  ASSUME TypeOK, PacketInHand, HookedLast, [Next]_vars
  PROVE  HookedLast'
<1> USE DEF HookedLast
<1>0. LifeTypeOK
  BY DEF TypeOK
<1> DEFINE Good == HookedLast'
<1> SUFFICES Good
  OBVIOUS
<1>1. CASE LifeStep
  <2>1. UNCHANGED packet
    BY <1>1, LifeFrame DEF routerVars
  <2>2. UNCHANGED handledBy \/ \A c \in Commands : handledBy'[c] = None
    BY <1>1, LifeFrame DEF seenVars, ClearRegistries
  <2>3. deinits' \in Nat /\ (deinits' = 0 => deinits = 0)
    BY <1>0, <1>1 DEF LifeStep, InitNoMemory, InitMutexes, InitTransactionsFail,
       InitRegister, Start, Stop, DeinitMutexes, DeinitClear, countVars, LifeTypeOK
  <2>4. CASE InitNoMemory
    BY <2>1, <2>2, <2>3, <2>4 DEF InitNoMemory
  <2>5. CASE InitMutexes
    BY <2>1, <2>2, <2>3, <2>5 DEF InitMutexes
  <2>6. CASE InitTransactionsFail
    BY <2>1, <2>2, <2>3, <2>6 DEF InitTransactionsFail
  <2>7. CASE InitRegister
    BY <2>1, <2>2, <2>3, <2>7 DEF InitRegister
  <2>8. CASE Start
    BY <2>1, <2>2, <2>3, <2>8 DEF Start
  <2>9. CASE Stop
    BY <2>1, <2>2, <2>3, <2>9 DEF Stop
  <2>10. CASE DeinitMutexes
    BY <1>0, <2>10 DEF DeinitMutexes, LifeTypeOK
  <2>11. CASE DeinitClear
    BY <2>1, <2>2, <2>3, <2>11 DEF DeinitClear, countVars
  <2> QED BY <1>1, <2>4, <2>5, <2>6, <2>7, <2>8, <2>9, <2>10, <2>11 DEF LifeStep
<1>2. CASE \E t \in Tasks : TaskStep(t)
  BY <1>2, TaskFrame DEF lifeVars, routerVars, seenVars, countVars
<1>3. CASE Routing
  <2>1. UNCHANGED <<lifeVars, countVars>>
    BY <1>3, RoutingFrame
  <2>2. deinits = 0 => hooked
    BY <1>3, RoutingSteps DEF PacketComes, ReplyComes, RouterMoves, PacketInHand
  <2> QED BY <2>1, <2>2 DEF lifeVars, countVars
<1>4. CASE UNCHANGED vars
  BY <1>4 DEF vars, lifeVars, routerVars, seenVars, countVars
<1> QED BY <1>1, <1>2, <1>3, <1>4, NextCases

LEMMA LiveStep ==
  ASSUME TypeOK, LiveWhenInitialized, [Next]_vars
  PROVE  LiveWhenInitialized'
<1> USE DEF LiveWhenInitialized
<1>0. LifeTypeOK
  BY DEF TypeOK
<1> DEFINE Good == LiveWhenInitialized'
<1> SUFFICES Good
  OBVIOUS
<1>1. CASE LifeStep
  <2>1. CASE InitNoMemory
    BY <2>1 DEF InitNoMemory
  <2>2. CASE InitMutexes
    BY <2>2 DEF InitMutexes
  <2>3. CASE InitTransactionsFail
    BY <2>3 DEF InitTransactionsFail
  <2>4. CASE InitRegister
    BY <2>4 DEF InitRegister
  <2>5. CASE Start \/ Stop
    BY <2>5 DEF Start, Stop
  <2>6. CASE DeinitMutexes
    BY <2>6 DEF DeinitMutexes
  <2>7. CASE DeinitClear
    BY <2>7 DEF DeinitClear
  <2> QED BY <1>1, <2>1, <2>2, <2>3, <2>4, <2>5, <2>6, <2>7 DEF LifeStep
<1>2. CASE \E t \in Tasks : TaskStep(t)
  BY <1>2, TaskFrame DEF lifeVars
<1>3. CASE Routing
  BY <1>3, RoutingFrame DEF lifeVars
<1>4. CASE UNCHANGED vars
  BY <1>4 DEF vars, lifeVars
<1> QED BY <1>1, <1>2, <1>3, <1>4, NextCases

(* What the router finds is an entry of the registry. *)
LEMMA FoundThere ==
  ASSUME TypeOK, NEW c
  PROVE  /\ Find(services, c) <= Len(services)
         /\ Find(topics, c) <= Len(topics)
         /\ Find(actions, c) <= Len(actions)
BY FindRange DEF TypeOK, RegistryTypeOK

(* Who changes exposed: the packet that comes, and deinit(). *)
LEMMA ExposedMoves ==
  ASSUME Routing
  PROVE  \/ rpc = "idle" /\ fault' = fault
            /\ (rpc' = "idle" \/ exposed' = (~initialized \/ lpc = "clear"))
            /\ rpc' \in {"idle", "service"}
         \/ rpc # "idle" /\ exposed' = exposed
<1>1. CASE \E c \in Commands : Receive(c)
  BY <1>1 DEF Receive
<1>2. CASE ReceiveReply
  BY <1>2 DEF ReceiveReply, routerVars
<1>3. CASE RouterStep
  BY <1>3 DEF RouterStep, FindService, FindTopic, FindAction, LookUp, ServeFail, Serve, Reply,
     StoreBegin, StoreEnd, Deliver, Act, Fault, Proceed
<1> QED BY <1>1, <1>2, <1>3 DEF Routing

LEMMA EntryThereStep ==
  ASSUME TypeOK, PacketInHand, LiveWhenInitialized, EntryThere, [Next]_vars
  PROVE  EntryThere'
<1> USE DEF EntryThere
<1>0. LifeTypeOK
  BY DEF TypeOK
<1>a. /\ entry \in Nat /\ Len(services) \in Nat /\ Len(topics) \in Nat
      /\ Len(actions) \in Nat
  BY DEF TypeOK, RegistryTypeOK, RouterTypeOK
<1> DEFINE Good == EntryThere'
<1> SUFFICES Good
  OBVIOUS
<1>1. CASE LifeStep
  <2>1. UNCHANGED <<rpc, entry>>
    BY <1>1, LifeFrame DEF routerVars
  <2>2. CASE InitNoMemory
    BY <2>1, <2>2 DEF InitNoMemory, registryVars
  <2>3. CASE InitMutexes
    BY <2>1, <2>3 DEF InitMutexes
  <2>4. CASE InitTransactionsFail
    BY <2>1, <2>4 DEF InitTransactionsFail, registryVars
  <2>5. CASE InitRegister
    BY <2>1, <2>5 DEF InitRegister, registryVars, LiveWhenInitialized
  <2>6. CASE Start
    BY <2>1, <2>6 DEF Start, registryVars
  <2>7. CASE Stop
    BY <2>1, <2>7 DEF Stop, registryVars
  <2>8. CASE DeinitMutexes
    BY <2>1, <2>8 DEF DeinitMutexes
  <2>9. CASE DeinitClear
    BY <2>1, <2>9 DEF DeinitClear
  <2> QED BY <1>1, <2>2, <2>3, <2>4, <2>5, <2>6, <2>7, <2>8, <2>9 DEF LifeStep
<1>2. CASE \E t \in Tasks : TaskStep(t)
  <2>0. PICK t \in Tasks : TaskStep(t)
    BY <1>2
  <2>1. UNCHANGED <<rpc, entry, exposed, initialized, lpc>>
    BY <2>0, TaskFrame DEF routerVars, lifeVars
  <2>2. /\ Grows(services, services', MaxServices, {"service"})
        /\ Grows(topics, topics', MaxTopics, {"publisher", "subscription"})
        /\ Grows(actions, actions', MaxActions, {"action"})
    BY <2>0, CreateGrows
  <2>3. /\ services \in Seq(Endpoints) /\ topics \in Seq(Endpoints)
        /\ actions \in Seq(Endpoints)
    BY DEF TypeOK, RegistryTypeOK
  <2>4. ASSUME NEW S \in Seq(Endpoints), NEW T, NEW m, NEW k, Grows(S, T, m, k)
        PROVE  Len(T) \in Nat /\ Len(S) <= Len(T)
    BY <2>4 DEF Grows
  <2>5. /\ Len(services') \in Nat /\ Len(services) <= Len(services')
        /\ Len(topics') \in Nat /\ Len(topics) <= Len(topics')
        /\ Len(actions') \in Nat /\ Len(actions) <= Len(actions')
    BY <2>2, <2>3, <2>4
  <2> QED BY <1>a, <2>1, <2>5
<1>3. CASE Routing
  <2>0. UNCHANGED <<lifeVars, services, topics, actions>>
    BY <1>3, RoutingFrame
  <2>1. CASE rpc = "idle"
    BY <1>3, <2>0, <2>1, ExposedMoves DEF lifeVars
  <2>2. CASE rpc # "idle"
    <3>1. exposed' = exposed
      BY <1>3, <2>2, ExposedMoves
    <3>2. RouterMoves
      BY <1>3, <2>2, RoutingSteps DEF PacketComes, ReplyComes
    <3> QED BY <1>a, <2>0, <2>2, <3>1, <3>2, FoundThere
            DEF RouterMoves, PacketMoves, EntryMoves, lifeVars
  <2> QED BY <2>1, <2>2
<1>4. CASE UNCHANGED vars
  BY <1>4 DEF vars, routerVars, registryVars, lifeVars
<1> QED BY <1>1, <1>2, <1>3, <1>4, NextCases

(* The router faults only for an exposed packet, ... *)
LEMMA FaultExposed ==
  ASSUME TypeOK, LiveWhenInitialized, EntryThere, Routing, ~exposed
  PROVE  UNCHANGED fault
<1>1. rpc # "idle" => live["registry"] /\ live["retained"]
  BY DEF LiveWhenInitialized, EntryThere, Mutexes
<1>2. /\ entry \in Nat /\ Len(services) \in Nat /\ Len(topics) \in Nat
      /\ Len(actions) \in Nat
  BY DEF TypeOK, RegistryTypeOK, RouterTypeOK
<1> QED BY <1>1, <1>2 DEF EntryThere, Routing, Receive, ReceiveReply, RouterStep,
           FindService, FindTopic, FindAction, LookUp, ServeFail, Serve, Reply, StoreBegin,
           StoreEnd, Deliver, Act, Proceed

(* ... and only after a deinit(). *)
LEMMA FaultAfterDeinit ==
  ASSUME TypeOK, PacketInHand, HookedLast, EntryFound, Routing, deinits = 0
  PROVE  UNCHANGED fault
<1>1. rpc # "idle" => \A m \in Mutexes : live[m]
  BY DEF HookedLast, PacketInHand
<1>2. rpc # "idle" => live["registry"] /\ live["retained"]
  BY <1>1 DEF Mutexes
<1>3. /\ entry \in Nat /\ Len(services) \in Nat /\ Len(topics) \in Nat
      /\ Len(actions) \in Nat
  BY DEF TypeOK, RegistryTypeOK, RouterTypeOK
<1>4. /\ rpc = "serve" => entry <= Len(services)
      /\ rpc = "deliver" => entry <= Len(topics)
      /\ rpc = "act" => entry <= Len(actions)
  BY FoundThere DEF EntryFound
<1> QED BY <1>2, <1>3, <1>4 DEF Routing, Receive, ReceiveReply, RouterStep,
           FindService, FindTopic, FindAction, LookUp, ServeFail, Serve, Reply, StoreBegin,
           StoreEnd, Deliver, Act, Proceed

(* The program that has crashed does nothing more. *)
LEMMA CrashedStays ==
  ASSUME fault, [Next]_vars
  PROVE  UNCHANGED vars
BY DEF Next, Finished

LEMMA FaultStep ==
  ASSUME TypeOK, PacketInHand, HookedLast, LiveWhenInitialized, EntryThere, EntryFound,
         FaultOnlyIfExposed, [Next]_vars
  PROVE  FaultOnlyIfExposed'
<1> USE DEF FaultOnlyIfExposed
<1> DEFINE Good == FaultOnlyIfExposed'
<1> SUFFICES Good
  OBVIOUS
<1>0. deinits \in Nat
  BY DEF TypeOK, LifeTypeOK
<1>1. CASE fault
  BY <1>1, CrashedStays DEF vars, countVars
<1>2. CASE ~fault /\ Routing
  <2>1. UNCHANGED deinits
    BY <1>2, RoutingFrame DEF countVars
  <2>2. CASE ~exposed
    BY <1>2, <2>2, FaultExposed
  <2>3. CASE deinits = 0
    BY <1>2, <2>3, FaultAfterDeinit
  <2>4. CASE exposed /\ deinits > 0
    BY <1>2, <2>1, <2>4, ExposedMoves
  <2> QED BY <1>0, <2>2, <2>3, <2>4
<1>3. CASE ~fault /\ ~Routing
  <2>1. UNCHANGED fault
    BY <1>3, NextCases, LifeFrame, TaskFrame DEF vars
  <2> QED BY <1>3, <2>1
<1> QED BY <1>1, <1>2, <1>3

-----------------------------------------------------------------------------
(* The endpoint that handles a command. *)

LEMMA GrownFind ==
  ASSUME NEW S \in Seq(Endpoints), NEW T, NEW m, NEW k, Grows(S, T, m, k),
         NEW c, Find(S, c) # 0
  PROVE  Find(T, c) = Find(S, c) /\ T[Find(S, c)] = S[Find(S, c)]
<1>1. CASE T = S
  BY <1>1
<1>2. ASSUME NEW e \in Endpoints, T = Append(S, e)
      PROVE  Find(T, c) = Find(S, c) /\ T[Find(S, c)] = S[Find(S, c)]
  BY <1>2, FindGrows
<1> QED BY <1>1, <1>2 DEF Grows

LEMMA GrownKinds ==
  ASSUME NEW S \in Seq(Endpoints), NEW T, NEW m, NEW k, Grows(S, T, m, k),
         \A i \in DOMAIN S : S[i].kind \in k
  PROVE  \A i \in DOMAIN T : T[i].kind \in k
<1>1. CASE T = S
  BY <1>1
<1>2. ASSUME NEW e \in Endpoints, e.kind \in k, T = Append(S, e)
      PROVE  \A i \in DOMAIN T : T[i].kind \in k
  <2>1. /\ DOMAIN T = 1..(Len(S) + 1) /\ Len(S) \in Nat /\ DOMAIN S = 1..Len(S)
        /\ \A i \in DOMAIN S : T[i] = S[i]
        /\ T[Len(S) + 1] = e
    BY <1>2
  <2> QED BY <1>2, <2>1
<1> QED BY <1>1, <1>2 DEF Grows

(* Until the first deinit() the registries are cleared only when no packet *)
(* is in hand and none has been handled.                                   *)
LEMMA ClearedEarly ==
  ASSUME TypeOK, PacketInHand, HookedLast, LifeStep, deinits = 0
  PROVE  \/ UNCHANGED <<registryVars, seenVars>>
         \/ ClearRegistries /\ rpc = "idle" /\ packet = None
              /\ \A c \in Commands : handledBy[c] = None
<1>1. CASE UNCHANGED <<registryVars, seenVars>>
  BY <1>1
<1>2. CASE ClearRegistries /\ InitMutexes
  BY <1>2 DEF InitMutexes, HookedLast, PacketInHand
<1>3. CASE DeinitClear
  BY <1>3 DEF DeinitClear, HookedLast
<1> QED BY <1>1, <1>2, <1>3, LifeFrame

LEMMA DeinitsGrow ==
  ASSUME TypeOK, [Next]_vars, deinits' = 0
  PROVE  deinits = 0
<1>0. deinits \in Nat
  BY DEF TypeOK, LifeTypeOK
<1>1. CASE LifeStep
  BY <1>0, <1>1 DEF LifeStep, InitNoMemory, InitMutexes, InitTransactionsFail,
     InitRegister, Start, Stop, DeinitMutexes, DeinitClear, countVars
<1>2. CASE \E t \in Tasks : TaskStep(t)
  BY <1>2, TaskFrame DEF countVars
<1>3. CASE Routing
  BY <1>3, RoutingFrame DEF countVars
<1>4. CASE UNCHANGED vars
  BY <1>4 DEF vars, countVars
<1> QED BY <1>1, <1>2, <1>3, <1>4, NextCases

LEMMA EntryFoundStep ==
  ASSUME TypeOK, PacketInHand, HookedLast, EntryFound, [Next]_vars
  PROVE  EntryFound'
<1> USE DEF EntryFound
<1> SUFFICES ASSUME deinits' = 0 PROVE EntryFound'
  OBVIOUS
<1> DEFINE Good == EntryFound'
<1> SUFFICES Good
  OBVIOUS
<1>0. deinits = 0
  BY DeinitsGrow
<1>1. CASE LifeStep
  <2>1. UNCHANGED routerVars
    BY <1>1, LifeFrame
  <2> QED BY <1>0, <1>1, <2>1, ClearedEarly DEF routerVars, registryVars
<1>2. CASE \E t \in Tasks : TaskStep(t)
  <2>0. PICK t \in Tasks : TaskStep(t)
    BY <1>2
  <2>1. UNCHANGED <<rpc, packet, entry>>
    BY <2>0, TaskFrame DEF routerVars
  <2>2. /\ services \in Seq(Endpoints) /\ topics \in Seq(Endpoints)
        /\ actions \in Seq(Endpoints)
    BY DEF TypeOK, RegistryTypeOK
  <2>3. /\ Grows(services, services', MaxServices, {"service"})
        /\ Grows(topics, topics', MaxTopics, {"publisher", "subscription"})
        /\ Grows(actions, actions', MaxActions, {"action"})
    BY <2>0, CreateGrows
  <2>4. rpc = "serve" => Find(services', packet.command) = Find(services, packet.command)
    BY <1>0, <2>2, <2>3, GrownFind DEF PacketInHand
  <2>5. rpc \in {"store", "stored", "deliver"} =>
          Find(topics', packet.command) = Find(topics, packet.command)
    BY <1>0, <2>2, <2>3, GrownFind DEF PacketInHand
  <2>6. rpc = "act" => Find(actions', packet.command) = Find(actions, packet.command)
    BY <1>0, <2>2, <2>3, GrownFind DEF PacketInHand
  <2> QED BY <1>0, <2>1, <2>4, <2>5, <2>6
<1>3. CASE Routing
  <2>1. UNCHANGED <<services, topics, actions>>
    BY <1>3, RoutingFrame
  <2>2. CASE PacketComes \/ ReplyComes
    BY <1>0, <2>1, <2>2 DEF PacketComes, ReplyComes, routerVars
  <2>3. CASE RouterMoves
    BY <1>0, <2>1, <2>3 DEF RouterMoves, PacketMoves, EntryMoves
  <2> QED BY <1>3, <2>2, <2>3, RoutingSteps
<1>4. CASE UNCHANGED vars
  BY <1>0, <1>4 DEF vars, routerVars, registryVars
<1> QED BY <1>1, <1>2, <1>3, <1>4, NextCases

LEMMA KindsApartStep ==
  ASSUME TypeOK, KindsApart, [Next]_vars
  PROVE  KindsApart'
<1> USE DEF KindsApart
<1>1. CASE LifeStep
  <2>1. CASE UNCHANGED registryVars
    BY <2>1 DEF registryVars
  <2>2. CASE ClearRegistries
    BY <2>2 DEF ClearRegistries
  <2> QED BY <1>1, <2>1, <2>2, LifeFrame
<1>2. CASE \E t \in Tasks : TaskStep(t)
  <2>0. PICK t \in Tasks : TaskStep(t)
    BY <1>2
  <2>1. /\ services \in Seq(Endpoints) /\ topics \in Seq(Endpoints)
        /\ actions \in Seq(Endpoints)
    BY DEF TypeOK, RegistryTypeOK
  <2>2. /\ Grows(services, services', MaxServices, {"service"})
        /\ Grows(topics, topics', MaxTopics, {"publisher", "subscription"})
        /\ Grows(actions, actions', MaxActions, {"action"})
    BY <2>0, CreateGrows
  <2>3. \A i \in DOMAIN services' : services'[i].kind \in {"service"}
    BY <2>1, <2>2, GrownKinds
  <2>4. \A i \in DOMAIN topics' : topics'[i].kind \in {"publisher", "subscription"}
    BY <2>1, <2>2, GrownKinds
  <2>5. \A i \in DOMAIN actions' : actions'[i].kind \in {"action"}
    BY <2>1, <2>2, GrownKinds
  <2> QED BY <2>3, <2>4, <2>5
<1>3. CASE Routing
  BY <1>3, RoutingFrame
<1>4. CASE UNCHANGED vars
  BY <1>4 DEF vars, registryVars
<1> QED BY <1>1, <1>2, <1>3, <1>4, NextCases

(* A callback that runs is that of the first entry of its command. *)
LEMMA HandledFirst ==
  ASSUME TypeOK, PacketInHand, EntryFound, deinits = 0, Routing, ~ UNCHANGED handledBy
  PROVE  \/ /\ rpc = "serve" /\ Find(services, packet.command) # 0
            /\ handledBy' = [handledBy EXCEPT ![packet.command] =
                               services[Find(services, packet.command)]]
         \/ /\ rpc = "deliver" /\ Find(topics, packet.command) # 0
            /\ handledBy' = [handledBy EXCEPT ![packet.command] =
                               topics[Find(topics, packet.command)]]
         \/ /\ rpc = "act" /\ Find(actions, packet.command) # 0
            /\ handledBy' = [handledBy EXCEPT ![packet.command] =
                               actions[Find(actions, packet.command)]]
BY RoutingCallbacks DEF HandledMoves, EntryFound, PacketInHand

LEMMA HandlerFirstStep ==
  ASSUME TypeOK, PacketInHand, HookedLast, EntryFound, HandlerFirst, [Next]_vars
  PROVE  HandlerFirst'
<1> USE DEF HandlerFirst
<1> SUFFICES ASSUME deinits' = 0, NEW c \in Commands
             PROVE  \/ handledBy'[c] = None
                    \/ Find(services', c) # 0 /\ handledBy'[c] = services'[Find(services', c)]
                    \/ Find(topics', c) # 0 /\ handledBy'[c] = topics'[Find(topics', c)]
                    \/ Find(actions', c) # 0 /\ handledBy'[c] = actions'[Find(actions', c)]
  OBVIOUS
<1>0. deinits = 0 /\ handledBy \in [Commands -> Endpoints \cup {None}]
  BY DeinitsGrow DEF TypeOK, SeenTypeOK
<1>1. CASE LifeStep
  <2>1. CASE UNCHANGED <<registryVars, seenVars>>
    BY <1>0, <2>1 DEF registryVars, seenVars
  <2>2. CASE ClearRegistries
    BY <2>2 DEF ClearRegistries
  <2> QED BY <1>0, <1>1, <2>1, <2>2, ClearedEarly
<1>2. CASE \E t \in Tasks : TaskStep(t)
  <2>0. PICK t \in Tasks : TaskStep(t)
    BY <1>2
  <2>1. /\ services \in Seq(Endpoints) /\ topics \in Seq(Endpoints)
        /\ actions \in Seq(Endpoints)
    BY DEF TypeOK, RegistryTypeOK
  <2>2. UNCHANGED handledBy
    BY <2>0, TaskFrame DEF seenVars
  <2>3. /\ Grows(services, services', MaxServices, {"service"})
        /\ Grows(topics, topics', MaxTopics, {"publisher", "subscription"})
        /\ Grows(actions, actions', MaxActions, {"action"})
    BY <2>0, CreateGrows
  <2>4. Find(services, c) # 0 =>
          Find(services', c) # 0 /\ services'[Find(services', c)] = services[Find(services, c)]
    BY <2>1, <2>3, GrownFind
  <2>5. Find(topics, c) # 0 =>
          Find(topics', c) # 0 /\ topics'[Find(topics', c)] = topics[Find(topics, c)]
    BY <2>1, <2>3, GrownFind
  <2>6. Find(actions, c) # 0 =>
          Find(actions', c) # 0 /\ actions'[Find(actions', c)] = actions[Find(actions, c)]
    BY <2>1, <2>3, GrownFind
  <2> QED BY <1>0, <2>2, <2>4, <2>5, <2>6
<1>3. CASE Routing
  <2>1. UNCHANGED <<services, topics, actions>>
    BY <1>3, RoutingFrame
  <2>2. CASE UNCHANGED handledBy
    BY <1>0, <2>1, <2>2
  <2>3. CASE ~ UNCHANGED handledBy
    BY <1>0, <1>3, <2>1, <2>3, HandledFirst
  <2> QED BY <2>2, <2>3
<1>4. CASE UNCHANGED vars
  BY <1>0, <1>4 DEF vars, registryVars, seenVars
<1> QED BY <1>1, <1>2, <1>3, <1>4, NextCases

(* The look-ups, in their order. *)
RpcMoves ==
  \/ rpc' \in {"idle", "reply", "serve", "service"}
  \/ rpc' = rpc
  \/ rpc = "service" /\ rpc' = "topic" /\ Find(services, packet.command) = 0
  \/ rpc = "topic" /\ rpc' = "store"
  \/ rpc = "topic" /\ rpc' = "action" /\ Find(topics, packet.command) = 0
  \/ rpc \in {"store", "stored"} /\ rpc' \in {"stored", "deliver"}
  \/ rpc = "action" /\ rpc' = "act"

LEMMA RoutingOrder ==
  ASSUME Routing
  PROVE  RpcMoves
<1> USE DEF RpcMoves
<1>1. CASE FindService
  BY <1>1 DEF FindService, LookUp, Fault, Proceed, Goto, routerVars
<1>2. CASE FindTopic
  BY <1>2 DEF FindTopic, LookUp, Fault, Proceed, Goto, routerVars
<1>3. CASE ~FindService /\ ~FindTopic
  BY <1>3 DEF Routing, Receive, ReceiveReply, RouterStep, FindAction, LookUp, ServeFail, Serve,
     Reply, StoreBegin, StoreEnd, Deliver, Act, Fault, Proceed, Goto, routerVars
<1> QED BY <1>1, <1>2, <1>3

(* What kind a command's handler is of tells the registry it is from. *)
LEMMA KindTells ==
  ASSUME TypeOK, KindsApart, HandlerFirst, deinits = 0, NEW c \in Commands,
         handledBy[c] # None
  PROVE  \/ /\ handledBy[c].kind = "service" /\ Find(services, c) # 0
            /\ handledBy[c] = services[Find(services, c)]
         \/ /\ handledBy[c].kind \in {"publisher", "subscription"} /\ Find(topics, c) # 0
            /\ handledBy[c] = topics[Find(topics, c)]
         \/ /\ handledBy[c].kind = "action" /\ Find(actions, c) # 0
            /\ handledBy[c] = actions[Find(actions, c)]
<1>1. /\ Find(services, c) # 0 => Find(services, c) \in DOMAIN services
      /\ Find(topics, c) # 0 => Find(topics, c) \in DOMAIN topics
      /\ Find(actions, c) # 0 => Find(actions, c) \in DOMAIN actions
  BY FindRange DEF TypeOK, RegistryTypeOK
<1> QED BY <1>1 DEF KindsApart, HandlerFirst

LEMMA PassedOverStep ==
  ASSUME TypeOK, PacketInHand, HookedLast, EntryFound, KindsApart, HandlerFirst, PassedOver,
         [Next]_vars
  PROVE  PassedOver'
<1> SUFFICES ASSUME deinits' = 0, packet' # None, handledBy'[packet'.command] # None
             PROVE  /\ rpc' \in {"topic", "store", "stored", "deliver", "action", "act"} =>
                         handledBy'[packet'.command].kind # "service"
                    /\ rpc' \in {"action", "act"} =>
                         handledBy'[packet'.command].kind = "action"
  BY DEF PassedOver
<1> DEFINE Good ==
      /\ rpc' \in {"topic", "store", "stored", "deliver", "action", "act"} =>
           handledBy'[packet'.command].kind # "service"
      /\ rpc' \in {"action", "act"} => handledBy'[packet'.command].kind = "action"
<1> SUFFICES Good
  OBVIOUS
<1>0. deinits = 0
  BY DeinitsGrow
<1>1. CASE LifeStep
  <2>1. UNCHANGED routerVars
    BY <1>1, LifeFrame
  <2> QED BY <1>0, <1>1, <2>1, ClearedEarly DEF PassedOver, routerVars, seenVars
<1>2. CASE \E t \in Tasks : TaskStep(t)
  BY <1>0, <1>2, TaskFrame DEF PassedOver, routerVars, seenVars
<1>3. CASE Routing
  <2>1. CASE PacketComes
    BY <2>1 DEF PacketComes
  <2>2. CASE ReplyComes
    BY <2>2 DEF ReplyComes, routerVars, PacketInHand
  <2>3. CASE RouterMoves /\ ~ UNCHANGED handledBy
    <3>1. rpc' \in {"idle", "reply"}
      BY <1>3, <2>3, RoutingCallbacks DEF HandledMoves
    <3> QED BY <3>1
  <2>4. CASE RouterMoves /\ UNCHANGED handledBy
    <3>1. /\ packet' = packet /\ packet # None /\ rpc # "idle" /\ rpc' # "idle"
          /\ handledBy[packet.command] # None
      BY <2>4 DEF RouterMoves, PacketMoves
    <3>2. packet.command \in Commands
      BY <3>1, PacketTypes
    <3> DEFINE h == handledBy[packet.command]
    <3>3. \/ h.kind = "service" /\ Find(services, packet.command) # 0
          \/ /\ h.kind \in {"publisher", "subscription"}
             /\ Find(topics, packet.command) # 0
          \/ h.kind = "action"
      BY <1>0, <3>1, <3>2, KindTells
    <3>4. /\ rpc \in {"topic", "store", "stored", "deliver", "action", "act"} =>
               h.kind # "service"
          /\ rpc \in {"action", "act"} => h.kind = "action"
      BY <1>0, <3>1 DEF PassedOver
    <3>5. handledBy'[packet'.command] = h
      BY <2>4, <3>1
    <3> HIDE DEF h
    <3>6. /\ rpc' \in {"topic", "store", "stored", "deliver", "action", "act"} =>
               h.kind # "service"
          /\ rpc' \in {"action", "act"} => h.kind = "action"
      BY <1>3, <3>3, <3>4, RoutingOrder DEF RpcMoves
    <3> QED BY <3>5, <3>6
  <2> QED BY <1>3, <2>1, <2>2, <2>3, <2>4, RoutingSteps
<1>4. CASE UNCHANGED vars
  BY <1>0, <1>4 DEF PassedOver, vars, routerVars, seenVars
<1> QED BY <1>1, <1>2, <1>3, <1>4, NextCases

(* The step of HandlerStable. *)
LEMMA HandlerStep ==
  ASSUME TypeOK, PacketInHand, HookedLast, EntryFound, KindsApart, HandlerFirst, PassedOver,
         [Next]_vars, NEW c \in Commands,
         deinits = 0, handledBy[c] # None, handledBy'[c] # handledBy[c]
  PROVE  Rank(handledBy'[c]) < Rank(handledBy[c])
<1>1. ASSUME LifeStep PROVE FALSE
  BY <1>1, ClearedEarly DEF seenVars
<1>2. ASSUME NEW t \in Tasks, TaskStep(t) PROVE FALSE
  BY <1>2, TaskFrame DEF seenVars
<1>3. ASSUME UNCHANGED vars PROVE FALSE
  BY <1>3 DEF vars, seenVars
<1>4. Routing
  BY <1>1, <1>2, <1>3, NextCases
<1>5. handledBy \in [Commands -> Endpoints \cup {None}]
  BY DEF TypeOK, SeenTypeOK
<1>6. c = packet.command /\ rpc # "idle" /\ packet # None
  BY <1>4, <1>5, HandledFirst DEF PacketInHand
<1> DEFINE h == handledBy[c]  k == handledBy'[c]
<1>7. \/ h.kind = "service" /\ h = services[Find(services, c)]
      \/ h.kind \in {"publisher", "subscription"} /\ h = topics[Find(topics, c)]
      \/ h.kind = "action" /\ h = actions[Find(actions, c)]
  BY KindTells
<1>8. /\ rpc = "deliver" => h.kind # "service"
      /\ rpc = "act" => h.kind = "action"
  BY <1>6 DEF PassedOver
<1>9. \/ /\ rpc = "serve" /\ k = services[Find(services, c)] /\ k.kind = "service"
      \/ /\ rpc = "deliver" /\ k = topics[Find(topics, c)]
         /\ k.kind \in {"publisher", "subscription"}
      \/ /\ rpc = "act" /\ k = actions[Find(actions, c)] /\ k.kind = "action"
  <2>1. /\ Find(services, c) # 0 => services[Find(services, c)].kind = "service"
        /\ Find(topics, c) # 0 =>
             topics[Find(topics, c)].kind \in {"publisher", "subscription"}
        /\ Find(actions, c) # 0 => actions[Find(actions, c)].kind = "action"
    BY FindRange DEF TypeOK, RegistryTypeOK, KindsApart
  <2> QED BY <1>4, <1>5, <1>6, <2>1, HandledFirst
<1>10. h # k
  OBVIOUS
<1> HIDE DEF h, k
<1>11. Rank(k) < Rank(h)
  BY <1>7, <1>8, <1>9, <1>10 DEF Rank
<1> QED BY <1>11 DEF h, k

-----------------------------------------------------------------------------
(* The cache. *)

(* What the router does to the entry i of its packet's command. *)
CacheKept ==
  /\ UNCHANGED retained
  /\ rpc' = "stored" => rpc = "stored"
  /\ rpc = "stored" /\ rpc' # "stored" => Find(retained, packet.command) = 0
  /\ rpc' = "deliver" =>
       rpc = "deliver" \/ ~live["retained"] \/ Find(retained, packet.command) = 0

StoresAt(i) ==
  /\ retained[i].command = packet.command /\ retained'[i].command = packet.command
  /\ DOMAIN retained' = DOMAIN retained
  /\ \A j \in DOMAIN retained : j # i => retained'[j] = retained[j]
  /\ \/ /\ rpc = "store" /\ rpc' = "stored"
        /\ retained'[i].payload.head = packet.id
        /\ retained'[i].has_payload = retained[i].has_payload
     \/ /\ rpc = "stored" /\ rpc' = "deliver"
        /\ retained'[i].payload.head = retained[i].payload.head
        /\ retained'[i].payload.tail = packet.id
        /\ retained'[i].has_payload = TRUE

LEMMA RoutingStores ==
  ASSUME TypeOK, PacketInHand, Routing
  PROVE  CacheKept \/ \E i \in DOMAIN retained : StoresAt(i)
<1> USE DEF CacheKept
<1> DEFINE i == Find(retained, packet.command)
<1>0. /\ retained \in Seq(Retained)
      /\ i # 0 => i \in DOMAIN retained /\ retained[i].command = packet.command
                    /\ retained[i] \in Retained
  BY FindRange DEF TypeOK, CacheTypeOK
<1>1. CASE StoreBegin /\ live["retained"] /\ i # 0
  <2>1. /\ retained' = [retained EXCEPT ![i].payload.head = packet.id]
        /\ rpc = "store" /\ rpc' = "stored"
    BY <1>1 DEF StoreBegin, Proceed, Goto
  <2> HIDE DEF i
  <2>2. StoresAt(i)
    BY <1>0, <1>1, <2>1 DEF StoresAt, Retained, Payloads
  <2> QED BY <1>0, <1>1, <2>2
<1>2. CASE StoreEnd /\ live["retained"] /\ i # 0
  <2>1. /\ retained' = [retained EXCEPT ![i].payload.tail = packet.id,
                                        ![i].has_payload = TRUE]
        /\ rpc = "stored" /\ rpc' = "deliver"
    BY <1>2 DEF StoreEnd, Proceed, Goto
  <2> HIDE DEF i
  <2>2. StoresAt(i)
    BY <1>0, <1>2, <2>1 DEF StoresAt, Retained, Payloads
  <2> QED BY <1>0, <1>2, <2>2
<1>3. CASE StoreBegin /\ (~live["retained"] \/ i = 0)
  BY <1>3 DEF StoreBegin, Proceed, Goto
<1>4. CASE StoreEnd /\ (~live["retained"] \/ i = 0)
  BY <1>4 DEF StoreEnd, Proceed, Goto, Fault, registryVars, routerVars
<1>5. CASE ~StoreBegin /\ ~StoreEnd
  BY <1>5 DEF Routing, Receive, ReceiveReply, RouterStep, FindService, FindTopic, FindAction,
     LookUp, ServeFail, Serve, Reply, Deliver, Act, Fault, Proceed, Goto, registryVars,
     routerVars
<1> QED BY <1>1, <1>2, <1>3, <1>4, <1>5

(* A task leaves every entry where it is and appends at most an empty one  *)
(* for a command that has none.                                            *)
LEMMA TaskAppends ==
  ASSUME TypeOK, NEW t \in Tasks, TaskStep(t)
  PROVE  \/ UNCHANGED retained
         \/ /\ rpc # "stored" /\ Len(retained) \in Nat
            /\ DOMAIN retained = 1..Len(retained)
            /\ DOMAIN retained' = 1..(Len(retained) + 1)
            /\ \A j \in DOMAIN retained : retained'[j] = retained[j]
            /\ retained'[Len(retained) + 1].payload = NoPayload
            /\ \A j \in DOMAIN retained :
                 retained[j].command # retained'[Len(retained) + 1].command
<1>0. retained \in Seq(Retained)
  BY DEF TypeOK, CacheTypeOK
<1>1. CASE UNCHANGED retained
  BY <1>1
<1>2. ASSUME NEW c \in Commands, Find(retained, c) = 0, rpc # "stored",
             retained' = Append(retained, NewEntry(c))
      PROVE  /\ rpc # "stored" /\ Len(retained) \in Nat
             /\ DOMAIN retained = 1..Len(retained)
             /\ DOMAIN retained' = 1..(Len(retained) + 1)
             /\ \A j \in DOMAIN retained : retained'[j] = retained[j]
             /\ retained'[Len(retained) + 1].payload = NoPayload
             /\ \A j \in DOMAIN retained :
                  retained[j].command # retained'[Len(retained) + 1].command
  <2>1. \A j \in DOMAIN retained : retained[j].command # c
    <3>1. Len(retained) \in Nat
      BY <1>0
    <3> QED BY <1>0, <1>2, <3>1, FindIs
  <2>2. NewEntry(c).command = c /\ NewEntry(c).payload = NoPayload
    BY DEF NewEntry
  <2>3. /\ Len(retained) \in Nat
        /\ DOMAIN retained = 1..Len(retained)
        /\ DOMAIN retained' = 1..(Len(retained) + 1)
        /\ \A j \in DOMAIN retained : retained'[j] = retained[j]
        /\ retained'[Len(retained) + 1] = NewEntry(c)
    BY <1>0, <1>2
  <2> QED BY <1>2, <2>1, <2>2, <2>3
<1> QED BY <1>1, <1>2, TaskCache

LEMMA OneEntryStep ==
  ASSUME TypeOK, PacketInHand, OneEntry, [Next]_vars
  PROVE  OneEntry'
<1> USE DEF OneEntry
<1>1. CASE LifeStep
  <2>1. CASE UNCHANGED retained
    BY <2>1
  <2>2. CASE retained' = <<>>
    BY <2>2
  <2> QED BY <1>1, <2>1, <2>2, LifeFrame DEF registryVars, ClearRegistries
<1>2. CASE \E t \in Tasks : TaskStep(t)
  BY <1>2, TaskAppends
<1>3. CASE Routing
  BY <1>3, RoutingStores DEF CacheKept, StoresAt
<1>4. CASE UNCHANGED vars
  BY <1>4 DEF vars, registryVars
<1> QED BY <1>1, <1>2, <1>3, <1>4, NextCases

LEMMA CacheTypes ==
  ASSUME TypeOK, NEW i \in DOMAIN retained
  PROVE  /\ retained[i].command \in Commands
         /\ retained[i].payload \in Payloads
         /\ retained[i].payload.head \in Nat /\ retained[i].payload.tail \in Nat
         /\ retained[i].has_payload \in BOOLEAN
<1>1. retained[i] \in Retained
  BY DEF TypeOK, CacheTypeOK
<1>2. \A n \in 0..MaxMessages : n \in Nat
  BY BoundTypes
<1> QED BY <1>1, <1>2, Zenon DEF Retained, Payloads

LEMMA ArrivedGrows ==
  ASSUME TypeOK, PacketInHand, [Next]_vars
  PROVE  /\ arrived \in Nat /\ arrived' \in Nat /\ arrived <= arrived'
         /\ rpc # "idle" => arrived' = arrived
<1>0. arrived \in Nat /\ arrived \in 0..MaxMessages
  BY BoundTypes DEF TypeOK, RouterTypeOK
<1>1. CASE LifeStep
  BY <1>0, <1>1, LifeFrame
<1>2. CASE \E t \in Tasks : TaskStep(t)
  BY <1>0, <1>2, TaskFrame
<1>3. CASE Routing
  BY <1>0, <1>3, RoutingSteps DEF PacketComes, ReplyComes, RouterMoves
<1>4. CASE UNCHANGED vars
  BY <1>0, <1>4 DEF vars
<1> QED BY <1>1, <1>2, <1>3, <1>4, NextCases

LEMMA StoredWholeStep ==
  ASSUME TypeOK, PacketInHand, OneEntry, StoredWhole, [Next]_vars
  PROVE  StoredWhole'
<1> USE DEF StoredWhole
<1> DEFINE Good == StoredWhole'
<1> SUFFICES Good
  OBVIOUS
<1>0. arrived \in Nat /\ arrived' \in Nat /\ arrived <= arrived'
  BY ArrivedGrows
<1>n. \A i \in DOMAIN retained : retained[i].payload.head \in Nat
  BY CacheTypes
<1>1. CASE LifeStep
  <2>1. UNCHANGED <<routerVars, arrived>>
    BY <1>1, LifeFrame
  <2>2. UNCHANGED retained \/ retained' = <<>>
    BY <1>1, LifeFrame DEF registryVars, ClearRegistries
  <2> QED BY <2>1, <2>2 DEF routerVars
<1>2. CASE \E t \in Tasks : TaskStep(t)
  <2>0. PICK t \in Tasks : TaskStep(t)
    BY <1>2
  <2>1. UNCHANGED <<rpc, packet, arrived>>
    BY <2>0, TaskFrame DEF routerVars
  <2>2. NoPayload.head = 0 /\ NoPayload.tail = 0
    BY DEF NoPayload
  <2> QED BY <1>0, <2>0, <2>1, <2>2, TaskAppends
<1>3. CASE Routing
  <2>1. CASE CacheKept
    <3>1. rpc = "stored" /\ rpc' # "stored" =>
            \A i \in DOMAIN retained : retained[i].command # packet.command
      <4>1. retained \in Seq(Retained) /\ Len(retained) \in Nat
        BY DEF TypeOK, CacheTypeOK
      <4>2. Find(retained, packet.command) = 0 =>
              \A i \in DOMAIN retained : retained[i].command # packet.command
        BY <4>1, FindIs
      <4> QED BY <2>1, <4>2 DEF CacheKept
    <3>2. rpc' = "stored" => rpc = "stored" /\ packet' = packet
      BY <1>3, <2>1, RoutingSteps
         DEF CacheKept, PacketComes, ReplyComes, RouterMoves, PacketMoves, routerVars
    <3> QED BY <1>0, <1>n, <2>1, <3>1, <3>2 DEF CacheKept
  <2>2. ASSUME NEW i \in DOMAIN retained, StoresAt(i) PROVE Good
    <3>1. rpc \in {"store", "stored"} /\ rpc' \in {"stored", "deliver"}
      BY <2>2 DEF StoresAt
    <3>2. packet' = packet /\ packet.id = arrived
      BY <1>3, <3>1, RoutingSteps
         DEF PacketComes, ReplyComes, RouterMoves, PacketMoves, PacketInHand
    <3>3. \A j \in DOMAIN retained : j # i =>
            /\ retained'[j] = retained[j]
            /\ retained[j].payload.head <= arrived'
      BY <1>0, <1>n, <2>2 DEF StoresAt
    <3>4. \A j \in DOMAIN retained : j # i => retained[j].command # packet.command
      BY <2>2 DEF StoresAt, OneEntry
    <3> QED BY <1>0, <1>n, <2>2, <3>1, <3>2, <3>3, <3>4 DEF StoresAt
  <2> QED BY <1>3, <2>1, <2>2, RoutingStores
<1>4. CASE UNCHANGED vars
  BY <1>4 DEF vars, routerVars, registryVars
<1> QED BY <1>1, <1>2, <1>3, <1>4, NextCases

(* retained_mutex_ comes to life with an empty cache only. *)
LEMMA LiveRetained ==
  ASSUME TypeOK, LifeStep, live'["retained"]
  PROVE  ClearRegistries \/ (live["retained"] /\ UNCHANGED <<registryVars, seenVars>>)
<1>0. live \in [Mutexes -> BOOLEAN] /\ "retained" \in Mutexes
  BY DEF TypeOK, LifeTypeOK, Mutexes
<1>1. CASE InitMutexes
  BY <1>1 DEF InitMutexes
<1>2. CASE DeinitClear
  BY <1>2 DEF DeinitClear
<1>3. CASE ~InitMutexes /\ ~DeinitClear
  BY <1>0, <1>3 DEF LifeStep, InitNoMemory, InitTransactionsFail, InitRegister, Start, Stop,
     DeinitMutexes
<1> QED BY <1>1, <1>2, <1>3

LEMMA DueStoredStep ==
  ASSUME TypeOK, PacketInHand, OneEntry, StoredWhole, DueStored, [Next]_vars
  PROVE  DueStored'
<1> SUFFICES ASSUME due', live'["retained"]
             PROVE  \E i \in DOMAIN retained' :
                      /\ retained'[i].command = packet'.command
                      /\ rpc' = "deliver" =>
                           /\ retained'[i].payload.head = packet'.id
                           /\ retained'[i].has_payload
  BY DEF DueStored
<1> DEFINE Good == \E i \in DOMAIN retained' :
                     /\ retained'[i].command = packet'.command
                     /\ rpc' = "deliver" =>
                          /\ retained'[i].payload.head = packet'.id
                          /\ retained'[i].has_payload
<1> SUFFICES Good
  OBVIOUS
<1>1. CASE LifeStep
  <2>1. live["retained"] /\ UNCHANGED <<registryVars, seenVars>>
    BY <1>1, LiveRetained DEF ClearRegistries
  <2>2. UNCHANGED routerVars
    BY <1>1, LifeFrame
  <2> QED BY <2>1, <2>2 DEF DueStored, registryVars, seenVars, routerVars
<1>2. CASE \E t \in Tasks : TaskStep(t)
  <2>0. PICK t \in Tasks : TaskStep(t)
    BY <1>2
  <2>1. UNCHANGED <<rpc, packet, due, live>>
    BY <2>0, TaskFrame DEF routerVars, seenVars, lifeVars
  <2>2. PICK i \in DOMAIN retained :
          /\ retained[i].command = packet.command
          /\ rpc = "deliver" =>
               retained[i].payload.head = packet.id /\ retained[i].has_payload
    BY <2>1 DEF DueStored
  <2>3. i \in DOMAIN retained' /\ retained'[i] = retained[i]
    BY <2>0, TaskAppends
  <2> QED BY <2>1, <2>2, <2>3
<1>3. CASE Routing
  <2>0. UNCHANGED live
    BY <1>3, RoutingFrame DEF lifeVars
  <2>1. CASE PacketComes
    <3>1. Find(retained, packet'.command) # 0 /\ UNCHANGED retained /\ rpc' # "deliver"
      BY <2>1 DEF PacketComes
    <3>2. retained \in Seq(Retained)
      BY DEF TypeOK, CacheTypeOK
    <3>3. /\ Find(retained, packet'.command) \in DOMAIN retained
          /\ retained[Find(retained, packet'.command)].command = packet'.command
      BY <3>1, <3>2, FindRange
    <3> QED BY <3>1, <3>3
  <2>2. CASE ReplyComes
    BY <2>2 DEF ReplyComes, PacketInHand, routerVars, seenVars
  <2>3. CASE RouterMoves
    <3>1. packet' = packet /\ due
      BY <2>3 DEF RouterMoves, PacketMoves
    <3>2. PICK i \in DOMAIN retained :
            /\ retained[i].command = packet.command
            /\ rpc = "deliver" =>
                 retained[i].payload.head = packet.id /\ retained[i].has_payload
      BY <2>0, <3>1 DEF DueStored
    <3>3. CASE CacheKept
      <4>1. Find(retained, packet.command) # 0
        <5>1. retained \in Seq(Retained)
          BY DEF TypeOK, CacheTypeOK
        <5> QED BY <3>2, <5>1, FindIs
      <4>2. UNCHANGED retained /\ (rpc' = "deliver" => rpc = "deliver")
        BY <2>0, <3>3, <4>1 DEF CacheKept
      <4> QED BY <3>1, <3>2, <4>2
    <3>4. ASSUME NEW j \in DOMAIN retained, StoresAt(j) PROVE Good
      <4>1. /\ j \in DOMAIN retained' /\ retained'[j].command = packet'.command
        BY <3>1, <3>4 DEF StoresAt
      <4>2. rpc' = "deliver" =>
              retained'[j].payload.head = packet'.id /\ retained'[j].has_payload
        <5>1. rpc' = "deliver" =>
                /\ rpc = "stored" /\ retained'[j].payload.head = retained[j].payload.head
                /\ retained'[j].has_payload = TRUE
                /\ retained[j].command = packet.command
          BY <3>4 DEF StoresAt
        <5>2. rpc' = "deliver" => retained[j].payload.head = packet.id
          BY <5>1 DEF StoredWhole
        <5> QED BY <3>1, <5>1, <5>2
      <4> QED BY <4>1, <4>2
    <3> QED BY <1>3, <3>3, <3>4, RoutingStores
  <2> QED BY <1>3, <2>1, <2>2, <2>3, RoutingSteps
<1>4. CASE UNCHANGED vars
  BY <1>4 DEF DueStored, vars, lifeVars, routerVars, registryVars, seenVars
<1> QED BY <1>1, <1>2, <1>3, <1>4, NextCases

LEMMA SeenArrivedStep ==
  ASSUME TypeOK, PacketInHand, SeenArrived, [Next]_vars
  PROVE  SeenArrived'
<1> USE DEF SeenArrived
<1>0. /\ arrived \in Nat /\ arrived' \in Nat /\ arrived <= arrived'
      /\ seen \in [Commands -> 0..MaxMessages] /\ MaxMessages \in Nat
  BY ArrivedGrows, BoundTypes DEF TypeOK, SeenTypeOK
<1>n. \A c \in Commands : seen[c] \in Nat
  BY <1>0
<1>1. CASE UNCHANGED seen
  BY <1>0, <1>n, <1>1
<1>2. CASE ClearRegistries
  BY <1>0, <1>2 DEF ClearRegistries
<1>3. CASE Routing /\ ~ UNCHANGED seen
  <2>1. rpc = "deliver" /\ seen' = [seen EXCEPT ![packet.command] = packet.id]
    BY <1>3, RoutingCallbacks DEF SeenMoves
  <2>2. packet.id <= arrived
    BY <1>0, <2>1 DEF PacketInHand
  <2>3. packet.id \in Nat
    BY <2>1, PacketTypes DEF PacketInHand
  <2> QED BY <1>0, <1>n, <2>1, <2>2, <2>3
<1> QED BY <1>1, <1>2, <1>3, NextCases, LifeFrame, TaskFrame DEF seenVars, vars

LEMMA CachedStep ==
  ASSUME TypeOK, PacketInHand, OneEntry, StoredWhole, DueStored, SeenArrived,
         CachedBeforeHandled, [Next]_vars
  PROVE  CachedBeforeHandled'
<1> SUFFICES ASSUME NEW c \in Commands, live'["retained"], seen'[c] # 0
             PROVE  \E i \in DOMAIN retained' :
                      /\ retained'[i].command = c
                      /\ retained'[i].has_payload
                      /\ retained'[i].payload.head >= seen'[c]
  BY DEF CachedBeforeHandled
<1> DEFINE Good == \E i \in DOMAIN retained' :
                     /\ retained'[i].command = c
                     /\ retained'[i].has_payload
                     /\ retained'[i].payload.head >= seen'[c]
<1> SUFFICES Good
  OBVIOUS
<1>1. CASE LifeStep
  <2>1. live["retained"] /\ UNCHANGED <<registryVars, seenVars>>
    BY <1>1, LiveRetained DEF ClearRegistries
  <2> QED BY <2>1 DEF CachedBeforeHandled, registryVars, seenVars
<1>2. CASE \E t \in Tasks : TaskStep(t)
  <2>0. PICK t \in Tasks : TaskStep(t)
    BY <1>2
  <2>1. UNCHANGED <<seen, live>>
    BY <2>0, TaskFrame DEF seenVars, lifeVars
  <2>2. PICK i \in DOMAIN retained : /\ retained[i].command = c
                                     /\ retained[i].has_payload
                                     /\ retained[i].payload.head >= seen[c]
    BY <2>1 DEF CachedBeforeHandled
  <2>3. i \in DOMAIN retained' /\ retained'[i] = retained[i]
    BY <2>0, TaskAppends
  <2> QED BY <2>1, <2>2, <2>3
<1>3. CASE Routing
  <2>0. UNCHANGED live
    BY <1>3, RoutingFrame DEF lifeVars
  <2>1. CASE UNCHANGED seen
    <3>1. PICK i \in DOMAIN retained : /\ retained[i].command = c
                                       /\ retained[i].has_payload
                                       /\ retained[i].payload.head >= seen[c]
      BY <2>0, <2>1 DEF CachedBeforeHandled
    <3>2. CASE CacheKept
      BY <2>1, <3>1, <3>2 DEF CacheKept
    <3>3. ASSUME NEW j \in DOMAIN retained, StoresAt(j) PROVE Good
      <4>1. CASE i # j
        BY <2>1, <3>1, <3>3, <4>1 DEF StoresAt
      <4>2. CASE i = j /\ rpc = "stored"
        BY <2>1, <3>1, <3>3, <4>2 DEF StoresAt
      <4>3. CASE i = j /\ rpc = "store"
        <5>1. retained'[i].payload.head = arrived /\ retained'[i].command = c
              /\ retained'[i].has_payload /\ i \in DOMAIN retained'
          BY <3>1, <3>3, <4>3 DEF StoresAt, PacketInHand
        <5>2. arrived >= seen[c]
          <6>1. arrived \in Nat /\ seen[c] \in Nat
            BY ArrivedGrows, BoundTypes DEF TypeOK, SeenTypeOK
          <6> QED BY <6>1 DEF SeenArrived
        <5> QED BY <2>1, <5>1, <5>2
      <4> QED BY <3>3, <4>1, <4>2, <4>3 DEF StoresAt
    <3> QED BY <1>3, <3>2, <3>3, RoutingStores
  <2>2. CASE ~ UNCHANGED seen
    <3>1. rpc = "deliver" /\ due /\ seen' = [seen EXCEPT ![packet.command] = packet.id]
      BY <1>3, <2>2, RoutingCallbacks DEF SeenMoves
    <3>2. PICK i \in DOMAIN retained : /\ retained[i].command = packet.command
                                       /\ retained[i].payload.head = packet.id
                                       /\ retained[i].has_payload
      BY <2>0, <3>1 DEF DueStored
    <3>3. retained' = retained
      BY <1>3, <3>1, RoutingStores DEF CacheKept, StoresAt
    <3>4. seen \in [Commands -> 0..MaxMessages] /\ packet.id \in Nat
      BY <3>1, PacketTypes DEF TypeOK, SeenTypeOK, PacketInHand
    <3>5. CASE c = packet.command
      BY <3>1, <3>2, <3>3, <3>4, <3>5
    <3>6. CASE c # packet.command
      BY <2>0, <3>1, <3>3, <3>4, <3>6 DEF CachedBeforeHandled
    <3> QED BY <3>5, <3>6
  <2> QED BY <2>1, <2>2
<1>4. CASE UNCHANGED vars
  BY <1>4 DEF CachedBeforeHandled, vars, lifeVars, registryVars, seenVars
<1> QED BY <1>1, <1>2, <1>3, <1>4, NextCases

(* What GetLast copies: the one entry of its command, whole. *)
LEMMA ReadsWhole ==
  ASSUME TypeOK, StoredWhole, NEW c \in Commands, rpc # "stored", Find(retained, c) # 0
  PROVE  /\ Find(retained, c) \in DOMAIN retained
         /\ retained[Find(retained, c)].command = c
         /\ retained[Find(retained, c)].payload \in Payloads
         /\ retained[Find(retained, c)].payload.head \in Nat
         /\ retained[Find(retained, c)].payload.head = retained[Find(retained, c)].payload.tail
<1>1. retained \in Seq(Retained)
  BY DEF TypeOK, CacheTypeOK
<1>2. Find(retained, c) \in DOMAIN retained /\ retained[Find(retained, c)].command = c
  BY <1>1, FindRange
<1> QED BY <1>2, CacheTypes DEF StoredWhole

LEMMA GotBehindStep ==
  ASSUME TypeOK, PacketInHand, StoredWhole, GotBehind, [Next]_vars
  PROVE  GotBehind'
<1> SUFFICES ASSUME NEW u \in Tasks, NEW d \in Commands
             PROVE  /\ got'[u][d].head = got'[u][d].tail
                    /\ got'[u][d].head # 0 =>
                         \E i \in DOMAIN retained' :
                           /\ retained'[i].command = d
                           /\ retained'[i].payload.head >= got'[u][d].head
  BY DEF GotBehind
<1> DEFINE Good == /\ got'[u][d].head = got'[u][d].tail
                   /\ got'[u][d].head # 0 =>
                        \E i \in DOMAIN retained' :
                          /\ retained'[i].command = d
                          /\ retained'[i].payload.head >= got'[u][d].head
<1> SUFFICES Good
  OBVIOUS
<1>0. /\ got \in [Tasks -> [Commands -> Payloads]]
      /\ got[u][d].head = got[u][d].tail
  BY DEF GotBehind, TypeOK, CacheTypeOK
<1>1. CASE LifeStep
  <2>1. CASE UNCHANGED <<registryVars, seenVars, got>>
    BY <2>1 DEF GotBehind, registryVars
  <2>2. CASE ClearRegistries
    BY <2>2 DEF ClearRegistries, Nothing, NoPayload
  <2> QED BY <1>1, <2>1, <2>2, LifeFrame
<1>2. CASE \E t \in Tasks : TaskStep(t)
  <2>0. PICK t \in Tasks : TaskStep(t)
    BY <1>2
  <2>1. \A i \in DOMAIN retained : i \in DOMAIN retained' /\ retained'[i] = retained[i]
    BY <2>0, TaskAppends
  <2>2. CASE UNCHANGED got
    BY <2>1, <2>2 DEF GotBehind
  <2>3. ASSUME NEW c \in Commands, rpc # "stored", Find(retained, c) # 0,
               got' = [got EXCEPT ![t][c] = retained[Find(retained, c)].payload]
        PROVE  Good
    <3> DEFINE i == Find(retained, c)
    <3>1. /\ i \in DOMAIN retained /\ retained[i].command = c
          /\ retained[i].payload.head \in Nat
          /\ retained[i].payload.head = retained[i].payload.tail
      BY <2>3, ReadsWhole
    <3>2. CASE t = u /\ c = d
      <4>1. got'[u][d] = retained[i].payload
        BY <1>0, <2>3, <3>2
      <4> HIDE DEF i
      <4> QED BY <2>1, <3>1, <3>2, <4>1
    <3>3. CASE ~(t = u /\ c = d)
      <4>1. got'[u][d] = got[u][d]
        BY <1>0, <2>3, <3>3
      <4> QED BY <2>1, <4>1 DEF GotBehind
    <3> QED BY <3>2, <3>3
  <2> QED BY <2>0, <2>2, <2>3, TaskCache
<1>3. CASE Routing
  <2>1. UNCHANGED got
    BY <1>3, RoutingFrame
  <2>2. CASE got[u][d].head = 0
    BY <1>0, <2>1, <2>2
  <2>3. CASE got[u][d].head # 0
    <3>1. PICK i \in DOMAIN retained : /\ retained[i].command = d
                                       /\ retained[i].payload.head >= got[u][d].head
      BY <2>3 DEF GotBehind
    <3>2. CASE CacheKept
      BY <1>0, <2>1, <3>1, <3>2 DEF CacheKept
    <3>3. ASSUME NEW j \in DOMAIN retained, StoresAt(j) PROVE Good
      <4>1. CASE i # j \/ rpc = "stored"
        BY <1>0, <2>1, <3>1, <3>3, <4>1 DEF StoresAt
      <4>2. CASE i = j /\ rpc = "store"
        <5>1. /\ retained'[i].payload.head = arrived /\ retained'[i].command = d
              /\ i \in DOMAIN retained'
          BY <3>1, <3>3, <4>2 DEF StoresAt, PacketInHand
        <5>2. got[u][d].head \in Nat
          <6>1. got[u][d] \in Payloads
            BY <1>0
          <6> QED BY <6>1, BoundTypes DEF Payloads
        <5>3. arrived >= got[u][d].head
          BY <3>1, <5>2, ArrivedGrows, CacheTypes DEF StoredWhole
        <5> QED BY <1>0, <2>1, <5>1, <5>3
      <4> QED BY <3>3, <4>1, <4>2 DEF StoresAt
    <3> QED BY <1>3, <3>2, <3>3, RoutingStores
  <2> QED BY <2>2, <2>3
<1>4. CASE UNCHANGED vars
  BY <1>4 DEF GotBehind, vars, registryVars
<1> QED BY <1>1, <1>2, <1>3, <1>4, NextCases

(* The step of ReadsAdvance. *)
LEMMA ReadStep ==
  ASSUME TypeOK, PacketInHand, OneEntry, StoredWhole, GotBehind, [Next]_vars,
         NEW u \in Tasks, NEW d \in Commands, got'[u][d] \notin {NoPayload, got[u][d]}
  PROVE  got'[u][d].head = got'[u][d].tail /\ got'[u][d].head > got[u][d].head
<1>0. got \in [Tasks -> [Commands -> Payloads]]
  BY DEF TypeOK, CacheTypeOK
<1>1. ASSUME LifeStep PROVE FALSE
  <2>1. CASE UNCHANGED got
    BY <2>1
  <2>2. CASE ClearRegistries
    <3>1. got' = [t \in Tasks |-> Nothing]
      BY <2>2 DEF ClearRegistries
    <3>2. got'[u][d] = NoPayload
      BY <3>1 DEF Nothing
    <3> QED BY <3>2
  <2> QED BY <1>1, <2>1, <2>2, LifeFrame
<1>2. ASSUME Routing PROVE FALSE
  BY <1>2, RoutingFrame
<1>3. ASSUME UNCHANGED vars PROVE FALSE
  BY <1>3 DEF vars
<1>4. PICK t \in Tasks : TaskStep(t)
  BY <1>1, <1>2, <1>3, NextCases
<1>5. PICK c \in Commands :
        /\ rpc # "stored" /\ Find(retained, c) # 0
        /\ got' = [got EXCEPT ![t][c] = retained[Find(retained, c)].payload]
  BY <1>4, TaskCache
<1>6. t = u /\ c = d
  BY <1>0, <1>5
<1> DEFINE i == Find(retained, d)
<1>7. got'[u][d] = retained[i].payload
  BY <1>0, <1>5, <1>6
<1>8. /\ i \in DOMAIN retained /\ retained[i].command = d
      /\ retained[i].payload \in Payloads /\ retained[i].payload.head \in Nat
      /\ retained[i].payload.head = retained[i].payload.tail
  BY <1>5, <1>6, ReadsWhole
<1> HIDE DEF i
<1>9. got[u][d] \in Payloads /\ got[u][d].head = got[u][d].tail
  BY <1>0 DEF GotBehind
<1>10. got[u][d].head \in Nat
  BY <1>9, BoundTypes DEF Payloads
<1>11. got[u][d].head <= retained[i].payload.head
  <2>1. CASE got[u][d].head = 0
    BY <1>8, <2>1
  <2>2. CASE got[u][d].head # 0
    BY <1>8, <1>10, <2>2 DEF GotBehind, OneEntry
  <2> QED BY <2>1, <2>2
<1>12. got[u][d].head # retained[i].payload.head
  <2>1. \A p, q \in Payloads : p.head = q.head /\ p.tail = q.tail => p = q
    BY DEF Payloads
  <2> QED BY <1>7, <1>8, <1>9, <2>1
<1> QED BY <1>7, <1>8, <1>10, <1>11, <1>12

-----------------------------------------------------------------------------
(* The theorems. *)

LEMMA InitIInv == Init => IInv
<1> SUFFICES ASSUME Init PROVE IInv
  OBVIOUS
<1> USE DEF Init
<1>1. LifeTypeOK
  <2>1. /\ initialized \in BOOLEAN /\ running \in BOOLEAN /\ auto_reply \in BOOLEAN
        /\ hooked \in BOOLEAN /\ fault \in BOOLEAN /\ exposed \in BOOLEAN
    BY Zenon
  <2> QED BY <2>1 DEF LifeTypeOK
<1>2. RegistryTypeOK
  BY BoundTypes DEF RegistryTypeOK
<1>3. CacheTypeOK
  <2>1. NoPayload \in Payloads
    BY BoundTypes DEF NoPayload, Payloads
  <2>2. Nothing \in [Commands -> Payloads]
    BY <2>1 DEF Nothing
  <2> QED BY <2>2, BoundTypes DEF CacheTypeOK
<1>4. RouterTypeOK
  BY BoundTypes DEF RouterTypeOK
<1>5. SeenTypeOK
  <2>1. due \in BOOLEAN
    BY Zenon
  <2> QED BY <2>1, BoundTypes DEF SeenTypeOK
<1>6. /\ PacketInHand /\ HookedLast /\ FaultOnlyIfExposed /\ EntryFound /\ PassedOver
      /\ LiveWhenInitialized /\ EntryThere
  BY DEF PacketInHand, HookedLast, FaultOnlyIfExposed, EntryFound, PassedOver,
     LiveWhenInitialized, EntryThere
<1>7. KindsApart /\ HandlerFirst /\ OneEntry /\ StoredWhole /\ DueStored
  BY DEF KindsApart, HandlerFirst, OneEntry, StoredWhole, DueStored
<1>8. GotBehind /\ SeenArrived /\ CachedBeforeHandled
  BY DEF GotBehind, SeenArrived, CachedBeforeHandled, Nothing, NoPayload
<1> QED BY <1>1, <1>2, <1>3, <1>4, <1>5, <1>6, <1>7, <1>8 DEF IInv, TypeOK

LEMMA NextIInv == IInv /\ [Next]_vars => IInv'
<1> SUFFICES ASSUME IInv, [Next]_vars PROVE IInv'
  OBVIOUS
<1> USE DEF IInv
<1>1. TypeOK'
  BY LifeTypeStep, RegistryTypeStep, CacheTypeStep, RouterTypeStep, SeenTypeStep DEF TypeOK
<1>2. /\ PacketInHand' /\ HookedLast' /\ FaultOnlyIfExposed'
      /\ LiveWhenInitialized' /\ EntryThere'
  BY RouterTypeStep, HookedLastStep, FaultStep, LiveStep, EntryThereStep
<1>3. EntryFound' /\ KindsApart' /\ HandlerFirst' /\ PassedOver'
  BY EntryFoundStep, KindsApartStep, HandlerFirstStep, PassedOverStep
<1>4. OneEntry' /\ StoredWhole' /\ DueStored' /\ GotBehind' /\ SeenArrived'
  BY OneEntryStep, StoredWholeStep, DueStoredStep, GotBehindStep, SeenArrivedStep
<1>5. CachedBeforeHandled'
  BY CachedStep
<1> QED BY <1>1, <1>2, <1>3, <1>4, <1>5

LEMMA Invariant == Spec => []IInv
BY InitIInv, NextIInv, PTL DEF Spec

(* Every variable has its type, whatever the tasks, commands and bounds:   *)
(* no registry and no cache outgrows its array.                            *)
THEOREM TypeCorrect == Spec => []TypeOK
<1>1. IInv => TypeOK
  BY DEF IInv
<1> QED BY <1>1, Invariant, PTL

(* The router finds every mutex and every entry it needs, but for a packet *)
(* that came between a deinit() and the return of the next init() or was   *)
(* in its hands when deinit() came: the callback is registered last and    *)
(* initialized_ reset last.                                                *)
THEOREM RouterFindsAll == Spec => []FaultOnlyIfExposed
<1>1. IInv => FaultOnlyIfExposed
  BY DEF IInv
<1> QED BY <1>1, Invariant, PTL

(* store_if_retained() runs before the callback: what get_last() gives is  *)
(* never older than what a subscriber of a marked command has seen.        *)
THEOREM CacheNotBehind == Spec => []CachedBeforeHandled
<1>1. IInv => CachedBeforeHandled
  BY DEF IInv
<1> QED BY <1>1, Invariant, PTL

(* The endpoint that handles a command gives way only to one of a registry *)
(* that route_packet() searches earlier.                                   *)
THEOREM HandlersStay == Spec => HandlerStable
<1>1. IInv /\ [Next]_vars =>
        [\A c \in Commands :
           deinits = 0 /\ handledBy[c] # None /\ handledBy'[c] # handledBy[c]
           => Rank(handledBy'[c]) < Rank(handledBy[c])]_vars
  BY HandlerStep DEF IInv
<1> QED BY <1>1, Invariant, PTL DEF Spec, HandlerStable

(* get_last() gives whole messages, and newer ones every time. *)
THEOREM ReadsInOrder == Spec => ReadsAdvance
<1>1. IInv /\ [Next]_vars =>
        [\A t \in Tasks, c \in Commands :
           got'[t][c] \notin {NoPayload, got[t][c]} =>
             /\ got'[t][c].head = got'[t][c].tail
             /\ got'[t][c].head > got[t][c].head]_vars
  BY ReadStep DEF IInv
<1> QED BY <1>1, Invariant, PTL DEF Spec, ReadsAdvance
=============================================================================
