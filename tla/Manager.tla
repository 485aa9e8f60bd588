------------------------------ MODULE Manager ------------------------------
(***************************************************************************)
(* SerialCommManager: the registries of services, topics and actions, the  *)
(* routing of received packets to them, the last-value cache of @retain    *)
(* topics and the lifecycle, with the endpoints of service.h, topic.h and  *)
(* action.h.                                                               *)
(*                                                                         *)
(* The dispatcher task routes one packet at a time (the actions of         *)
(* RouterStep); application tasks register endpoints, publish and read the *)
(* cache; one more task initializes and deinitializes the manager.  What   *)
(* is done under registry_mutex_ or retained_mutex_ is one step, but for   *)
(* the store into the cache, which is two, so that a reader can meet it.   *)
(* Waiting replies and calls are module Transactions.                      *)
(***************************************************************************)
EXTENDS Naturals, Sequences, SequencesExt

CONSTANTS
  Tasks,         \* the application tasks
  Commands,      \* the command bytes in use, without the reply bit
  MaxServices, MaxTopics, MaxActions,   \* the sizes of the registries
  MaxRetained,   \* MAX_RETAINED
  MaxCreates,    \* bound: endpoints created in one behaviour
  MaxMessages,   \* bound: packets received in one behaviour
  MaxInits, MaxDeinits,   \* bounds: calls of init() and deinit()
  None

VARIABLES
  initialized, running, auto_reply,
  live,        \* live[m]: the handle of mutex m is not null
  lpc,         \* where init() or deinit() is
  hooked,      \* serial_packet_callback is registered for the commands
  services, topics, actions,   \* the used entries, in the order of their slots
  retained,    \* the registered entries of retained_
  tpc,         \* tpc[t]: the command t is about to pass to mark_retained()
  rpc, packet, entry, response,   \* route_packet(): its step and its locals
  sent,        \* packets handed to serial_->send()
  created, arrived, inits,        \* history: counters of the bounds
  due,         \* history: packet's command had a cache entry when it came
  seen,        \* seen[c]: history: the last due packet a callback was given
  handledBy,   \* handledBy[c]: history: the endpoint that last handled c
  got,         \* got[t]: history: what get_last() last gave t, by command
  deinits,     \* history: calls of deinit()
  exposed,     \* history: the packet came when the manager was not initialized,
               \* or met a deinit()
  fault        \* history: a null handle was taken or a cleared entry used

lifeVars == <<initialized, running, auto_reply, live, lpc, hooked>>
registryVars == <<services, topics, actions, retained>>
routerVars == <<rpc, packet, entry, response>>
countVars == <<inits, deinits>>
seenVars == <<due, seen, handledBy>>
vars == <<lifeVars, registryVars, tpc, routerVars, sent, created, arrived,
          seenVars, got, countVars, fault, exposed>>

Mutexes == {"seq", "registry", "retained"}

(* A registry entry; id tells the endpoints of a command apart. *)
Endpoints ==
  [id : 1..MaxCreates, command : Commands,
   kind : {"service", "publisher", "subscription", "action"}]

(* The halves of a payload; they are those of one message unless a copy is *)
(* torn.  No message is 0.                                                 *)
Payloads == [head : 0..MaxMessages, tail : 0..MaxMessages]
NoPayload == [head |-> 0, tail |-> 0]
Whole(n) == [head |-> n, tail |-> n]

Packets == [id : 1..MaxMessages, command : Commands]
Outgoing == [command : Commands, reply : BOOLEAN, seq_id : 0..MaxMessages,
             payload : Payloads]
Retained == [command : Commands, payload : Payloads, has_payload : BOOLEAN]

ASSUME ManagerAssumption ==
  /\ {MaxServices, MaxTopics, MaxActions, MaxRetained, MaxMessages} \subseteq Nat \ {0}
  /\ {MaxCreates, MaxInits, MaxDeinits} \subseteq Nat
  /\ None \notin Tasks \cup Commands
  /\ None \notin Endpoints \cup Packets \cup Outgoing

(* Mutant: the search runs from the end. *)
Find_Last(S, c) == LET Is(e) == e.command = c IN SelectLastInSeq(S, Is)

(* find_service() and its like, and the cache: the first entry of command  *)
(* c, 0 for none.                                                          *)
Find(S, c) == LET Is(e) == e.command = c IN SelectInSeq(S, Is)

Nothing == [c \in Commands |-> NoPayload]

(* clear_registries() and what has been observed of the endpoints. *)
ClearRegistries ==
  /\ services' = <<>> /\ topics' = <<>> /\ actions' = <<>> /\ retained' = <<>>
  /\ due' = FALSE
  /\ seen' = [c \in Commands |-> 0]
  /\ handledBy' = [c \in Commands |-> None]
  /\ got' = [t \in Tasks |-> Nothing]

Init ==
  /\ initialized = FALSE /\ running = FALSE /\ auto_reply = TRUE
  /\ live = [m \in Mutexes |-> FALSE]
  /\ lpc = "idle"
  /\ hooked = FALSE
  /\ services = <<>> /\ topics = <<>> /\ actions = <<>> /\ retained = <<>>
  /\ tpc = [t \in Tasks |-> None]
  /\ rpc = "idle" /\ packet = None /\ entry = 0 /\ response = None
  /\ sent = {}
  /\ created = 0 /\ arrived = 0 /\ inits = 0
  /\ due = FALSE
  /\ seen = [c \in Commands |-> 0]
  /\ handledBy = [c \in Commands |-> None]
  /\ got = [t \in Tasks |-> Nothing]
  /\ deinits = 0
  /\ exposed = FALSE
  /\ fault = FALSE

-----------------------------------------------------------------------------
(* init(), start(), stop(), deinit(). *)

(* A mutex cannot be created: those created before it are deleted.  The    *)
(* handle of the third is overwritten only when it was its turn.  (cfg_ is *)
(* set too, and set again before it is used.)                              *)
InitNoMemory ==
  /\ lpc = "idle" /\ ~initialized
  /\ inits < MaxInits
  /\ inits' = inits + 1
  /\ live' \in {[m \in Mutexes |-> FALSE], [live EXCEPT !["seq"] = FALSE, !["registry"] = FALSE]}
  /\ UNCHANGED <<initialized, running, auto_reply, lpc, hooked, registryVars, tpc,
                 routerVars, sent, created, arrived, seenVars, got, deinits, fault,
                 exposed>>

InitMutexes ==
  /\ lpc = "idle" /\ ~initialized
  /\ inits < MaxInits
  /\ inits' = inits + 1
  /\ auto_reply' \in BOOLEAN
  /\ live' = [m \in Mutexes |-> TRUE]
  /\ ClearRegistries
  /\ lpc' = "transactions"
  /\ UNCHANGED <<initialized, running, hooked, tpc, routerVars, sent, created, arrived,
                 deinits, fault, exposed>>

(* transactions_.init() fails: retained_mutex_ is not deleted. *)
InitTransactionsFail ==
  /\ lpc = "transactions"
  /\ live' = [live EXCEPT !["seq"] = FALSE, !["registry"] = FALSE]
  /\ lpc' = "idle"
  /\ UNCHANGED <<initialized, running, auto_reply, hooked, registryVars, tpc,
                 routerVars, sent, created, arrived, seenVars, got, inits, deinits,
                 fault, exposed>>

(* transactions_.init() succeeds and serial_packet_callback is registered  *)
(* for every command.                                                      *)
InitRegister ==
  /\ lpc = "transactions"
  /\ hooked' = TRUE
  /\ initialized' = TRUE
  /\ lpc' = "idle"
  /\ UNCHANGED <<running, auto_reply, live, registryVars, tpc, routerVars, sent,
                 created, arrived, seenVars, got, countVars, fault, exposed>>

Start ==
  /\ initialized /\ ~running
  /\ running' = TRUE
  /\ UNCHANGED <<initialized, auto_reply, live, lpc, hooked, registryVars, tpc,
                 routerVars, sent, created, arrived, seenVars, got, countVars, fault,
                 exposed>>

Stop ==
  /\ running
  /\ running' = FALSE
  /\ UNCHANGED <<initialized, auto_reply, live, lpc, hooked, registryVars, tpc,
                 routerVars, sent, created, arrived, seenVars, got, countVars, fault,
                 exposed>>

(* deinit(), whatever the state: stop(), the mutexes deleted, ... *)
DeinitMutexes ==
  /\ lpc = "idle"
  /\ deinits < MaxDeinits
  /\ deinits' = deinits + 1
  /\ exposed' = TRUE
  /\ running' = FALSE
  /\ live' = [m \in Mutexes |-> FALSE]
  /\ lpc' = "clear"
  /\ UNCHANGED <<initialized, auto_reply, hooked, registryVars, tpc, routerVars, sent,
                 created, arrived, seenVars, got, inits, fault>>

(* Mutant: initialized_ is not reset. *)
DeinitClear_KeepsFlag ==
  /\ lpc = "clear"
  /\ ClearRegistries
  /\ lpc' = "idle"
  /\ UNCHANGED <<initialized, running, auto_reply, live, hooked, tpc, routerVars, sent,
                 created, arrived, countVars, fault, exposed>>

(* ... and the registries cleared.  The packet callback stays registered. *)
DeinitClear ==
  /\ lpc = "clear"
  /\ ClearRegistries
  /\ initialized' = FALSE
  /\ lpc' = "idle"
  /\ UNCHANGED <<running, auto_reply, live, hooked, tpc, routerVars, sent, created,
                 arrived, countVars, fault, exposed>>

LifeStep ==
  \/ InitNoMemory \/ InitMutexes \/ InitTransactionsFail \/ InitRegister
  \/ Start \/ Stop \/ DeinitMutexes \/ DeinitClear

-----------------------------------------------------------------------------
(* The application tasks.  A create that meets a full registry returns     *)
(* ERR_NO_MEMORY and changes nothing: it is not an action.                 *)

(* Mutant: the bounds check lets one more through. *)
Register_OneMore(t, registry, max, c, kind) ==
  /\ initialized /\ live["registry"]
  /\ tpc[t] = None
  /\ created < MaxCreates
  /\ Len(registry) <= max
  /\ registry' = Append(registry, [id |-> created + 1, command |-> c, kind |-> kind])
  /\ created' = created + 1
  /\ UNCHANGED <<lifeVars, retained, routerVars, sent, arrived, seenVars, got,
                 countVars, fault, exposed>>

(* The first unused entry of a registry is the one after the used ones. *)
Register(t, registry, max, c, kind) ==
  /\ initialized /\ live["registry"]
  /\ tpc[t] = None
  /\ created < MaxCreates
  /\ Len(registry) < max
  /\ registry' = Append(registry, [id |-> created + 1, command |-> c, kind |-> kind])
  /\ created' = created + 1
  /\ UNCHANGED <<lifeVars, retained, routerVars, sent, arrived, seenVars, got,
                 countVars, fault, exposed>>

CreateService(t, c) ==
  Register(t, services, MaxServices, c, "service") /\ UNCHANGED <<topics, actions, tpc>>

CreateAction(t, c) ==
  Register(t, actions, MaxActions, c, "action") /\ UNCHANGED <<services, topics, tpc>>

CreatePublisher(t, c) ==
  Register(t, topics, MaxTopics, c, "publisher") /\ UNCHANGED <<services, actions, tpc>>

(* create_subscription(): the entry; registry_mutex_ is given back before  *)
(* a @retain message is marked.                                            *)
CreateSubscription(t, c) ==
  /\ Register(t, topics, MaxTopics, c, "subscription")
  /\ \/ UNCHANGED tpc
     \/ tpc' = [tpc EXCEPT ![t] = c]
  /\ UNCHANGED <<services, actions>>

RetainedFree == rpc # "stored"

(* Mutant: the entry a second subscription finds is made anew. *)
MarkRetained_Again(t) ==
  /\ tpc[t] # None
  /\ RetainedFree
  /\ tpc' = [tpc EXCEPT ![t] = None]
  /\ LET i == Find(retained, tpc[t])
         new == [command |-> tpc[t], payload |-> NoPayload, has_payload |-> FALSE]
     IN  retained' = IF i # 0 THEN [retained EXCEPT ![i] = new]
                     ELSE IF live["retained"] /\ Len(retained) < MaxRetained
                     THEN Append(retained, new) ELSE retained
  /\ UNCHANGED <<lifeVars, services, topics, actions, routerVars, sent, created,
                 arrived, seenVars, got, countVars, fault, exposed>>

(* mark_retained(): nothing when c has an entry or none is left. *)
MarkRetained(t) ==
  /\ tpc[t] # None
  /\ RetainedFree
  /\ tpc' = [tpc EXCEPT ![t] = None]
  /\ retained' =
       IF live["retained"] /\ Find(retained, tpc[t]) = 0 /\ Len(retained) < MaxRetained
       THEN Append(retained, [command |-> tpc[t], payload |-> NoPayload,
                              has_payload |-> FALSE])
       ELSE retained
  /\ UNCHANGED <<lifeVars, services, topics, actions, routerVars, sent, created,
                 arrived, seenVars, got, countVars, fault, exposed>>

(* Mutant: the copy is made without the mutex. *)
GetLast_NoMutex(t, c) ==
  /\ LET i == Find(retained, c)
     IN  /\ i # 0
         /\ retained[i].has_payload
         /\ got' = [got EXCEPT ![t][c] = retained[i].payload]
  /\ UNCHANGED <<lifeVars, registryVars, tpc, routerVars, sent, created, arrived,
                 seenVars, countVars, fault, exposed>>

(* get_last(): a copy made under retained_mutex_.  Waiting 10 ms in vain   *)
(* and finding nothing return false and change nothing.                    *)
GetLast(t, c) ==
  /\ live["retained"] /\ RetainedFree
  /\ LET i == Find(retained, c)
     IN  /\ i # 0
         /\ retained[i].has_payload
         /\ got' = [got EXCEPT ![t][c] = retained[i].payload]
  /\ UNCHANGED <<lifeVars, registryVars, tpc, routerVars, sent, created, arrived,
                 seenVars, countVars, fault, exposed>>

(* publish(): id 0, the payload as it was serialized (bound: once, before  *)
(* any reply).                                                             *)
Publish(t, c) ==
  /\ initialized /\ tpc[t] = None
  /\ sent = {}
  /\ sent' = sent \cup {[command |-> c, reply |-> FALSE, seq_id |-> 0,
                         payload |-> Whole(1)]}
  /\ UNCHANGED <<lifeVars, registryVars, tpc, routerVars, created, arrived, seenVars,
                 got, countVars, fault, exposed>>

TaskStep(t) ==
  \/ MarkRetained(t)
  \/ \E c \in Commands :
       \/ CreateService(t, c) \/ CreateAction(t, c)
       \/ CreatePublisher(t, c) \/ CreateSubscription(t, c)
       \/ GetLast(t, c) \/ Publish(t, c)

-----------------------------------------------------------------------------
(* The dispatcher task: serial_packet_callback() and route_packet(). *)

Fault ==
  /\ fault' = TRUE
  /\ UNCHANGED <<lifeVars, registryVars, tpc, routerVars, sent, created, arrived,
                 seenVars, got, countVars, exposed>>

(* The router goes on to step label with the entry i; idle, it is done     *)
(* with the packet.                                                        *)
Goto(label, i) ==
  /\ rpc' = label
  /\ entry' = i
  /\ packet' = IF label = "idle" THEN None ELSE packet
  /\ due' = (due /\ label # "idle")

Proceed(label, i) ==
  /\ Goto(label, i)
  /\ UNCHANGED <<lifeVars, services, topics, actions, tpc, response, sent, created,
                 arrived, got, countVars, fault, exposed>>

Receive(c) ==
  /\ hooked /\ rpc = "idle"
  /\ arrived < MaxMessages
  /\ arrived' = arrived + 1
  /\ packet' = [id |-> arrived + 1, command |-> c]
  /\ due' = (Find(retained, c) # 0)
  /\ exposed' = (~initialized \/ lpc = "clear")
  /\ rpc' = "service"
  /\ UNCHANGED <<lifeVars, registryVars, tpc, entry, response, sent, created, seen,
                 handledBy, got, countVars, fault>>

(* A reply goes to the transaction manager and nowhere else. *)
ReceiveReply ==
  /\ hooked /\ rpc = "idle"
  /\ arrived < MaxMessages
  /\ arrived' = arrived + 1
  /\ UNCHANGED <<lifeVars, registryVars, tpc, routerVars, sent, created, seenVars, got,
                 countVars, fault, exposed>>

(* find_service(), find_topic(), find_action(): under registry_mutex_,     *)
(* whose handle is taken unchecked.                                        *)
LookUp(here, registry, there, otherwise) ==
  /\ rpc = here
  /\ UNCHANGED <<retained, seen, handledBy>>
  /\ LET i == Find(registry, packet.command)
     IN  IF ~live["registry"] THEN Fault
         ELSE IF i # 0 THEN Proceed(there, i)
         ELSE Proceed(otherwise, 0)

FindService == LookUp("service", services, "serve", "topic")
FindTopic == LookUp("topic", topics, "store", "action")
FindAction == LookUp("action", actions, "act", "idle")

(* An endpoint's callback runs. *)
Handled(registry) ==
  handledBy' = [handledBy EXCEPT ![packet.command] = registry[entry]]

(* SerialCommService::handle_packet() fails to deserialize the request,    *)
(* its callback returns false or the response does not serialize.  That is *)
(* the end of it: no reply, and no other endpoint is tried.                *)
ServeFail ==
  /\ rpc = "serve"
  /\ IF entry > Len(services) THEN Fault /\ UNCHANGED handledBy
     ELSE Proceed("idle", 0) /\ (Handled(services) \/ UNCHANGED handledBy)
  /\ UNCHANGED <<retained, seen>>

(* What handle_packet() makes of the response: the payload is serialized   *)
(* into it and clear_packet() called before the header is filled in.       *)
Response ==
  [command |-> packet.command, reply |-> TRUE, seq_id |-> packet.id,
   payload |-> NoPayload]

(* The callback succeeds; enable_auto_reply decides whether the response   *)
(* is sent.                                                                *)
Serve ==
  /\ rpc = "serve"
  /\ entry <= Len(services)
  /\ Handled(services)
  /\ response' = IF auto_reply THEN Response ELSE None
  /\ Goto(IF auto_reply THEN "reply" ELSE "idle", 0)
  /\ UNCHANGED <<lifeVars, registryVars, tpc, sent, created, arrived, seen, got,
                 countVars, fault, exposed>>

(* send(), which may fail. *)
Reply ==
  /\ rpc = "reply"
  /\ sent' \in {sent, sent \cup {response}}
  /\ response' = None
  /\ Goto("idle", 0)
  /\ UNCHANGED <<lifeVars, registryVars, tpc, created, arrived, seen, handledBy, got,
                 countVars, fault, exposed>>

(* store_if_retained(): retained_mutex_ is taken and the payload copied,   *)
(* here its first half; nothing when the command has no entry.             *)
StoreBegin ==
  /\ rpc = "store"
  /\ LET i == Find(retained, packet.command)
     IN  IF live["retained"] /\ i # 0
         THEN /\ retained' = [retained EXCEPT ![i].payload.head = packet.id]
              /\ Proceed("stored", entry)
         ELSE Proceed("deliver", entry) /\ UNCHANGED retained
  /\ UNCHANGED <<seen, handledBy>>

(* ... the rest, len and has_payload; the mutex is given back. *)
StoreEnd ==
  /\ rpc = "stored"
  /\ LET i == Find(retained, packet.command)
     IN  IF ~live["retained"] THEN Fault
         ELSE /\ retained' = IF i = 0 THEN retained
                             ELSE [retained EXCEPT ![i].payload.tail = packet.id,
                                                   ![i].has_payload = TRUE]
              /\ Proceed("deliver", entry)
  /\ UNCHANGED <<seen, handledBy>>

(* SerialCommTopic::handle_packet(): the callback, of a subscription as of *)
(* a publisher, or nothing when the payload does not deserialize.          *)
Deliver ==
  /\ rpc = "deliver"
  /\ IF entry > Len(topics) THEN Fault
     ELSE /\ Proceed("idle", 0)
          /\ \/ /\ Handled(topics)
                /\ seen' = IF due THEN [seen EXCEPT ![packet.command] = packet.id]
                           ELSE seen
             \/ UNCHANGED <<handledBy, seen>>
  /\ UNCHANGED retained

(* SerialCommAction::handle_packet(): the goal callback; its result goes   *)
(* nowhere.                                                                *)
Act ==
  /\ rpc = "act"
  /\ IF entry > Len(actions) THEN Fault /\ UNCHANGED handledBy
     ELSE Proceed("idle", 0) /\ (Handled(actions) \/ UNCHANGED handledBy)
  /\ UNCHANGED <<retained, seen>>

RouterStep ==
  \/ FindService \/ ServeFail \/ Serve \/ Reply
  \/ FindTopic \/ StoreBegin \/ StoreEnd \/ Deliver
  \/ FindAction \/ Act

-----------------------------------------------------------------------------
(* The bounds are reached, or the program has crashed. *)
Finished ==
  /\ \/ fault
     \/ arrived = MaxMessages /\ rpc = "idle"
     \/ ~initialized /\ inits = MaxInits
  /\ UNCHANGED vars

Next ==
  \/ /\ ~fault
     /\ \/ LifeStep
        \/ \E t \in Tasks : TaskStep(t)
        \/ \E c \in Commands : Receive(c)
        \/ ReceiveReply
        \/ RouterStep
  \/ Finished

Spec == Init /\ [][Next]_vars

-----------------------------------------------------------------------------
(* Every variable has its type and no registry outgrows its array. *)
LifeTypeOK ==
  /\ initialized \in BOOLEAN /\ running \in BOOLEAN /\ auto_reply \in BOOLEAN
  /\ live \in [Mutexes -> BOOLEAN]
  /\ lpc \in {"idle", "transactions", "clear"}
  /\ hooked \in BOOLEAN /\ fault \in BOOLEAN /\ exposed \in BOOLEAN
  /\ inits \in Nat /\ deinits \in Nat

RegistryTypeOK ==
  /\ services \in Seq(Endpoints) /\ Len(services) <= MaxServices
  /\ topics \in Seq(Endpoints) /\ Len(topics) <= MaxTopics
  /\ actions \in Seq(Endpoints) /\ Len(actions) <= MaxActions
  /\ created \in 0..MaxCreates

CacheTypeOK ==
  /\ retained \in Seq(Retained) /\ Len(retained) <= MaxRetained
  /\ tpc \in [Tasks -> Commands \cup {None}]
  /\ got \in [Tasks -> [Commands -> Payloads]]

RouterTypeOK ==
  /\ rpc \in {"idle", "service", "serve", "reply", "topic", "store", "stored",
              "deliver", "action", "act"}
  /\ packet \in Packets \cup {None}
  /\ entry \in Nat
  /\ response \in Outgoing \cup {None}
  /\ sent \subseteq Outgoing
  /\ arrived \in 0..MaxMessages

SeenTypeOK ==
  /\ due \in BOOLEAN
  /\ seen \in [Commands -> 0..MaxMessages]
  /\ handledBy \in [Commands -> Endpoints \cup {None}]

TypeOK == LifeTypeOK /\ RegistryTypeOK /\ CacheTypeOK /\ RouterTypeOK /\ SeenTypeOK

(* The endpoint that handles a command gives way only to one of a kind     *)
(* that route_packet() tries earlier, a service before a topic before an   *)
(* action: registering one more endpoint of the same kind takes nothing    *)
(* over, whatever the moment it is registered at.  (A deinit() with a      *)
(* packet in hand voids this: the entry may be another endpoint's by then.) *)
Rank(e) == CASE e.kind = "service" -> 1 [] e.kind = "action" -> 3 [] OTHER -> 2
HandlerStable ==
  [][\A c \in Commands :
       deinits = 0 /\ handledBy[c] # None /\ handledBy'[c] # handledBy[c]
       => Rank(handledBy'[c]) < Rank(handledBy[c])]_vars

(* When a callback has seen a message that came after its command got an   *)
(* entry in the cache, the cache holds that message or a later one: what   *)
(* get_last() gives is never older than what the subscriber knows, also    *)
(* while others subscribe to the same command.                             *)
CachedBeforeHandled ==
  \A c \in Commands :
    live["retained"] /\ seen[c] # 0 =>
      \E i \in DOMAIN retained :
        /\ retained[i].command = c
        /\ retained[i].has_payload
        /\ retained[i].payload.head >= seen[c]

(* What get_last() gives a task is one message, not the halves of two, and *)
(* never an older one than it gave before.                                 *)
ReadsAdvance ==
  [][\A t \in Tasks, c \in Commands :
       got'[t][c] \notin {NoPayload, got[t][c]} =>
         /\ got'[t][c].head = got'[t][c].tail
         /\ got'[t][c].head > got[t][c].head]_vars

(* deinit() leaves the packet callback registered, and packets still come. *)
(* The router takes a null mutex or follows a cleared entry only for a     *)
(* packet that came between a deinit() and the return of the next init(),  *)
(* or was in its hands when deinit() came: one that comes later, or before *)
(* any deinit(), finds everything it needs.                                *)
FaultOnlyIfExposed == fault => exposed /\ deinits > 0

(* "Automatic response packet generation": the reply a service sends       *)
(* carries the response its callback filled in.                            *)
ReplyCarriesResponse ==
  \A m \in sent : m.reply => m.payload = Whole(m.seq_id)
=============================================================================
