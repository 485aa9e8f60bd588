# Verification of SerialComm

TLA+ models, TLC runs and TLAPS proofs for SerialComm, a serial communication
middleware for ESP32 (C++, FreeRTOS) with a Python client.

## The system

| Component | State | Operations | Works with |
|---|---|---|---|
| Transports (UART, ESP-NOW, UDP, Multi), `src/transport` | driver handles, RX task, `state_`, reassembly buffer, slots | init, start, stop, write, RX task | call `transport_rx_callback` on their RX task |
| `SerialComm`, `src/core/serial_comm.cpp` | parser, `parser_mutex_`, `tx_mutex_`, watchdog, dispatcher | init, start, stop, send, `process_rx_data`, `on_interbyte_timeout` | RX task, watchdog task, senders |
| `SerialCommParser` | state, partial packet, index | `parse_byte`, `parse_next_packet`, `reset` | under `parser_mutex_` |
| `SerialCommProtocol` | none | encode, CRC, validation | parser, send |
| `SerialCommWatchdogTimer` | GPTimer, `_running`, watchdog task | start, stop, kick, alarm | RX task kicks, alarm interrupt notifies its task, which resets the parser |
| `SerialCommDispatcher` | packet queue, callback table, `callback_mutex_`, `running_` | start, stop, enqueue, dispatch, register, unregister | RX task enqueues, dispatcher task runs callbacks |
| `SerialCommManager` | topic, service and action tables, retain table, `next_seq_id_` | `call_service`, `publish`, `create_*`, `route_packet` | registered for every command at the dispatcher |
| `SerialCommTransactionManager` | 8 slots: active, seq_id, reply, semaphore; `mutex_` | create, wait, resolve, destroy | callers block on a slot, dispatcher task resolves |
| Service, topic and action endpoints | handler, buffers | `handle_packet`, publish, goals | called by `route_packet` |
| Python client, `serial_comm_py` | pending calls, subscriptions, rate limits, RX thread | start, stop, publish, `call_service` | the peer of the firmware |

A received byte goes from the RX task of its transport through the parser into the
queue of the dispatcher, and from the dispatcher task to a callback: the router
of the manager, which hands replies to the transaction table and everything else
to the endpoints. A service call goes the other way and blocks on its slot until
the reply has gone round.

What is hard here:

- `call_service` waits on a slot it found without the mutex, while the dispatcher
  task writes into slots it found without the mutex, and semaphores outlive the
  calls they were given for;
- the watchdog's timer and flag are shared by three tasks with no lock;
- `stop()` deletes a task wherever it is, and a queue survives it;
- callbacks run on the dispatcher task and may register, send and call services;
- bytes are lost, frames are cut anywhere, replies are late, doubled or lost;
- `init`, `start`, `stop` and `deinit` of four layers may be called in any order, and
  `deinit` deletes handles that other tasks hold.

What makes each component correct: a reply reaches its own call, every call
returns, no slot is lost (transactions); what is delivered was sent, once and in
order, and the parser gets out of a damaged frame (receive path); accepted
packets are handled once and in order, and a callback is only called with its own
context while it is registered (dispatcher); the endpoint that handles a command does
not change with every registration, and the last value of a topic is never older than
what a subscriber has seen (manager); no order of calls but the ones named uses what
is deleted (lifecycle); a call of the Python client gets its own answer and its
receiving thread ends only for a known cause. `PROJECT.json` lists the hazards line
by line with the properties that cover them.

## Modules

| Module | Models | Lines it stands for |
|---|---|---|
| `RequestReply` | the promise of `call_service()` | abstract specification, implemented by `Transactions` |
| `Transactions` | service calls, the transaction table, the dispatcher task resolving replies | `call_service`, `allocate_seq_id`, the transaction manager |
| `Framing` | frame format, CRC16, parser, `decode` (operators) | protocol and parser |
| `RxPath` | RX task, watchdog task, GPTimer, the task that starts the watchdog | `process_rx_data`, `on_interbyte_timeout`, the watchdog |
| `Dispatcher` | queue, callback table, start and stop | the dispatcher |
| `EspNow` | sending peers, the radio, the Wi-Fi task, reassembly | `write`, `write_async`, `recv_cb`, `send_cb`, `process_rx_item`, `flush` of ESP-NOW |
| `RxTask` | the RX task of ESP-NOW and UDP, and the application that starts and stops it | `init`, `start`, `stop`, `deinit`, `rx_task_entry` of both |
| `UdpTransport` | the tasks that send by UDP and change where it sends, over the life of the transport in `RxTask` | `write`, `write_async`, `write_to_peer`, `set_remote_endpoint`, `add_peer`, `remove_peer` of UDP |
| `Manager` | the registries, the routing of packets to endpoints, the @retain cache, init to deinit of the manager | `SerialCommManager`, `handle_packet` of services, topics and actions |
| `Lifecycle` | init, start, stop and deinit of `SerialComm`, its dispatcher, UARTs and a `MultiTransport`, with senders and event tasks | `serial_comm.cpp`, `uart_serial_comm.cpp`, `multi_transport.cpp` |
| `PyClient` | the Python client over serial and UDP | `client.py`, `udp_client.py` |
| `...Proofs` | the theorems of a module (`RxTaskProofs`: of `RxTask` and `UdpTransport`; `RxPathProofs`: of `RxPath` and `Framing`) | |
| `MC...` | the constants of the runs | |

### Transactions

A slot is `active[i]`, `slot_seq[i]`, `reply[i]`, `semaphore[i]`; `pc[c]` says where
task `c` is in `call_service()`. Every statement that no mutex covers against its
readers is a step: claiming a slot and stamping it are two steps, for
`find_transaction` runs without `mutex_`; the copy of a reply into its slot is two
steps, header and payload, for the caller may time out and another one claim the
slot in the middle of it. A reply carries the call whose answer it is
(`Packets`), so a wrong answer is visible; one torn between header and payload
deserializes to `Garbage`. `completed` is written and never read,
and is left out. A call may be made by a user callback on the dispatcher task
(`callback`), which then resolves nothing. The peer and the link are external:
a request is answered up to `MaxReplies` times, at any time, or never. A send may
report failure although the request went out (one of several transports, a
timeout of the send-done).

### RxPath and Framing

`Framing` computes real frames: the CRC is CRC16-CCITT as a set of bits (its value
for "123456789" is the standard 0x29B1). `RxPath` puts three frames on a line,
hands them over in chunks of any of the given sizes and may lose bytes. The first
payload ends in bytes of a preamble and the second id starts like one, so a lost
byte makes the parser see false frames. `start`, `stop` and `kick` of the watchdog are
split at each access to `_running` and the timer. A parser critical section
is one step, as `parser_mutex_` covers it.

`paced`, chosen in the initial state, is the assumption the protocol is designed on: the
sender pauses longer than the timeout between frames, no byte is read before
`SerialComm::start()` is through, and no task is so late that a timeout is handled
while bytes of the next frame arrive. Both kinds of line are in one run, and the
properties say which of them they speak of. `raced` records that two tasks were at the
timer at once, or that the watchdog task was stopping it while bytes waited to be
parsed. The parser is cross-checked: `Decoded` is what `decode()` makes of each whole
frame, and `DeliveredInOrder` asks that it agree with what came out of the parser byte by
byte.

### Dispatcher

One step per access to state that another task may touch: `running_`, the queue,
the mutex, the two words of an entry. `stop()` deletes the task at any of its steps;
`orphaned` records that it held `callback_mutex_` then. A registrar is a task, or a
callback running on the dispatcher task (`nested`). Packets and registrations
are numbered, so order and lateness are visible.

### EspNow

A fragment carries the number of its message at its peer in the place of a payload, so
that a message put together from two is visible; the code compares only what the
frame has: `seq`, `idx` and `total`. The peers run `write()` or `write_async()`, one
call at a time as `SerialComm::send()` holds `tx_mutex_`. `tx_done_sem_`,
`tx_success_` and the two statements of `send_cb()` are separate steps, for a writer
that has given up meets them in its next call. The radio may lose a frame, or the
acknowledgement of one that arrived. `esp_now_send()` is external: it takes one
frame at a time, as the comment of `write_async()` has it, and may refuse any. The
completed message is read from the buffer (`Deliver`) after the mutex is given, which
is sound because there is one RX task: that is `OneRxTask` of `RxTask`. `gave_up` records
which peers' writers have ever timed out: `ReportedMeansDone` grants such a writer the
fragment that a late send-done vouches for, and no second one in a row.

### RxTask

`init()` is three steps: what it creates, the moment from which frames come (the socket
is bound, or `recv_cb` is registered, which is before `state_` says so), and its end,
failed or not. `state_`, `rx_done_sem_` and the handle are what `start()`, `stop()` and the task share.
The task is created before `state_` is set. `stop()` times out only while the task is
busy with a frame, as it otherwise reads `state_` again within 50 ms and `stop()` waits ten
times as long; the task may still get anywhere, even to its end, before it is
deleted. `deinit()` is two steps, what it deletes and its last statement: on UDP `state_` still
has its old value in between. `left` records that the task left its loop without being told to: it
was scheduled before `state_` was set, or a system call failed. Nobody starts it again
then, and the transport is deaf until it is stopped and started, which resets `left`;
`RunningReceives` names the case. The application is one task.

### UdpTransport

`UdpTransport` extends `RxTask`: its steps are those of `RxTask`, with what `init()` and
`deinit()` do to `net_mutex_` and `remote_addr_`, and those of the other tasks. An address
is two words, so a copy that is half old and half new is visible (`Whole`). What a call does
under `net_mutex_` is one step, but for `remote_addr_`: `init()` sets it without the mutex, so
its readers and writers take two steps each. The mutex is "gone" before `init()` and after
`deinit()`, and a call that meets it then has faulted. `write()` and `write_to_peer()` test
`state_` without the mutex; the calls that change addresses test nothing, and are assumed
not to be made before `init()` has returned or after `deinit()` has. Nothing keeps
`deinit()` from coming under a call, or a call from coming between the two steps of `deinit()`
(`CallInDeinit`): `late` records both, and `AddressesRight` names the case.

### Manager

The dispatcher task routes one packet at a time; `rpc` says where it is in
`route_packet()`, `entry` is the pointer it found under `registry_mutex_` and uses
after giving it back. What one critical section covers is a step, but the store into the
cache is two, so that a reader that ignored `retained_mutex_` would be seen. Payloads are
two halves. `ClearRegistries` also forgets what was observed of the endpoints. `exposed`
says of the packet in the router's hands that it came while the manager was not initialized, or that
`deinit()` came while it was there: that one may fault, the next one may not. Replies go to
`Transactions` and are a step without effect here.

### Lifecycle

One application task makes the calls; each of its calls is one step unless another
task can see the middle of it (`apc`). A deleted handle is a handle not in `live`;
taking one sets `fault`, and so does giving a mutex that was made anew in between. Two
tasks send (`spc`), through the slots of a `MultiTransport` one by one, and each
started UART has an event task that walks through `process_rx_data()` to
`enqueue()` (`etask`). A frame is two halves here, enough to see two UARTs mix in the one
parser. A `MultiTransport` looks at its `state_` once, before the first slot (`WriteRefused`). A UART
refuses `start()` when its state does not allow it or its event task cannot be created.

The histories name the orders of calls the properties speak of: `own`, UARTs the application
starts itself; `stray`, UARTs stopped before their `init()`; `removed`, UARTs taken out of a slot that
received; `spoiled`, an `init()` that failed behind the dispatcher's; `late`, a `deinit()` under a
sender; `exposed`, an event task that is heard while handles were null. Where a hazard is in
the code, the property does not except the hazard as a whole, but says how far it goes:

- `FaultOnlyByLateUse`: under a `MultiTransport` a `deinit()` is harmless as long as no UART that
  is heard runs before the next `init()` is through, and on one UART that only `SerialComm` starts
  and stops it is harmless always, but for a sender inside `send()`;
- `DispatcherOwned`: an `init()` that fails leaves a dispatcher that does not run, its queue and
  nothing else, and the next `deinit()` clears it;
- `OnlyReceiversHeard`: two UARTs may mix in the one parser, for the code does not prevent it
  when two slots receive; a UART in a slot that only sends never gets there, nor one whose slot was
  removed unless that slot received.

### PyClient

RX thread `g` and port `g` are those of the `g`-th `start()`, so a thread that outlives its
`stop()` is still there after the next start, and shares `_stop_event` with the new
one. A read may yield several packets (`data`), which are dispatched one after the other before
`_stop_event` is looked at again. Subscription callbacks and service handlers run on the RX
thread and may call services, publish and call `stop()`; what a handler raises becomes an empty
reply, so it goes on like one that returned. A `stop()` called by a callback of an RX thread that
has already outlived one is not modelled. A reply is the number of the request it answers. Writes and reads end in each way
the two clients distinguish: success, the exception that is caught, any other. Ids are modulo
2, so that the third request has the id of the first.

## Runs

| Run | Question | Bounds |
|---|---|---|
| `transactions` | do slots stay owned, is none lost but by a failed send, how much can a stray reply spoil, can a nested call be answered, does `call_service()` keep its promise on a timely link | 2 tasks, 2 slots, 3 calls, 2 replies per request, queue of 1, ids 1..3 |
| `transactions_liveness` | does every call return | 1 slot, 3 calls, ids 1..2 |
| `reply_mismatch` | does `seq_id` match replies to requests (it does not) | 2 calls, queue of 2, 2 replies per request |
| `rx_path` | is what is delivered what was sent, in order, all that was not damaged; does the parser get out of a damaged frame; what can cost a timeout | 3 frames; chunks of 7 and 13 bytes and 1 loss, or, paced, chunks of 1 to 14 bytes and 2 losses |
| `dispatcher` | are accepted packets kept and handled, entries whole, revoked callbacks silent; do registrations return | 2 RX tasks, 2 registrars, queue of 1, 2 packets, 2 registrations, 1 stop |
| `espnow` | are messages whole and in order, is a queued one delivered, does `write()` report the truth | 1 peer, 3 messages of 1 or 3 fragments, numbers modulo 2, queue of 2 |
| `udp_transport` | is there one RX task, is the mutex given back, are frames received while the transport runs, does a datagram go to an address that was set, has a node one slot | without other tasks 4 starts, queue of 2; with 2 tasks 1 start, 2 nodes, 2 endpoints, 2 peer slots |
| `manager` | is routing stable, is the cache up to date and never torn, what makes the router use what is gone | 2 tasks, 2 commands, 2 endpoints, 2 packets, 2 inits, 1 deinit, cache of 1 |
| `reply_blank` | does a reply carry its response (it does not) | as `manager` |
| `lifecycle` | which orders of calls lead to a deleted handle, what does a failed `init()` leave, whose bytes reach the parser, is a transceiver left up | 2 UARTs, 2 senders, 2 slots, 8 calls, 3 events, 2 sends |
| `documented_start` | is the documented start order accepted (it is not) | as `lifecycle` |
| `py_client` | does a call get its own reply, is the pending table exact, why does a running client go deaf | 1 caller and the callbacks of 2 RX threads, 2 starts, 3 requests (4 of both together), 2 commands, ids modulo 2 |

The bounds are enough because the races are between two or three actors over one
slot, one entry or one timer. Two tasks and two slots let a slot be taken over by
another call while a reply to the first is written; the third call reuses a slot
again. Ids 1..3 with three calls make the counter wrap, and ids 1..2 in
`transactions_liveness` make it hand an id out again. One service, two topics, one action
and a cache of one make every registry full. Eight calls are enough to build a stack
of two UARTs under a `MultiTransport` (two `add_transport`, its `init`, the UARTs'
`init` and `start`, the `SerialComm`'s `init`) or to take one UART through two rounds of
init, start, stop and deinit; faults and mixing first appear with fewer. A queue of one is full after
one packet, and a stop makes it survive a restart. Message numbers modulo 2 make the
third message meet what was left of the first, and a third start lets a late `rx_done_sem_` meet
the second `stop()`. Two nodes and two slots fill the peer table, and removing the first node of
two leaves a gap before the second. Payloads of up to 3 bytes
against a buffer of 4 let a false length be too long or just right, chunks of 13 bytes
hold the end of one frame and the start of the next, and 7 lost bytes join two frames
into a packet that only its CRC gives away. Tasks and commands are
symmetry sets in the runs that check no liveness.

The three runs that find a violation show where the code and what it says of
itself part: `reply_mismatch` (a semaphore is never reset, so a late reply
answers the next call in the slot), `reply_blank` (`clear_packet()` after the payload has
been written) and `documented_start` (`SerialComm::start()` starts the transport
itself, and a transport that runs refuses; it stops its dispatcher and fails. The
example `uart_example` gives up there, `vsss_udp_bridge` ignores the result and runs without a
dispatcher). `DamageBounded` says how bad the
first is: one wrong answer per stray reply, no more, until the id counter has turned round.

Several passing properties are the exact extent of a weakness rather than its absence, and
their exceptions are findings of their own: a failed send leaks its slot
(`NoOrphanSlot`); a partial packet stays in the parser when `kick()` and `stop()` of the watchdog
race (`StrandedOnlyByRace`); `deinit()` of the manager leaves its callback registered and the
router then takes a null mutex for a packet that comes before the next `init()`
(`FaultOnlyIfExposed`); `SerialComm::deinit()` under a
`MultiTransport` whose UARTs run, or with a sender inside `send()`, deletes what others use
(`FaultOnlyByLateUse`); `remove_transport()` leaves the callback (`OnlyReceiversHeard`); an
`init()` that fails late leaves the dispatcher initialized (`DispatcherOwned`); a writer that has
given up takes late send-dones for its next fragment's (`ReportedMeansDone`); `stop()` may delete the
task that holds `reassembly_mutex_` (`MutexReturned`), and an RX task that runs before `state_` is set
leaves at once (`RunningReceives`); a write that raises leaves its entry in `_pending` (`PendingExact`);
a Python thread that outlives `stop()` takes the next one down with it (`DeafOnlyForCause`).

### Refinement

`call_service()` is specified by `RequestReply`: a call ends with an error or with the
reply to that very call. `Transactions` implements it (`PromiseKept`, by `INSTANCE RequestReply
WITH` a mapping) when `timely` is chosen in the initial state: a request is answered once, and the
reply is through before its call gives up. On any other link it does not, which is what
`reply_mismatch` shows; the mapping then hides the calls.

### Fairness

`Transactions`: a task inside `call_service()` takes its next step; FreeRTOS hands a
mutex to its waiters and a semaphore wait has a timeout, so nothing is assumed of
the link (`FairInit` starts with one that is not timely, which can do all that a timely
one does). `RxPath`: the RX task gets done with each chunk, the watchdog task and
the starting task run, an armed alarm on a running timer fires. `Dispatcher`: the
dispatcher task and the registrars get their turn at the mutex (strong
fairness, for each gets it in turn and the mutex is taken and given repeatedly), and
callbacks return. `RxTask`, and with it `UdpTransport`: the RX task is scheduled, and
`rx_callback_` returns; nothing is assumed of the application. `Manager`, `Lifecycle`, `EspNow` and `PyClient` state safety
only and assume no fairness. None is put on packets, stops, losses or registrations.

## Proofs

What the runs check on small instances is proved for every value of the constants that
the `ASSUME` of the module allows: any number of callers, slots, peers, UARTs, tasks, frames,
stops and losses. `PROJECT.json` lists the theorems with the property each one states. For
each module the argument is an inductive invariant, checked by TLC on a run of the
module before it was proved. `IInv` is that invariant where the module needs one.

**Transactions.** `TypeCorrect`, `SlotOwnership` (`OwnSlot`), `OnlyFailedSendsLeak`
(`NoOrphanSlot`), `NestedCalls`, `StrayRepliesBounded` (`DamageBounded`),
`PromiseKeptInTime` (`PromiseKept`). `OwnSlot` is not inductive: that two callers never
wait on one slot needs that the ids of calls in flight differ (`DistinctIds`, from `NoLap`),
that a slot in search carries the id of its caller (`BoundSlot`, `ClaimedSlot`), that only
leaked slots may share an id (`OnlyLeakedShared`), that the mutex covers claim and
stamp (`MutexHeld`) and that a free slot has id 0 (`FreeSlotsUnnamed`). `DamageBounded` is an
account: `Paid` adds to `debt` the semaphores that were given to nobody and the callers that
will take a wrong reply, and each step moves at most one of the three. It speaks of the first
turn of the ids (`issued <= MaxSeq`), in which the id of a call is its number (`Lap`). The refinement of
`RequestReply` is proved step by step under `MaxCalls <= MaxSeq`. The assumption is needed:
with two ids and four calls TLC finds a call that gets the reply of an earlier one, through a
slot a failed send left behind and whose id is given out again. `NoLap`, a
guard of the model, is the one workload assumption of the other theorems: no call stays in flight
for a whole turn of the 16-bit counter. Calls end within their timeout, and 65535 more would
have to be made in it.

**RxTask, UdpTransport** (`RxTaskProofs`). `RxTaskTypeCorrect`, `AtMostOneRxTask`
(`OneRxTask`), `MutexIsReturned`; `UdpIsRxTask`, `AddressesHold` (`AddressesRight`),
`UdpTypeCorrect`. That the token `stop()` takes is that of the task it stops needs that only
the last task created may run (`OnlyLast`), that `rx_done_sem_` is given only when it no longer
does (`Done`, which holds across a restart because `start()` empties the semaphore), and that the
handle is that task's (`Handle`). `UdpIsRxTask` is a refinement: each step of the composed
transport is a step of `RxTask` or leaves its variables alone, so its theorems hold of
it. `AddressesRight` needs who holds `net_mutex_` (`Calls`) and when it exists (`MutexLive`).

**Dispatcher.** `TypeCorrect`, `NothingLost` (`AcceptedKept`), `EntriesWhole` (`WholeEntry`),
`OneLateCall`. An entry is torn only while its registrar holds the mutex, or for ever when
`stop()` deleted it there (`TableWhole`, `MutexHeld`); what was accepted is split between the queue,
the hands of the task and the packets lost with it (`PacketInHand`, `KilledFinite`); a revoked
registration is in no entry and not on its way to one (`Registered`).

**Manager.** `TypeCorrect`, `RouterFindsAll` (`FaultOnlyIfExposed`), `CacheNotBehind`
(`CachedBeforeHandled`), and the action properties `HandlersStay` (`HandlerStable`) and
`ReadsInOrder` (`ReadsAdvance`). They need that the packet callback is registered last (`HookedLast`),
that the entry the router holds is still the first of its command (`EntryFound`), that what handled a
command comes no later than what was passed over (`PassedOver`), and that only the entry being stored to
may be torn (`StoredWhole`).

**Lifecycle.** `TypeCorrect`, `FaultsHaveCause` (`FaultOnlyByLateUse`), `DispatcherGivenBack`
(`DispatcherOwned`), `ParserFed` (`OnlyReceiversHeard`), `LineReleased`
(`TransceiverReleased`). `StackWhole` says what each step of `init`, `start`, `stop` and `deinit` leaves
of the stack, `OneUart` and `SlotsHeard` whose bytes reach the parser, `TaskOwned` and
`SenderInside` between which calls a task lives. That a fault needs an exposed task follows from
`HeardInside` (a task in a callback is one that is heard, and no callback is ever taken back), `DriverThere`
and `HoldsToParse`: a task that parses still holds `parser_mutex_`, for an `init()` that makes a new
one under it has exposed it.

**PyClient.** `TypeCorrect`, `RepliesMatch` (`OwnReply`), `PendingKept` (`PendingExact`),
`RxThreadLost` (`DeafOnlyForCause`). A reply matches because the entry of an id is the newest
call with that id and equal ids are whole turns apart (`NewestPending`, `PacketFits`, `AnswerFits`); a
thread ends for a cause because only its own or one that outlived a `stop()` can set `_stop_event`
(`Generations`, `StopCause`).

**RxPath, Framing** (`RxPathProofs`). `TypeCorrect`; `RaceStrands` (`StrandedOnlyByRace`), from
what the place of each task says of the timer and the flag; `FramesArrive`
(`UndamagedDelivered`), for any sequence of packets, any chunks and any pattern of losses;
`FramesInOrder`, that on a line without loss and timeout the packets delivered are the
first sent and are what `decode()` makes of their frames (`DeliveredInOrder`); and `RoundTrip`,
that `Decode` undoes `Encode`. What `Crc16`, `EndOf` and the parser compute is recursive, and
the library's induction theorems cannot be used here. The module shows by a least counterexample
(`LeastNumber`) that a set of numbers with 0 and the successors of its members holds all of them (`UpTo`),
and from it that a function with the defining equation exists (`RecursionExists`). What
the parser has made of the first bytes of a frame is then an invariant over `pos`
(`InStep`).

**EspNow.** `TypeCorrect` and `ReportsAreTrue` (`ReportedMeansDone`) for any peers: writer, radio and
semaphore pass one fragment round as long as the writer never gave up (`InStep`).
`WholeInOrder` (`MessagesWhole`) and `QueuedHandedOn` (`QueuedDelivered`) under `OnePeer`:
fragments leave in order, so the queue, the buffer and what was handed on are ordered among themselves
(`Coming`, `Queue`, `Assembly`), and a queued fragment is in the buffer, handed on, or behind a later
one that never reached the queue (`Followed`). `OnePeer` is needed: `reassembly_` is keyed by the
message number alone, and with two peers the fragments of one complete a message of the other.

Only model-checked:

- liveness, which the prover cannot treat: `CallsReturn`, `Resynchronizes`, `RegisterReturns`,
  `AcceptedHandled`, `RunningReceives`;
- `DeliveredInOrder` on a line that loses bytes. For arbitrary frames it is false: a payload may hold
  a whole frame, and a 16-bit CRC accepts some wrong bytes. It holds of the frames of the run.

## Not modelled

- two managers on one broadcast link: replies are matched by id alone, and both count
  from 1.
- two ESP-NOW peers at once: the receiver does not compare senders, so `MessagesWhole` is
  about one.
- the peer table of ESP-NOW, the polling streams, `read()` and `available()` of the transports, the event
  and tx-done callbacks of Multi, and the buffers of the UART driver.
- `deinit()` of the transaction manager with calls in flight, the destructor of the
  watchdog, the statistics of the dispatcher.
- the rate limiter, the @retain cache, the parser and the inter-byte timeout of the Python
  client. The last compares the times of reads: with the default `read_timeout` of 1 ms
  and 0.3 ms at 115200 baud, a packet that two reads cut is reset. A model of it needs the
  time of bytes and of reads.
- a `stop()` called by a dispatcher callback: FreeRTOS leaves the next `stop()` undefined. Two
  `SerialComm` in one program, which share the static packet of the dispatcher task.
- serialization, the code generator and the examples: sequential byte and text
  handling, within reach of unit tests.

## Plan

1. (done) `Transactions` with `RequestReply` and the slot theorems, `RxPath` over
   `Framing`, `Dispatcher`.
2. (done) `EspNow`, and `RxTask` with its theorems.
3. (done) `Manager`, `Lifecycle`, `PyClient`, the refinement of `RequestReply`.
4. (done) The invariants, action properties and the refinement of `RequestReply` proved in
   all components; `UdpTransport` over `RxTask`.
5. `MessagesWhole` and `QueuedDelivered` of `EspNow` for several peers that never have a
   message of the same number under way; the peer table of ESP-NOW, as that of UDP; two
   managers on one broadcast link; `AcceptedKept` and `MessagesWhole` restated as refinements
   of a queue that loses.
