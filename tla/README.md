# A TLA+ model of the Raspberry Pi CAN bus sniffer

The program sits between a car's computer and a car system, each on its own CAN bus. It
forwards frames between the two, drops or rewrites them by rules, and reports them over UDP to
an external server that sets the rules. This directory models the parts of it that are hard to
test: threads that share a ring without copying, objects that are stopped, restarted and
deleted while their callbacks run, rules that are replaced while frames are judged, file
descriptors and addresses used without a lock, USB adapters and their processes that come and go,
watchdogs that decide on stale data, and a process that dies while it saves its parameters.

`PROJECT.json` lists the runs, the mutants of every property, the source lines behind every
definition, the findings, the hazards and the theorems.

## 1. The system

### Components, state, operations

| Component (source) | State | Operations | Module |
|---|---|---|---|
| `CacheManager` (`include/base/CommunicationObj.hpp`) | ring of blocks, head, tail, block in use | `push` (RX thread), `process` (worker), `notifyStop` | `CacheRing`, `DropQueue` |
| `CommunicationObj` (same file) | running and reconnect flags, RX, worker and supervisor threads, socket | `start`, `stop`, `start_reconnectable_mode`, `stop_reconnectable_mode`, the three thread loops | `CommunicationObj` |
| `FilterEngine` (`src/sniffer/Sniffer.cpp`) | rules, lookup table, counts, a mutex | `init`, `loadRules`, `process` | `FilterEngine` |
| `Sniffer` (same file) | running, logging, connected, time of the last message | `start`, `stop`, `handleCanData`, `onCommandReceived`, `watchdogLoop`; `handleStatusChanged` | `Sniffer`; `CanLink` |
| `MainService`, `main` (`src/core/MainService.cpp`, `src/main.cpp`) | running, restart requested, the Sniffer, parameters, USB watchdogs | `run`, `stop`, `onSystemCommand`, `createSniffer`, `destroySniffer`, the signal handler | `MainService` |
| `Params` (`include/utils/Params.hpp`) | keys, values, `sniffer.prop` | `load`, `save`, `update`, `parseLine` | `Params` |
| `UsbWatchdog` (`src/core/MainService.cpp`) | adapter, slcand process and interface of one bus | `start`, `stop`, `watchdogLoop`, `killExistingSlcand` | `UsbWatchdog`, `CanBus` |
| `ObdCanbusCommunication` (CAN socket) | file descriptor | `open`, `close`, `read`, `unblock` | `CanLink`, `BusLink` |
| `StatusManager`, `LedControllerUtil` | status map, LED attributes | `update_status`; `setTimer` | `CanLink` |
| `UdpCommunication`, `UdpCanbusCommunication` | descriptor, last sender | `open`, `close`, `read`, `write`, `unblock`, `processPacket` | `ExternalService` |
| `sniffer_client` SDK (`external_server/src/sniffer_client.cpp`) | running, connected, wanted logging, two time stamps, message queue | `start`, `stop`, `setLoggingEnabled`, `sendRawCommand`, `keepAliveLoop`, the two callbacks, `readMessage` | `SnifferClient` (without the queue) |
| TCP transport | descriptor, reassembly buffer | `open`, `read`, `write` | not modelled |
| Python and Android servers | native handle, polling threads | connect, disconnect, receive loop | not modelled |
| car emulators | simulated car | CAN request and answer | not modelled |

### Interactions

* `main` runs `MainService::run` on a thread of its own, polls a flag that the signal handler
  lowers, then calls `stop` and joins.
* `MainService` loads the parameters, creates the USB watchdogs and one `Sniffer`, and on
  `m_restartRequested` deletes them and creates the next.
* A `UsbWatchdog` runs slcand for its adapter; slcand creates the network interface, and the CAN
  link of the Sniffer binds to it by name. The two know nothing of each other.
* A `Sniffer` owns three `CommunicationObj`: two CAN links in reconnectable mode and the
  external UDP service. Each has an RX thread that fills a ring and a worker that empties it into
  a listener, so `handleCanData` runs on two threads at once and `onCommandReceived` on a third;
  the watchdog is a fourth.
* `onCommandReceived` calls back into `MainService::onSystemCommand`, so the request to delete
  the Sniffer comes from one of the threads the deletion must join.
* Status changes of the three links go through `handleStatusChanged` to one status map and two
  LEDs; the external service uses the entry and the LED of the computer link.
* The external servers use the SDK: its keep-alive thread repeats the wish to log, the Sniffer's
  answers and frames come in on the worker of the SDK's own `CommunicationObj`.
* The rules are static data shared by the two CAN workers and the UDP worker.

### What is hard

Interleavings of five kinds of thread over atomics and four mutexes; condition variables; joins
among threads that request each other's end; a lossy ring that never copies; descriptors, an
address and LED attributes shared with no lock at all; check-then-act in two watchdogs; external
processes that outlive their device; an unstable sort; a restart request that can meet the
restart before it; a file rewritten in place. The list, with the line where each one bites and
the property that watches it, is under `hazards` in `PROJECT.json`.

## 2. The modules

`MC*.tla` fix nothing but the constants of the module they extend. Operators whose comment begins
with "Mutant:" are faulty variants of the definition below them; no specification uses them, they
show that a property can fail. `*Proofs.tla` hold the theorems (section 5). Every component has one
type invariant `TypeOK`, the first conjunct of the module's main safety invariant.

**`CacheRing`**: `push` and `process` step by step. The worker reads header and payload with no
lock, so each write of `push` is a step of its own, and a block is the pair *frame of the header,
frame of the payload*. Sizes are in bytes as in the constructor (`TotalSize`, `MaxFrameSize`),
from which `BlockSize` and `NumBlocks` follow. **`DropQueue`** is what the ring promises: a bounded
queue that never blocks the producer and loses the oldest frame, or the newest while the listener
is busy. `ImplementsDropQueue` is the refinement, with the ring read as a queue
(`WaitingFrames`); a frame counts as queued as soon as `push` has decided to keep it.

**`CommunicationObj`**: start and stop as called by the owner or by the supervisor, the RX loop,
and the worker's wait taken apart into *test* (with the ring's mutex held) and *sleep*. The ring is
a count, in which the frame in the worker's hand keeps its place. **`FrameCount`** says how such a count
moves: `CountsFrames` of `CacheRing` and `CountsAsRing` of `CommunicationObj` state that both modules
do what it allows. `supervised` chooses between the
CAN links and the UDP service; both are explored. The socket is three facts: open, shut down by
`unblock`, closed. **`ListenerContract`** is what a `CommunicationObj` promises its owner: the listener
is called once at a time, never before the start and never after stop has returned.
`ImplementsContract` is the refinement. `Sniffer`, which owns three such objects, has their calls as steps
of its own; that these are exactly what the contract allows is a theorem (`AssumesTheContract`,
section 5). `MainService` states the same form of promise of its Sniffer, whose commands come from
the UDP service (`WithinContract`). The other users have the guards of the contract without such a theorem.

**`CanLink`** adds what is particular to a CAN link. Its descriptor is a number in the process's
table, `m_socketFd` is read by the RX thread at the start of a `read` and used a step later, and
`unblock` closes it in between; the lowest free number of `Fds` is given out again at once to whoever opens
something next (`OtherOpens`: the other link, a sysfs attribute, `sniffer.prop`). A read from a
number that has changed hands is modelled, and what it reads is marked foreign. Each status a
thread reports becomes one store in the status map and up to three attribute writes, interleaved
with those of the other three reporting threads. **`BusLink`** is what the link promises to the
bus: four states that follow the interface. `ImplementsBusLink` is the refinement.

**`UsbWatchdog`**: `watchdogLoop` cut where it looks at sysfs, at `/proc` or at the clock; the
adapter, the interface and the slcand processes are the environment. A process started by `system`
is *forked* before it is visible in `/proc`, *hung* once its adapter is gone, and *dying* between
the signal and the end of its interface. `Prompt` says whether slcand creates the interface within
the 100 ms the code waits. **`CanBus`** composes the watchdog with a link, represented by its
specification `BusLink`, in the order in which `MainService` starts and stops the two.

**`FilterEngine`**: `loadRules` in its four passes under `filter_mutex`, `process` as the first match
over the lookup tables. A byte is the set of its bits. `Sortings` is what `std::sort` may leave:
any order sorted by id, and the stable one only up to `StableLimit` elements (16 in libstdc++).
`Promised` is the reference definition, written from the protocol header over the rules as sent.

**`Sniffer`**: `handleCanData` per bus (judge, send, log), `onCommandReceived` cut at every access to
shared state, the watchdog cut where it releases `m_mutex`, start, the five stages of stop, and the
construction of the next object. Filters are the set of frame classes dropped. The age of the last
message is counted in ticks and saturates above the limit, which is all the watchdog can see.

**`ExternalService`**: the UDP service between the network and the Sniffer. A read returns any
datagram of any client, cut to what the buffer holds; the three stores that remember the sender
(address, port, flag) happen in any order, as plain writes of another thread may be seen, while the
worker and a CAN worker read them. `processPacket` decides by length, magic and declared size
whether the datagram is a command, a frame or nothing. Lengths are in units that keep the
order of the sizes of the code.

**`SnifferClient`**: the SDK's application thread (start, stop, commands), `keepAliveLoop` cut at every
load and store, and the callbacks, which store the flag and the stamp one after the other. The two
time stamps are ages in ticks; `lag` is the time since the loop read the clock, so a stamp younger
than `lag` is the case in which the unsigned difference wraps. An interval of 0 starts no keep-alive
thread, as the SDK documents it. The other end is reduced to
what the client can tell: a Sniffer that obeys and answers (`SnifferHandles`, as `UdpAct` and `UdpReply`
of `Sniffer`), resets its logging at any moment, goes away and comes back. `Lose` and the set `net`
make the network lose and reorder. Sending and stamping a datagram is one step.

**`Params`**: the keys fixed by the defaults, their values, and the file as the sequence of its lines.
A value is a text in some pairs of quotes: `parseLine` takes one pair away, `save` writes none back.
`save` is open (which truncates), one step per line, close. `ParseAndSet` reads a whole text at once: of several
lines for one key the last one stays, as in the loop over `parseLine`.

**`MainService`** extends `Params`: main thread, service thread, and the worker that handles
`CMD_SET_PARAMS` and `CMD_GET_PARAMS_REQ`; the Sniffer is reduced to null, made, up, stopping. That
stopping waits for the handler is `QuietWhenDown` of `Sniffer`, and ultimately the contract of
`CommunicationObj`; a crash is the one step that does not keep to it. That stopping may also never
end (finding 1) is `StopHangs`: the service thread is then `stuck`, for good. `createSniffer` turns the parameters into a configuration (the fields of
`parseCanConfig`, ports of 16 bits), and `Current` compares it with the parameters. `Crash` ends
the process at any step, as a fault or a kill does; what a new one finds is the file as it was left.

## 3. The runs

| Run | Bounds | Shows |
|---|---|---|
| `ring` | 4 blocks, 7 frames: indices wrap, the ring fills, `push` meets the block in use | zero copy is safe, no torn or repeated frame, loss only when full, an accepted frame or a newer one is delivered, refinement of `DropQueue` |
| `comm` | ring of 2; both kinds of link, any number of restarts | no start over live threads, nothing alive after stop, no sleeping on data, stop returns and a dead link comes back, shown as connected, unless the wakeup was lost; refinement of `ListenerContract` |
| `comm_lost_wakeup` | same | **violated**: `stop()` can wait for ever |
| `can_link` | both buses, two descriptor numbers, any number of reconnections, one other descriptor holder | the number kept is the link's own, nothing foreign reaches the listener, a healthy link is shown as such, refinement of `BusLink`, what is shown follows the interface in the end |
| `can_bus` | three process slots, a leftover slcand of a crashed service, any number of plugs and restarts, prompt slcand | never two slcand of one interface, none after stop, a serving one is left alone, an adapter that stays away is reported, one that stays plugged ends with a connected link |
| `usb_late` | two slots, slcand slower than 100 ms | **violated**: the interface stays down for ever |
| `filter` | commands of up to 4 rules of which 3 fit, 2 ids plus a flag bit, payloads of 0 to 2 bytes | frames are judged as the protocol header promises, by the rules of one complete command |
| `sniffer` | one frame class, timeout of one tick | stop leaves nothing under way, the log agrees with the wire, a monitored silent client is timed out |
| `sniffer_silence` | no CAN traffic, timeout of two ticks | **violated**: a command in the watchdog's gap leaves logging on for ever |
| `external` | two clients, datagrams on both sides of every limit, ring of two, both settings of the client port | only whole messages act, nothing is sent to an address nobody talked from, the asker is answered unless another client came in between, a client that is alone again is served |
| `client` | keep-alive every tick, two datagrams under way, up to a tick between the clock and each stamp (`MaxLag = 1`), so that the difference wraps | the wish to log gets through, the connection state follows the Sniffer, stop leaves nothing under way |
| `main_service` | 2 keys, 3 updates, 2 crashes: an update in each of two consecutive restarts and one after, a crash inside the save that follows a crash | no update forgotten, no handler without owner, clean exit, a new process runs on the last whole save or on what a cut one leaves, updates applied and a signal ends the process, unless it came early or the Sniffer's stop hangs |

The bounds are enough for the cases named: the ring's behaviour depends on the distances between
three indices modulo the number of blocks, and four blocks have all orders of them; seven frames
go round the ring nearly twice. The life cycles, the link and the watchdog have no unbounded data at
all; one number for the link and one for somebody else are what it takes for a number to change
hands, and three slots hold a leftover, a dying and a new slcand. The filter's
verdict compares pairs of rules, and three rules put an id's block of rules at the start, in
the middle and at the end of the array. Two datagrams are enough for one to overtake another, two
clients for one to be answered in place of the other. The
limit of three intervals keeps its proportion, and one tick between the clock and the stamps is what it
takes for a stamp to be the younger. A ring of two datagrams has both ways for a full ring to lose one. `CHECK_DEADLOCK` is off only for the ring, where both
threads end when the connection does.

### Fairness

* `CacheRing`: the worker and a `push` under way are scheduled; listeners return. Frames need not come.
* `CommunicationObj`: all threads are scheduled, listeners return, `read` returns once `unblock`
  has shut the socket down (that is what `unblock` is for), and `open` succeeds if it is tried for
  ever. Spurious wakeups are possible and never relied on. The owner may do nothing.
* `CanLink`: threads are scheduled, a stop that has begun continues, and a `poll` that finds an error
  waiting on the socket again and again does not time out each time. Owner, interface, the external
  service and the other users of descriptors are free.
* `UsbWatchdog`, `CanBus`: the watchdog and a stop that has begun continue; a slcand starts, fails and
  dies in the end, and one that is started again and again at an adapter that is there serves some
  time; a link that can connect again and again does. Adapter and owner are free.
* `Sniffer`: the clock runs, threads are scheduled, a stop that has begun continues. Nothing obliges
  the client to send or the owner to stop.
* `ExternalService`: threads are scheduled, and a client that goes on asking (the SDK does every 300 ms)
  is read from again and again. `LoneClientIsServed` is about a client that does; other clients may
  stop, and one that never stops keeps the others from being answered.
* `SnifferClient`: the clock runs, threads are scheduled, and the network is not cut: of datagrams sent
  again and again some arrive (strong fairness of `SnifferHandles` and `RxStatus`, with `Lose` always
  possible). That the application falls quiet is a premise of two properties, and that it has not disabled
  the keep-alives of three; neither is part of the specification: the keep-alive is skipped while other commands are sent, most of these are not answered,
  and without the premise TLC shows a client that is busy sending and counts as disconnected.
* `MainService`: the three threads are scheduled; signals, commands and crashes need not come. A `stop()` of
  the Sniffer returns once the handler is idle or hangs (`StopHangs`): nothing obliges it to hang and nothing
  keeps it from hanging, and the two liveness properties make that exception.

## 4. The findings

With a run of their own:

1. `comm_lost_wakeup`: `notifyStop` notifies without the ring's mutex, and `m_running` is lowered
   without it: the wakeup can be lost and `stop()` hangs (`StopReturns`). `StopReturnsUnlessMissed`
   shows that this is the only way for it to hang.
2. `sniffer_silence`: a last command that falls between the watchdog's check and its clearing of the
   connected flag leaves logging on with nobody monitoring it (`SilenceEndsLogging`).
   `MonitoredClientTimesOut` is what does hold.
3. `usb_late`: an interface that slcand creates later than 100 ms after its start is never set up:
   the next rounds find it present and only report it (`InterfaceComesUp`).

Reproducible by changing a run:

4. Rules of one id can be reordered by `std::sort` once a command has more than 16 rules: in
   `MCFilterEngine.cfg`, `StableLimit = 1` violates `JudgedAsPromised`.
5. The watchdog's timeout does not return the filters to pass-through, as `HLD.md:57` says it does:
   add `PassthroughAfterTimeout` to `MCSniffer.cfg`.
6. The SDK's keep-alive thread can give up a connection on which a message has just been received: the
   flag is raised before the stamp is renewed, and a stamp renewed after the clock was read makes the
   unsigned difference wrap. Add `LostOnlyAfterSilence` to `MCSnifferClient.cfg`, which has `MaxLag = 1`.
   `ReachableIsConnected` shows, with both cases in its run, that the next messages repair it.
7. A signal that is served before `run()` raises `m_running` is forgotten. `SignalEndsProcessUnlessEarly`
   shows that this, and a `stop()` that hangs (finding 1), are the only cases.
8. The LEDs do not blink as `HARDWARE_INTEGRATION.md:42-50` says: healthy is 1000/1000 ms on and off there and
   1500/1500 in the code, disconnected 200/1000 and 1000/200, a fault 1000/200 and 200/200
   (`Sniffer.cpp:427-442`, `Pattern` in `CanLink`). The code shows for disconnected what the document shows for a fault. Add
   `LedAsDocumented` to `MCCanLink.cfg`. `HealthyIsShown` says only that the delays are those of one
   status, the right one, and not which they are.

Visible in the models, and allowed by their properties:

9. A crash inside `save()` replaces the lines not yet written by defaults, not by what was configured
   before (`CutShort` in `BootRestores`).
10. A command longer than 4096 bytes has no effect and no answer, although the protocol allows 64000 bytes
    of data (`WholeMessagesOnly`). The limit of rules in one command follows from it.
11. With two clients and no configured client port, an answer can go to the address of one and the port of
    the other; an answer goes to whoever was heard last (`SendsOnlyToSenders`, `AnswersTheAsker` say when
    it does not).
12. The external service's errors are shown as those of the computer link (`HealthyIsShown`).
13. A configuration with one `#` is taken whole as the interface's name, with no watchdog, where
    `HARDWARE_INTEGRATION.md:20` says that `can0#usb-0:1.1:1.0` "is treated as" `can0#usb-0:1.1:1.0#`
    (`ParseCanConfig` in `MainService`; one of the payloads of `main_service` has this form).

Found while reading, outside the models:

14. A service that crashes within the 100 ms of a mapping leaves an interface that is never set up, as in 3.
15. Values with two or more pairs of quotes, or blanks inside quotes, change when they are saved and loaded.
16. `sniffer_client.h:33` says that `client_stop` "sends a reset command", which is commented out in
    `stop()`; `client_is_connected` keeps its last value after `stop()`.

## 5. The proofs

Each component's theorems are in a module of their own, `<component>Proofs`, over the same
definitions that TLC runs. They hold for every value of the constants; the assumptions on
those (`...Assumption` in the component's module) only give them their types, with the
exceptions named here. Every theorem rests on an inductive invariant `IInv`, checked by TLC on
the component's run before it was proved. The proof that it is inductive goes action by action, or by
groups of actions with the same effect on what the conjunct is about.

| Module | Holds for every | Proved of the properties the runs check |
|---|---|---|
| `CacheRingProofs` | buffer size, frame size, number of frames | `ZeroCopySafe`, `NoBlockRace`, `DeliveredInOrder`, `LostOnlyWhenFull`, `ImplementsDropQueue`; and that it counts as `FrameCount` does |
| `CommunicationObjProofs` | ring size, supervised or not | `QuietAfterStop`, `StartFindsNoThread`, `NoSleepOnData`, `ImplementsContract`; what stop() waits for; and that its count is that of a ring |
| `CanLinkProofs` | set of descriptor numbers, either bus | `DescriptorOwned`, `NoForeignFrame`, `HealthyIsShown`, `ImplementsBusLink` |
| `CanBusProofs` | number of slcand processes | `OneSlcand`, `QuietAfterStop`, `ServingUndisturbed`; and that the composition runs the watchdog alone and the abstract link alone |
| `FilterEngineProofs` | rules, frames, number of ids | `TablesConsistent`, `JudgedAsPromised` |
| `SnifferProofs` | frame classes, timeout | `QuietWhenDown`, `LogMatchesWire`; and that it assumes of its three links exactly the contract |
| `SnifferProofs`, last section | interval, delay of the reads, datagrams under way | `QuietWhenStopped` of `SnifferClient` |
| `ExternalServiceProofs` | clients, datagrams, sizes, ring | `WholeMessagesOnly`, `SendsOnlyToSenders`, `AnswersTheAsker` |
| `MainServiceProofs` | keys, defaults, payloads, files, numbers of updates and crashes | `NoUpdateForgotten`, `HandlerHasOwner`, `BootRestores`; and when its Sniffer may call it |

### Hypotheses

* `Prompt` (`CanBusProofs`): slcand creates its interface within the 100 ms the code gives it. The
  code does not ensure it: a slcand that is late begins to serve behind the watchdog's back, and
  the run `usb_late` shows what follows. Types and who holds the interface are proved without it.
* `Countable` (`FilterEngineProofs`): a command has fewer rules than `id_counts` can count (255). The code keeps
  to it: a read is at most 4096 bytes, a header of 152 and 157 rules of 25. `Stable`, for `JudgedAsPromised` only: a command
  has at most 16 rules, up to which libstdc++ sorts by insertion. Finding 4 is what happens beyond.
* `ServiceAssumption`: no value of a payload or of a file found at the start is in two pairs of quotes
  (finding 15 otherwise).
* `ClientBounds` (`SnifferProofs`): the constants of the client are natural numbers. It is
  `ClientAssumption` of `SnifferClient` again: the client, the other end of the Sniffer's
  protocol, is an instance on variables of its own there, and an instance does not bring its
  assumption along. Its theorems are stated of the instance's `Client!Spec` and `Client!QuietWhenStopped`.
* `FilterAssumption`: the fields of a rule have the values the protocol header names.

### The arguments

**The ring.** That the block in use is not overwritten depends on it lying directly
behind the tail (`WorkerInv`) and on the head never reaching it (`HeadInv`); that deliveries are in
order depends on the queue being sorted and on everything in it being newer than what was taken
(`QueueInv`, `TakenInv`, `DeliveredInv`), which in turn depends on how far a push has come
(`WriteInv`). The queue is described without recursion: a block is queued if its `Distance` from the tail
is smaller than the head's. The lemmas on `Distance` and `Between` say what advancing the head or the tail
does to that set.

**The ring as a queue.** `WaitingFrames` reads the blocks from tail to head as a sequence. `FramesTake`,
`FramesPublish` and `FramesWrite` say what taking, publishing and writing do to it, and the step
lemmas turn each action into one of `DropQueue` or none. Displacement moves the tail and decides to
keep the new frame in one step, so a push that waits between its writes is already in the queue
(`ArrivedFrames`); the frame a worker has taken and not yet delivered needs an invariant of its own,
`HandInv`: the block in its hand holds what was taken.

**Life cycle.** Owner and supervisor call the same `start` and `stop`. `ControlInv` says when the supervisor
exists and therefore that never both are inside; `SessionInv` follows a session through being whole, taken down
and gone; `ThreadInv` ties a thread that is not joinable to one that has ended.

**What stop() waits for.** That stop returns is liveness, but what makes it return is not. `WaitInv`: while
stop waits, `m_running` is down, the socket was shut down before the RX thread is joined, and the worker
sleeps or is about to only if it missed `notify_all` (`HangsOnlyIfMissed`: finding 1 is the only way to
hang). `WaitShrinks`: each thread has at most two steps left, each step of its own takes one away and nobody
gives one back (`WaitComesToAnEnd`). What `StopReturnsUnlessMissed` adds is that the threads are scheduled.

**One contract.** `KeepsContract` maps the owner's start and stop and the worker's callback to `ListenerContract`,
across any number of sessions the supervisor begins and ends in between; `SessionInv` and `ThreadInv` leave
no worker in its callback when the owner is outside. On the side of the user, `AssumesTheContract` compares two Sniffers: `Spec`, and `FreeSpec`, whose links may call at any
moment and whose `stop` waits for none of them. The behaviours of `FreeSpec` that keep to the contract are
exactly those of `Spec`: a free step is in `Spec` unless it calls on a link that is down or takes one down during a call
(`FreeStep`), and the steps of `Spec` keep to the contract because a handler that runs belongs to a link
that is up (`LinkInv`). So the guards that stand for the links are what `CommunicationObj` is proved to provide, no less and
no more. That a link has one thread to call with is not a guard: the state has room for one call. In
`MainService`, `CommandsKeepContract` is the weaker statement, that the Sniffer calls one command at a time and is not
deleted during one.

**One count.** `QueueStepCounts` reads each step of `DropQueue` as one of `FrameCount`, so that the refinement of
the ring carries over to its count; a queue with one frame in hand has one place less. On the side of
the life cycle, `CountIsThatOfARing` also shows that `start` deletes the ring when no block of it is in use.

**The CAN link.** `FdInv` relates the number kept, the descriptor table and the socket, through
the moment between `::close` and the assignment. `SessionInv` has the order that makes the unlocked read
harmless: `m_running` is lowered before the descriptor is closed, and a frame read after that is not
delivered (`FrameInv`). For what is shown, `LedInv` says that on the system bus the pending writes of no two
threads overlap, and which part of CONNECTED is still to be written. The refinement needs nothing more:
every step changes the abstract link as `BusLink` allows, or not at all.

**The bus.** The watchdog acts on what it saw some steps before. `MappingInv` says why that is
still true when it acts: a slcand that does not serve yet exists only while the watchdog
sleeps after starting it, so none begins to serve between its look and its action.

**The filter.** `LoadInv` says what each pass of `loadRules` leaves to the next one: the kept prefix of the
command, a sorting of it, and tables that name exactly each id's rules. That these are an interval of the array
follows from the array being sorted; that the first match in the interval is the first match of the
command follows from the sorting being stable. `process` runs under the mutex, so it sees the last of
these states only.

**The Sniffer.** `StopInv` says which threads each stage of `stop` has taken down. `WireInv` keeps the verdict on
a frame together with what was done with it until it is logged, whatever the rules are by then.

**The client.** `ClientStopInv` is the order of `client_stop`: flag, link, keep-alive thread. The bound on the
datagrams under way needs the network to be finite, which is part of the invariant.

**The UDP service.** `WholeInv` carries what a read returned to the listener. `SenderInv`: once a datagram can be
acted upon, address and port of the last sender have both been stored by somebody who talked; while
the RX thread is storing, each is either still to come or that of the current sender. `AskerInv` adds
that the address remembered belongs to a client heard since each datagram still to be answered.

**The service.** `ControlInv` says who may touch Sniffer and parameters; `ApplyInv` that a Sniffer on old
parameters has a restart coming; `FileInv` what a new process would load from the file at each step, also
between two lines of a save. Reading a text takes the last line of each key, so what `save` prints is
read back as it was: a lemma, since keys are distinct and values in memory have no quotes.

### Only model-checked

* Every liveness property (`Freshness`, `StopReturnsUnlessMissed`, `DeadLinkRestored`, `LinkFollowsInterface`,
  `AbsenceIsNoticed`, `PluggedBusConnects`, `MonitoredClientTimesOut`, `UpdateApplied`,
  `SignalEndsProcessUnlessEarly`, `LoneClientIsServed`, `WishReachesSniffer`, `ReachableIsConnected`,
  `GoneIsDisconnected`): fairness and `ENABLED` are beyond the prover.
* That a frame class of `Sniffer`, judged in one step, is the frame that `FilterEngine` judges under its
  mutex: the two are connected by `JudgedAsPromised`, not by a refinement.

## 6. Not modelled

* User interface (Python `gui`, Android fragments and resources), text layout of logs and of the
  status (`get_status`), `ObdPids.h` (constants).
* The TCP transport: built and tested, used by no part of the service.
* The Python and Android servers: they use the SDK, whose side is `SnifferClient`. The SDK's message
  queue (`readMessage`) has one mutex and no state that the rest depends on.
* The car emulators: test doubles for the two ends of the bus; in the models any frame may arrive at
  any time.
* Power failure: `save` closes the file without syncing it (`Params.hpp:53-64`), so what survives is up to the
  file system. `Crash` is a process that dies, whose closed files are whole.
* Memory exhaustion (`malloc` returning null in the ring's constructor), a full disk (a short write of
  `save`), and a `write` that uses the link's number in the moment between `::close` and the assignment
  of -1 (`DescriptorOwned` names that moment).
* `m_lastExternalMsgTime` is read and written under a mutex and is a number here; the clock is monotonic.

## 7. Plan

Every invariant, every action property and every refinement that a run checks is stated by a theorem. The
modules are connected by `DropQueue`, `FrameCount`, `ListenerContract` and `BusLink`. Left:

1. an abstract specification of a switch that forwards what one rule set allows, for `Sniffer` over
   `FilterEngine`, and the refinement;
2. the threads of `CanLink` as an implementation of those of `CommunicationObj`, of which it is a coarser copy
   with the descriptor added;
3. the polling threads of the Android service over the SDK's handle.
