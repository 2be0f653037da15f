--------------------------- MODULE CommunicationObj ---------------------------
(***************************************************************************)
(* The life cycle of a base::CommunicationObj: its owner, the supervisor of *)
(* the reconnectable mode, the RX thread and the worker thread, and the     *)
(* condition variable of CacheManager taken apart: the worker tests the     *)
(* predicate with CacheManager::m_mutex held, and only then goes to sleep.  *)
(*                                                                          *)
(* start() and stop() are called by the owner and by the supervisor; their  *)
(* bodies are the same steps for both callers.  The ring itself is reduced  *)
(* to the number of frames in it: CacheRing.tla shows that it is a bounded  *)
(* queue that drops.                                                        *)
(***************************************************************************)
EXTENDS Naturals

CONSTANT QueueCap   \* frames the ring can hold

ASSUME CommAssumption == QueueCap \in Nat \ {0}

Caller == {"owner", "sup"}

VARIABLES
    supervised,  \* how the owner starts it: start_reconnectable_mode (CAN) or start (UDP)
    running,     \* m_running
    reconnect,   \* m_reconnectMode
    mutex,       \* m_mutex: "free" or its holder
    opened,      \* the derived class holds a socket
    unblocked,   \* unblock() has shut that socket down
    pc,          \* control of the owner and of the supervisor
    was,         \* stop()'s local wasRunning, per caller
    rxpc,        \* RX thread, "none" before it is spawned
    rxJoinable,  \* m_rxThread.joinable()
    wkpc,        \* worker thread
    wkJoinable,  \* m_workerThread.joinable()
    queued,      \* frames in the ring
    status,      \* the last status given to the listener
    missed       \* history: the last notify_all found the worker about to sleep

flags == <<supervised, running, reconnect, mutex>>
socketVars == <<opened, unblocked>>
threads == <<rxpc, rxJoinable, wkpc, wkJoinable>>
vars == <<flags, socketVars, pc, was, threads, queued, status, missed>>

Stopping == {"stop", "stopStatus", "stopNotify", "stopUnblock", "joinRx", "joinWorker", "close"}
Starting == {"start", "connected", "spawnRx", "spawnWorker"}

TypeOK ==
    /\ supervised \in BOOLEAN
    /\ running \in BOOLEAN /\ reconnect \in BOOLEAN
    /\ mutex \in Caller \cup {"free"}
    /\ opened \in BOOLEAN /\ unblocked \in BOOLEAN
    /\ pc \in [Caller -> Stopping \cup Starting
                 \cup {"idle", "up", "joinSup", "none", "loop", "checkMode", "exit"}]
    /\ was \in [Caller -> BOOLEAN]
    /\ rxpc \in {"none", "loop", "read", "error", "drop", "exit"}
    /\ wkpc \in {"none", "loop", "test", "asleep", "awake", "taken", "callback", "exit"}
    /\ rxJoinable \in BOOLEAN /\ wkJoinable \in BOOLEAN
    /\ queued \in 0 .. QueueCap
    /\ status \in {"NONE", "CONNECTING", "CONNECTED", "DISCONNECTED", "ERROR"}
    /\ missed \in BOOLEAN

Init ==
    /\ supervised \in BOOLEAN
    /\ running = FALSE /\ reconnect = FALSE /\ mutex = "free"
    /\ opened = FALSE /\ unblocked = FALSE
    /\ pc = [c \in Caller |-> IF c = "owner" THEN "idle" ELSE "none"]
    /\ was = [c \in Caller |-> FALSE]
    /\ rxpc = "none" /\ rxJoinable = FALSE /\ wkpc = "none" /\ wkJoinable = FALSE
    /\ queued = 0 /\ status = "NONE" /\ missed = FALSE

Goto(c, label) == pc' = [pc EXCEPT ![c] = label]

\* Where the two callers go on after start() and after stop().
AfterStart(c, ok) == IF c = "sup" THEN "loop" ELSE IF ok THEN "up" ELSE "idle"
AfterStop(c) == IF c = "sup" THEN "checkMode" ELSE "idle"

-----------------------------------------------------------------------------
(* bool start(): m_mutex is held throughout. *)

\* if (m_running) return true; if (open() != 0) return false
StartRefused(c) ==
    /\ pc[c] = "start" /\ mutex = "free"
    /\ running \/ ~opened          \* open() of an open socket always succeeds
    /\ Goto(c, AfterStart(c, running))
    /\ UNCHANGED <<flags, socketVars, was, threads, queued, status, missed>>

\* open() succeeds, a new CacheManager replaces the old one, m_running = true
StartOpen(c) ==
    /\ pc[c] = "start" /\ mutex = "free" /\ ~running
    /\ mutex' = c
    /\ unblocked' = (opened /\ unblocked)
    /\ opened' = TRUE
    /\ queued' = 0
    /\ running' = TRUE
    /\ Goto(c, "connected")
    /\ UNCHANGED <<supervised, reconnect, was, threads, status, missed>>

StartConnected(c) ==
    /\ pc[c] = "connected"
    /\ status' = "CONNECTED"
    /\ Goto(c, "spawnRx")
    /\ UNCHANGED <<flags, socketVars, was, threads, queued, missed>>

SpawnRx(c) ==
    /\ pc[c] = "spawnRx"
    /\ rxpc' = "loop" /\ rxJoinable' = TRUE
    /\ Goto(c, "spawnWorker")
    /\ UNCHANGED <<flags, socketVars, was, wkpc, wkJoinable, queued, status, missed>>

SpawnWorker(c) ==
    /\ pc[c] = "spawnWorker"
    /\ wkpc' = "loop" /\ wkJoinable' = TRUE
    /\ missed' = FALSE
    /\ mutex' = "free"
    /\ Goto(c, AfterStart(c, TRUE))
    /\ UNCHANGED <<supervised, running, reconnect, socketVars, was, rxpc, rxJoinable, queued, status>>

Start(c) == StartRefused(c) \/ StartOpen(c) \/ StartConnected(c) \/ SpawnRx(c) \/ SpawnWorker(c)

-----------------------------------------------------------------------------
(* void stop(): m_mutex is held only while m_running is taken down. *)

StopNothing(c) ==
    /\ pc[c] = "stop" /\ mutex = "free"
    /\ ~running /\ ~rxJoinable /\ ~wkJoinable
    /\ Goto(c, AfterStop(c))
    /\ UNCHANGED <<flags, socketVars, was, threads, queued, status, missed>>

StopRunning(c) ==
    /\ pc[c] = "stop" /\ mutex = "free"
    /\ running \/ rxJoinable \/ wkJoinable
    /\ was' = [was EXCEPT ![c] = running]
    /\ running' = FALSE
    /\ Goto(c, "stopStatus")
    /\ UNCHANGED <<supervised, reconnect, mutex, socketVars, threads, queued, status, missed>>

StopStatus(c) ==
    /\ pc[c] = "stopStatus"
    /\ status' = IF was[c] THEN "DISCONNECTED" ELSE status
    /\ Goto(c, "stopNotify")
    /\ UNCHANGED <<flags, socketVars, was, threads, queued, missed>>

\* Mutant: stop() does not wake the worker.
StopNotifyMissing(c) ==
    /\ pc[c] = "stopNotify"
    /\ Goto(c, "stopUnblock")
    /\ UNCHANGED <<flags, socketVars, was, threads, queued, status, missed>>

\* m_cacheManager->notifyStop(): notify_all without CacheManager::m_mutex.  A worker
\* that is asleep wakes; one that has tested the predicate and not yet slept does not.
StopNotify(c) ==
    /\ pc[c] = "stopNotify"
    /\ wkpc' = IF wkpc = "asleep" THEN "awake" ELSE wkpc
    /\ missed' = (wkpc = "test")
    /\ Goto(c, "stopUnblock")
    /\ UNCHANGED <<flags, socketVars, was, rxpc, rxJoinable, wkJoinable, queued, status>>

StopUnblock(c) ==
    /\ pc[c] = "stopUnblock"
    /\ unblocked' = TRUE
    /\ Goto(c, "joinRx")
    /\ UNCHANGED <<flags, opened, was, threads, queued, status, missed>>

JoinRx(c) ==
    /\ pc[c] = "joinRx"
    /\ rxJoinable => rxpc = "exit"
    /\ rxJoinable' = FALSE
    /\ Goto(c, "joinWorker")
    /\ UNCHANGED <<flags, socketVars, was, rxpc, wkpc, wkJoinable, queued, status, missed>>

\* Mutant: the worker is left to finish on its own.
JoinWorkerSkipped(c) ==
    /\ pc[c] = "joinWorker"
    /\ wkJoinable' = FALSE
    /\ Goto(c, "close")
    /\ UNCHANGED <<flags, socketVars, was, wkpc, rxpc, rxJoinable, queued, status, missed>>

JoinWorker(c) ==
    /\ pc[c] = "joinWorker"
    /\ wkJoinable => wkpc = "exit"
    /\ wkJoinable' = FALSE
    /\ Goto(c, "close")
    /\ UNCHANGED <<flags, socketVars, was, wkpc, rxpc, rxJoinable, queued, status, missed>>

StopClose(c) ==
    /\ pc[c] = "close"
    /\ opened' = FALSE
    /\ Goto(c, AfterStop(c))
    /\ UNCHANGED <<flags, unblocked, was, threads, queued, status, missed>>

Stop(c) == StopNothing(c) \/ StopRunning(c) \/ StopStatus(c) \/ StopNotify(c)
              \/ StopUnblock(c) \/ JoinRx(c) \/ JoinWorker(c) \/ StopClose(c)

-----------------------------------------------------------------------------
(* The owner: one thread that starts, and later stops, the object. *)

\* start_reconnectable_mode(), or start()
OwnerStart ==
    /\ pc["owner"] = "idle"
    /\ reconnect' = supervised
    /\ pc' = IF supervised THEN [pc EXCEPT !["owner"] = "up", !["sup"] = "loop"]
                              ELSE [pc EXCEPT !["owner"] = "start"]
    /\ UNCHANGED <<supervised, running, mutex, socketVars, was, threads, queued, status, missed>>

\* stop_reconnectable_mode(), or stop()
OwnerStop ==
    /\ pc["owner"] = "up"
    /\ reconnect' = FALSE
    /\ Goto("owner", IF supervised THEN "joinSup" ELSE "stop")
    /\ UNCHANGED <<supervised, running, mutex, socketVars, was, threads, queued, status, missed>>

\* m_supervisorThread.join(), then stop()
OwnerJoinSup ==
    /\ pc["owner"] = "joinSup" /\ pc["sup"] = "exit"
    /\ pc' = [pc EXCEPT !["owner"] = "stop", !["sup"] = "none"]
    /\ UNCHANGED <<flags, socketVars, was, threads, queued, status, missed>>

(* supervisorThreadLoop; its sleeps are only delays. *)

\* Mutant: the supervisor restarts without cleaning up.
SupDownNoStop ==
    /\ pc["sup"] = "loop" /\ reconnect /\ ~running
    /\ Goto("sup", "checkMode")
    /\ UNCHANGED <<flags, socketVars, was, threads, queued, status, missed>>

SupDown ==
    /\ pc["sup"] = "loop" /\ reconnect /\ ~running
    /\ Goto("sup", "stop")
    /\ UNCHANGED <<flags, socketVars, was, threads, queued, status, missed>>

SupConnecting ==
    /\ pc["sup"] = "checkMode" /\ reconnect
    /\ status' = "CONNECTING"
    /\ Goto("sup", "start")
    /\ UNCHANGED <<flags, socketVars, was, threads, queued, missed>>

SupExit ==
    /\ pc["sup"] \in {"loop", "checkMode"} /\ ~reconnect
    /\ Goto("sup", "exit")
    /\ UNCHANGED <<flags, socketVars, was, threads, queued, status, missed>>

Supervisor == SupDown \/ SupConnecting \/ SupExit

-----------------------------------------------------------------------------
(* rxThreadLoop *)

RxLoop ==
    /\ rxpc = "loop"
    /\ rxpc' = IF running THEN "read" ELSE "exit"
    /\ UNCHANGED <<flags, socketVars, pc, was, rxJoinable, wkpc, wkJoinable, queued, status, missed>>

\* The frame the listener is looking at still occupies its place.
InHand == IF wkpc \in {"taken", "callback"} THEN 1 ELSE 0

\* Mutant: push() does not take the mutex of the condition variable.
RxFrameUnlocked ==
    /\ rxpc = "read"
    /\ queued' = IF queued + InHand < QueueCap THEN queued + 1 ELSE queued
    /\ wkpc' = IF wkpc = "asleep" THEN "awake" ELSE wkpc
    /\ rxpc' = "loop"
    /\ UNCHANGED <<flags, socketVars, pc, was, rxJoinable, wkJoinable, status, missed>>

\* A frame: push() takes CacheManager::m_mutex, keeps at most QueueCap frames and notifies.
RxFrame ==
    /\ rxpc = "read" /\ wkpc # "test"
    /\ queued' = IF queued + InHand < QueueCap THEN queued + 1 ELSE queued
    /\ wkpc' = IF wkpc = "asleep" THEN "awake" ELSE wkpc
    /\ rxpc' = "loop"
    /\ UNCHANGED <<flags, socketVars, pc, was, rxJoinable, wkJoinable, status, missed>>

\* read() returns 0: the poll timed out, or a signal came.
RxNothing ==
    /\ rxpc = "read"
    /\ rxpc' = "loop"
    /\ UNCHANGED <<flags, socketVars, pc, was, rxJoinable, wkpc, wkJoinable, queued, status, missed>>

\* read() fails: the interface is gone.  if (m_running) { onError(...); ...
RxFail ==
    /\ rxpc = "read"
    /\ rxpc' = IF running THEN "error" ELSE "loop"
    /\ UNCHANGED <<flags, socketVars, pc, was, rxJoinable, wkpc, wkJoinable, queued, status, missed>>

\* onError and onStatusChanged(STATUS_ERROR)
RxError ==
    /\ rxpc = "error"
    /\ status' = "ERROR"
    /\ rxpc' = "drop"
    /\ UNCHANGED <<flags, socketVars, pc, was, rxJoinable, wkpc, wkJoinable, queued, missed>>

\* Mutant: the RX thread leaves without lowering the flag.
RxDropSilent ==
    /\ rxpc = "drop"
    /\ rxpc' = "exit"
    /\ UNCHANGED <<flags, socketVars, pc, was, rxJoinable, wkpc, wkJoinable, queued,
                   status, missed>>

\* m_running = false; break
RxDrop ==
    /\ rxpc = "drop"
    /\ running' = FALSE
    /\ rxpc' = "exit"
    /\ UNCHANGED <<supervised, reconnect, mutex, socketVars, pc, was, rxJoinable, wkpc, wkJoinable, queued,
                   status, missed>>

RxReturns == RxNothing \/ RxFail
Rx == RxLoop \/ RxFrame \/ RxReturns \/ RxError \/ RxDrop

-----------------------------------------------------------------------------
(* CacheManager::process on the worker thread *)

\* while (running)
WorkerLoop ==
    /\ wkpc = "loop"
    /\ wkpc' = IF running THEN "awake" ELSE "exit"
    /\ UNCHANGED <<flags, socketVars, pc, was, rxpc, rxJoinable, wkJoinable, queued, status, missed>>

\* The predicate of m_cond.wait, evaluated with CacheManager::m_mutex held.
WorkerTest ==
    /\ wkpc = "awake"
    /\ wkpc' = IF ~running THEN "exit" ELSE IF queued > 0 THEN "taken" ELSE "test"
    /\ queued' = IF running /\ queued > 0 THEN queued - 1 ELSE queued
    /\ UNCHANGED <<flags, socketVars, pc, was, rxpc, rxJoinable, wkJoinable, status, missed>>

\* The mutex is released and the thread sleeps, in one step of the condition variable.
WorkerSleep ==
    /\ wkpc = "test"
    /\ wkpc' = "asleep"
    /\ UNCHANGED <<flags, socketVars, pc, was, rxpc, rxJoinable, wkJoinable, queued, status, missed>>

\* A condition variable may wake for no reason; nothing makes it do so.
WorkerSpurious ==
    /\ wkpc = "asleep"
    /\ wkpc' = "awake"
    /\ UNCHANGED <<flags, socketVars, pc, was, rxpc, rxJoinable, wkJoinable, queued, status, missed>>

\* if (running) listener.onDataReceived(...)
WorkerTaken ==
    /\ wkpc = "taken"
    /\ wkpc' = IF running THEN "callback" ELSE "loop"
    /\ UNCHANGED <<flags, socketVars, pc, was, rxpc, rxJoinable, wkJoinable, queued, status, missed>>

WorkerReturns ==
    /\ wkpc = "callback"
    /\ wkpc' = "loop"
    /\ UNCHANGED <<flags, socketVars, pc, was, rxpc, rxJoinable, wkJoinable, queued, status, missed>>

Worker == WorkerLoop \/ WorkerTest \/ WorkerSleep \/ WorkerTaken \/ WorkerReturns

Next == OwnerStart \/ OwnerStop \/ OwnerJoinSup \/ Supervisor \/ Rx \/ Worker \/ WorkerSpurious
            \/ \E c \in Caller : Start(c) \/ Stop(c)

Spec == Init /\ [][Next]_vars

\* Every thread is scheduled and the listener returns.  read() need not return on its own,
\* only once unblock() has shut the socket down, and open() succeeds if it is tried for
\* ever.  The owner is free to do nothing.
FairSpec ==
    /\ Spec
    /\ WF_vars(Worker)
    /\ WF_vars(RxLoop \/ RxError \/ RxDrop)
    /\ WF_vars(unblocked /\ RxReturns)
    /\ WF_vars(Supervisor)
    /\ WF_vars(OwnerJoinSup)
    /\ \A c \in Caller : WF_vars(Start(c)) /\ WF_vars(Stop(c)) /\ SF_vars(StartOpen(c))

-----------------------------------------------------------------------------
(* Properties. *)

RxGone == rxpc \in {"none", "exit"}
WorkerGone == wkpc \in {"none", "exit"}

\* start() deletes the old ring and assigns to the two std::thread members.  Whenever it
\* does, both threads of the session before are gone and joined, although the
\* supervisor calls it after a failure that the RX thread itself reported.
StartFindsNoThread ==
    \A c \in Caller : pc[c] \in {"connected", "spawnRx"} =>
        ~rxJoinable /\ ~wkJoinable /\ RxGone /\ WorkerGone

\* Once the owner's stop has returned nothing of the object is alive: no thread that
\* could still call the listener, no supervisor that would reconnect, no socket.
QuietAfterStop ==
    /\ TypeOK
    /\ pc["owner"] = "idle" =>
           ~running /\ RxGone /\ WorkerGone /\ pc["sup"] = "none" /\ ~opened

\* The worker never sleeps while frames wait: push() cannot notify between the worker's
\* test of the predicate and its sleep, as it needs the mutex the worker holds there.
NoSleepOnData == wkpc = "asleep" => queued = 0

OwnerStopping == pc["owner"] \in Stopping \cup {"joinSup"}

\* "Wake up worker thread so it can exit": a stop that was begun returns.
StopReturns == OwnerStopping ~> pc["owner"] = "idle"

\* A stop that was begun returns, unless its notification fell into the gap between
\* the worker's test of the predicate and its sleep.
StopReturnsUnlessMissed == OwnerStopping ~> (pc["owner"] = "idle" \/ missed)

\* In reconnectable mode a link whose RX thread has died is brought up again, and its
\* listener is told so after every ERROR of the session that died, unless the mode is left
\* or the clean-up hangs on the missed notification.
DeadLinkRestored ==
    (rxpc = "exit" /\ reconnect) ~>
        ((running /\ rxpc \in {"loop", "read"} /\ status = "CONNECTED") \/ ~reconnect \/ missed)

Contract == INSTANCE ListenerContract
                WITH active <- pc["owner"] # "idle", calling <- wkpc = "callback"

\* What the owners rely on, through every failure and restart by the supervisor: the worker
\* calls the listener one frame at a time, and never before the start or after the stop.
ImplementsContract == Contract!Spec

Ring == INSTANCE FrameCount
            WITH Places <- QueueCap, waiting <- queued, busy <- wkpc \in {"taken", "callback"}

\* The count of frames moves as that of CacheRing does; and the ring is replaced only when
\* the worker holds none of its blocks, although start() asks nobody.
CountsAsRing == Ring!RenewedSpec
=============================================================================
