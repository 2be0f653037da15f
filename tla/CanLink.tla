------------------------------- MODULE CanLink -------------------------------
(***************************************************************************)
(* One CAN link of the Sniffer: ObdCanbusCommunication with its file        *)
(* descriptor, which the RX thread, writers on other threads and stop() use *)
(* without a lock, under the supervisor of CommunicationObj (start and stop *)
(* in less detail than CommunicationObj.tla); and what the link reports     *)
(* through Sniffer::handleStatusChanged, the entry in StatusManager and the *)
(* LED, which LedControllerUtil writes one sysfs attribute at a time.  The  *)
(* interface (variable net) comes and goes as in UsbWatchdog.tla.           *)
(***************************************************************************)
EXTENDS Integers, Sequences

CONSTANT Fds    \* the numbers of the process's descriptor table

ASSUME FdsAssumption == Fds \subseteq Nat /\ Fds # {}

VARIABLES
    net,        \* the CAN interface: none, down or up
    bus,        \* which bus: the computer link shares its key with the external service
    lrun,       \* CommunicationObj::m_running
    reconnect,  \* m_reconnectMode
    lpc,        \* the owner (the service thread) and the supervisor
    rx,         \* rxThreadLoop
    rxfd,       \* the descriptor the RX thread has passed to ::read
    fd,         \* m_socketFd
    desc,       \* the process's descriptor table
    sock,       \* the link's socket: none, unbound, bound, or stale (its interface is gone)
    ring,       \* origin of the frame in the ring, empty if none
    strayed,    \* history: a frame of another descriptor was given to the listener
    ext,        \* the external service: down, up or failed
    board,      \* StatusManager's entry "Connection: ..."
    led,        \* delay_on and delay_off of the LED
    pend        \* the attribute writes each reporting thread has still to do

socketVars == <<rxfd, fd, desc, sock>>
showVars == <<board, led, pend>>
vars == <<net, bus, lrun, reconnect, lpc, rx, socketVars, ring, strayed, ext, showVars>>

Closed == -1
Caller == {"own", "sup"}
Reporter == {"own", "sup", "rx", "ext"}

Times == {200, 500, 1000, 1500}                \* milliseconds
Writes == {"trigger", "on", "off"} \X Times   \* of sysfs attributes

TypeOK ==
    /\ net \in {"none", "down", "up"} /\ bus \in {"system", "computer"} /\ lrun \in BOOLEAN /\ reconnect \in BOOLEAN
    /\ lpc \in [Caller -> {"idle", "up", "joinSup", "stop", "unblock", "clear", "join", "close",
                           "stopExt", "loop", "mode", "start", "bind", "undo", "spawn", "exit"}]
    /\ rx \in {"none", "loop", "poll", "load", "read", "error", "error2", "drop", "exit"}
    /\ {fd, rxfd} \subseteq Fds \cup {Closed}
    /\ desc \in [Fds -> {"none", "link", "other"}]
    /\ sock \in {"none", "unbound", "bound", "stale"}
    /\ ring \in {"empty", "own", "foreign"} /\ strayed \in BOOLEAN
    /\ ext \in {"down", "up", "failing", "failed"}
    /\ board \in {"NONE", "CONNECTED", "DISCONNECTED", "ERROR", "UNKNOWN"}
    /\ led \in [{"on", "off"} -> Times]
    /\ pend \in [Reporter -> Seq(Writes)]

Delays(on, off) == [d \in {"on", "off"} |-> IF d = "on" THEN on ELSE off]

Init ==
    /\ net \in {"none", "up"} /\ bus \in {"system", "computer"}
    /\ lrun = FALSE /\ reconnect = FALSE
    /\ lpc = [c \in Caller |-> IF c = "own" THEN "idle" ELSE "exit"]
    /\ rx = "none" /\ rxfd = Closed /\ fd = Closed
    /\ desc = [n \in Fds |-> "none"] /\ sock = "none"
    /\ ring = "empty" /\ strayed = FALSE /\ ext = "down"
    /\ board = "NONE"
    /\ led = Delays(200, 1500)      \* LED_INIT_ON_MS and LED_INIT_OFF_MS
    /\ pend = [t \in Reporter |-> <<>>]

-----------------------------------------------------------------------------
(* handleStatusChanged and setTimer *)

Idle(t) == pend[t] = <<>>
Unheld(n) == desc[n] = "none"
LGoto(c, from, to) == lpc[c] = from /\ lpc' = [lpc EXCEPT ![c] = to]

\* The blinking of a status as the code has it, which is not that of HARDWARE_INTEGRATION.md
\* (LedAsDocumented below); isRealHardware asks for the interface at this moment.
Pattern(st) == CASE st = "CONNECTED" -> IF net # "none" THEN <<1500, 1500>> ELSE <<200, 1500>>
                 [] st = "DISCONNECTED" -> <<1000, 200>>
                 [] st = "ERROR" -> <<200, 200>>

\* setTimer: trigger, delay_on and delay_off, each write under the lock by itself
SetTimer(p) == << <<"trigger", 500>>, <<"on", p[1]>>, <<"off", p[2]>> >>

\* The entry is stored first, CONNECTING as UNKNOWN, which also leaves the LED alone.
Report(t, st) ==
    /\ board' = IF st = "CONNECTING" THEN "UNKNOWN" ELSE st
    /\ pend' = [pend EXCEPT ![t] = IF st = "CONNECTING" THEN <<>> ELSE SetTimer(Pattern(st))]
    /\ UNCHANGED led

\* A source other than the system is taken for the computer link.
ReportExternal(t, st) ==
    IF bus = "computer" THEN Report(t, st) ELSE UNCHANGED showVars

\* writeAttr.  Selecting the trigger makes the kernel start over with its own delays.
LedWrite(t) ==
    /\ pend[t] # <<>>
    /\ LET w == Head(pend[t]) IN
         led' = IF w[1] = "trigger" THEN Delays(w[2], w[2]) ELSE [led EXCEPT ![w[1]] = w[2]]
    /\ pend' = [pend EXCEPT ![t] = Tail(@)]
    /\ UNCHANGED <<net, bus, lrun, reconnect, lpc, rx, socketVars, ring, strayed, ext, board>>

-----------------------------------------------------------------------------
(* start(), called by the supervisor *)

\* open(): socket() hands out the lowest free number
Socket ==
    /\ LGoto("sup", "start", "bind") /\ Idle("sup")
    /\ \E n \in Fds : Unheld(n) /\ (\A k \in Fds : Unheld(k) => n <= k)
                          /\ fd' = n /\ desc' = [desc EXCEPT ![n] = "link"]
    /\ sock' = "unbound"
    /\ UNCHANGED <<net, bus, lrun, reconnect, rx, rxfd, ring, strayed, ext, showVars>>

\* the interface is there: bind, a new CacheManager, m_running = true, CONNECTED
Bind ==
    /\ LGoto("sup", "bind", "spawn") /\ net # "none"
    /\ sock' = "bound"
    /\ ring' = "empty"
    /\ lrun' = TRUE
    /\ Report("sup", "CONNECTED")
    /\ UNCHANGED <<net, bus, reconnect, rx, rxfd, fd, desc, strayed, ext>>

\* it is not: the socket is closed, then the member cleared
BindFails ==
    /\ LGoto("sup", "bind", "undo") /\ net = "none"
    /\ desc' = [desc EXCEPT ![fd] = "none"]
    /\ sock' = "none"
    /\ UNCHANGED <<net, bus, lrun, reconnect, rx, rxfd, fd, ring, strayed, ext, showVars>>

BindUndone ==
    /\ LGoto("sup", "undo", "loop")
    /\ fd' = Closed
    /\ UNCHANGED <<net, bus, lrun, reconnect, rx, rxfd, desc, sock, ring, strayed, ext, showVars>>

Spawn ==
    /\ LGoto("sup", "spawn", "loop") /\ Idle("sup")
    /\ rx' = "loop"
    /\ UNCHANGED <<net, bus, lrun, reconnect, socketVars, ring, strayed, ext, showVars>>

-----------------------------------------------------------------------------
(* stop(), called by the supervisor and by the owner *)

AfterStop(c) == IF c = "sup" THEN "mode" ELSE "stopExt"

StopNothing(c) ==
    /\ LGoto(c, "stop", AfterStop(c)) /\ ~lrun /\ rx = "none"
    /\ UNCHANGED <<net, bus, lrun, reconnect, rx, socketVars, ring, strayed, ext, showVars>>

\* Mutant: the flag stays up until the threads have been joined.
StopKeepsRunning(c) ==
    /\ LGoto(c, "stop", "unblock") /\ (lrun \/ rx # "none")
    /\ UNCHANGED <<net, bus, lrun, reconnect, rx, socketVars, ring, strayed, ext, showVars>>

\* m_running = false; DISCONNECTED if it was running
StopFlag(c) ==
    /\ LGoto(c, "stop", "unblock") /\ (lrun \/ rx # "none")
    /\ lrun' = FALSE
    /\ IF lrun THEN Report(c, "DISCONNECTED") ELSE UNCHANGED showVars
    /\ UNCHANGED <<net, bus, reconnect, rx, socketVars, ring, strayed, ext>>

\* unblock(): shutdown and ::close, ...
Unblock(c) ==
    /\ LGoto(c, "unblock", IF fd = Closed THEN "join" ELSE "clear") /\ Idle(c)
    /\ desc' = IF fd = Closed THEN desc ELSE [desc EXCEPT ![fd] = "none"]
    /\ sock' = IF fd = Closed THEN sock ELSE "none"
    /\ UNCHANGED <<net, bus, lrun, reconnect, rx, rxfd, fd, ring, strayed, ext, showVars>>

\* Mutant: unblock() keeps the number of the socket it has closed.
UnblockKeeps(c) ==
    /\ LGoto(c, "clear", "join")
    /\ UNCHANGED <<net, bus, lrun, reconnect, rx, socketVars, ring, strayed, ext, showVars>>

\* ... and m_socketFd = -1
UnblockClear(c) ==
    /\ LGoto(c, "clear", "join")
    /\ fd' = Closed
    /\ UNCHANGED <<net, bus, lrun, reconnect, rx, rxfd, desc, sock, ring, strayed, ext, showVars>>

\* Mutant: the RX thread is not waited for.
JoinSkipped(c) ==
    /\ LGoto(c, "join", "close")
    /\ UNCHANGED <<net, bus, lrun, reconnect, rx, socketVars, ring, strayed, ext, showVars>>

Join(c) ==
    /\ LGoto(c, "join", "close") /\ rx \in {"none", "exit"}
    /\ rx' = "none"
    /\ UNCHANGED <<net, bus, lrun, reconnect, socketVars, ring, strayed, ext, showVars>>

\* close(): closes what m_socketFd still names
Close(c) ==
    /\ LGoto(c, "close", AfterStop(c))
    /\ desc' = IF fd = Closed THEN desc ELSE [desc EXCEPT ![fd] = "none"]
    /\ fd' = Closed
    /\ UNCHANGED <<net, bus, lrun, reconnect, rx, rxfd, sock, ring, strayed, ext, showVars>>

LinkStop(c) == StopNothing(c) \/ StopFlag(c) \/ Unblock(c) \/ UnblockClear(c) \/ Join(c) \/ Close(c)

-----------------------------------------------------------------------------
(* The owner: Sniffer::start and Sniffer::stop, as far as this link is concerned *)

\* start_reconnectable_mode(), then m_externalService->start(), which may fail to bind
OwnerStart ==
    /\ lpc["own"] = "idle"
    /\ lpc' = [lpc EXCEPT !["own"] = "up", !["sup"] = "loop"]
    /\ reconnect' = TRUE
    /\ \/ ext' = "up" /\ ReportExternal("own", "CONNECTED")
       \/ ext' = "down" /\ UNCHANGED showVars
    /\ UNCHANGED <<net, bus, lrun, rx, socketVars, ring, strayed>>

OwnerStop ==
    /\ LGoto("own", "up", "joinSup") /\ Idle("own")
    /\ reconnect' = FALSE
    /\ UNCHANGED <<net, bus, lrun, rx, socketVars, ring, strayed, ext, showVars>>

OwnerJoinSup ==
    /\ LGoto("own", "joinSup", "stop") /\ lpc["sup"] = "exit"
    /\ UNCHANGED <<net, bus, lrun, reconnect, rx, socketVars, ring, strayed, ext, showVars>>

\* m_externalService->stop(): DISCONNECTED if it was running; its thread has been joined
OwnerStopExt ==
    /\ LGoto("own", "stopExt", "idle") /\ Idle("own") /\ Idle("ext") /\ ext # "failing"
    /\ ext' = "down"
    /\ IF ext = "up" THEN ReportExternal("own", "DISCONNECTED") ELSE UNCHANGED showVars
    /\ UNCHANGED <<net, bus, lrun, reconnect, rx, socketVars, ring, strayed>>

\* The RX thread of the external service meets an error: onError and onStatusChanged report
\* it one after the other.  Nobody starts the service again.
ExtError ==
    /\ ext = "up" /\ lpc["own"] = "up"
    /\ ext' = "failing"
    /\ ReportExternal("ext", "ERROR")
    /\ UNCHANGED <<net, bus, lrun, reconnect, lpc, rx, socketVars, ring, strayed>>

ExtFails ==
    /\ ext = "failing" /\ Idle("ext")
    /\ ext' = "failed"
    /\ ReportExternal("ext", "ERROR")
    /\ UNCHANGED <<net, bus, lrun, reconnect, lpc, rx, socketVars, ring, strayed>>

(* supervisorThreadLoop *)

SupDown ==
    /\ LGoto("sup", "loop", IF reconnect THEN "stop" ELSE "exit") /\ (~lrun \/ ~reconnect)
    /\ UNCHANGED <<net, bus, lrun, reconnect, rx, socketVars, ring, strayed, ext, showVars>>

SupConnecting ==
    /\ LGoto("sup", "mode", IF reconnect THEN "start" ELSE "exit")
    /\ IF reconnect THEN Report("sup", "CONNECTING") ELSE UNCHANGED showVars
    /\ UNCHANGED <<net, bus, lrun, reconnect, rx, socketVars, ring, strayed, ext>>

Supervisor == SupDown \/ SupConnecting \/ Socket \/ Bind \/ BindFails \/ BindUndone \/ Spawn

-----------------------------------------------------------------------------
(* rxThreadLoop and read() *)

RxGoto(from, to) == rx = from /\ rx' = to

RxLoop ==
    /\ RxGoto("loop", IF lrun THEN "poll" ELSE "exit")
    /\ UNCHANGED <<net, bus, lrun, reconnect, lpc, socketVars, ring, strayed, ext, showVars>>

\* Mutant: a poll that times out counts as an error.
RxPollStrict ==
    /\ \/ RxGoto("poll", IF lrun THEN "error" ELSE "loop")
       \/ fd # Closed /\ RxGoto("poll", "load")
    /\ UNCHANGED <<net, bus, lrun, reconnect, lpc, socketVars, ring, strayed, ext, showVars>>

\* m_socketFd < 0 fails; otherwise poll() times out or finds something to read
RxPoll ==
    /\ \/ fd = Closed /\ RxGoto("poll", IF lrun THEN "error" ELSE "loop")
       \/ fd # Closed /\ (RxGoto("poll", "loop") \/ RxGoto("poll", "load"))
    /\ UNCHANGED <<net, bus, lrun, reconnect, lpc, socketVars, ring, strayed, ext, showVars>>

\* m_socketFd is read once more, for ::read
RxLoad ==
    /\ RxGoto("load", "read")
    /\ rxfd' = fd
    /\ UNCHANGED <<net, bus, lrun, reconnect, lpc, fd, desc, sock, ring, strayed, ext, showVars>>

Origin == IF rxfd # Closed /\ desc[rxfd] = "link" THEN "own" ELSE "foreign"
Readable == rxfd # Closed /\ \/ desc[rxfd] = "link" /\ sock = "bound" /\ net = "up"
                             \/ desc[rxfd] = "other"

\* A frame of the descriptor's present owner is pushed into the ring.
RxFrame ==
    /\ RxGoto("read", "loop") /\ Readable
    /\ ring' = Origin
    /\ rxfd' = Closed
    /\ UNCHANGED <<net, bus, lrun, reconnect, lpc, fd, desc, sock, strayed, ext, showVars>>

\* The interface is down or gone, or the descriptor closed.
RxFails ==
    /\ RxGoto("read", IF lrun THEN "error" ELSE "loop")
    /\ rxfd # Closed /\ desc[rxfd] = "link" => sock # "bound" \/ net # "up"
    /\ rxfd' = Closed
    /\ UNCHANGED <<net, bus, lrun, reconnect, lpc, fd, desc, sock, ring, strayed, ext, showVars>>

\* onError, which reports ERROR, then onStatusChanged(STATUS_ERROR)
RxError ==
    /\ RxGoto("error", "error2") \/ RxGoto("error2", "drop")
    /\ Idle("rx")
    /\ Report("rx", "ERROR")
    /\ UNCHANGED <<net, bus, lrun, reconnect, lpc, socketVars, ring, strayed, ext>>

\* Mutant: the thread ends and the link still counts as running.
RxDropSilent ==
    /\ RxGoto("drop", "exit") /\ Idle("rx")
    /\ UNCHANGED <<net, bus, lrun, reconnect, lpc, socketVars, ring, strayed, ext, showVars>>

\* m_running = false; break
RxDrop ==
    /\ RxGoto("drop", "exit") /\ Idle("rx")
    /\ lrun' = FALSE
    /\ UNCHANGED <<net, bus, reconnect, lpc, socketVars, ring, strayed, ext, showVars>>

RxThread == RxLoop \/ RxPoll \/ RxLoad \/ RxFrame \/ RxFails \/ RxError \/ RxDrop

-----------------------------------------------------------------------------
(* The worker, and everybody else's descriptors *)

\* CacheManager::process: only while m_running is up
Deliver ==
    /\ lrun /\ ring # "empty"
    /\ strayed' = (strayed \/ ring = "foreign")
    /\ ring' = "empty"
    /\ UNCHANGED <<net, bus, lrun, reconnect, lpc, rx, socketVars, ext, showVars>>

\* The other link, a sysfs attribute or sniffer.prop is opened or closed.  The process does
\* not run out of numbers: one is always left for the link.
OtherOpens ==
    /\ \E n \in Fds : Unheld(n) /\ (\A k \in Fds : Unheld(k) => n <= k)
                          /\ \E k \in Fds \ {n} : desc[k] # "other"
                          /\ desc' = [desc EXCEPT ![n] = "other"]
    /\ UNCHANGED <<net, bus, lrun, reconnect, lpc, rx, rxfd, fd, sock, ring, strayed, ext, showVars>>

OtherCloses ==
    /\ \E n \in Fds : desc[n] = "other" /\ desc' = [desc EXCEPT ![n] = "none"]
    /\ UNCHANGED <<net, bus, lrun, reconnect, lpc, rx, rxfd, fd, sock, ring, strayed, ext, showVars>>

\* The interface is created, set up, and taken away.  The socket bound to it is told.
Interface ==
    /\ net' \in CASE net = "none" -> {"down"} [] net = "down" -> {"up", "none"} [] net = "up" -> {"none"}
    /\ sock' = IF sock = "bound" /\ net' = "none" THEN "stale" ELSE sock
    /\ UNCHANGED <<bus, lrun, reconnect, lpc, rx, rxfd, fd, desc, ring, strayed, ext, showVars>>

Owner == OwnerJoinSup \/ OwnerStopExt \/ \E c \in Caller : LinkStop(c)

Next == OwnerStart \/ OwnerStop \/ Owner \/ Supervisor \/ RxThread \/ Deliver
           \/ ExtError \/ ExtFails \/ OtherOpens \/ OtherCloses \/ Interface
           \/ \E t \in Reporter : LedWrite(t)

Spec == Init /\ [][Next]_vars

\* Threads are scheduled, a stop() goes on once it is begun, and a poll() that finds an
\* error waiting does not time out for ever.  The owner, the interface, the external
\* service's errors and other descriptors are left free.
FairSpec ==
    /\ Spec
    /\ WF_vars(Owner) /\ WF_vars(Supervisor) /\ WF_vars(RxThread)
    /\ SF_vars(rx = "poll" /\ fd # Closed /\ RxPoll /\ rx' = "load")
    /\ \A t \in Reporter : WF_vars(LedWrite(t))

-----------------------------------------------------------------------------
(* Properties. *)

Clearing == \E c \in Caller : lpc[c] \in {"clear", "undo"}

\* unblock() and close() both close the socket, a failed bind() does too, and numbers are
\* handed out again at once: the number the link keeps is always that of its own socket,
\* so it never closes, reads or writes what somebody else has opened since, except in the
\* moment between ::close and the assignment.
DescriptorOwned == TypeOK /\ (fd # Closed /\ ~Clearing => desc[fd] = "link")

\* The RX thread may be about to read from a number that has changed hands.  What it reads
\* then is never given to the listener as a frame of this bus.
NoForeignFrame == ~strayed

Healthy == lrun /\ rx \in {"poll", "load"} /\ sock = "bound" /\ net = "up" /\ \A t \in Reporter : Idle(t)

\* A link that is up and works is shown as CONNECTED, and the LED of the system link has both
\* delays that handleStatusChanged asks for then: no delay of another status is left by a
\* thread that wrote in between.  Which delays these should be is not said here (see below).
\* The computer link's entry is overwritten by an external service that fails.
HealthyIsShown ==
    Healthy => /\ board = "CONNECTED" \/ (bus = "computer" /\ ext \in {"failing", "failed"})
               /\ bus = "system" => led = Delays(Pattern("CONNECTED")[1], Pattern("CONNECTED")[2])

\* HARDWARE_INTEGRATION.md:43 on a connected and functioning interface: "1000ms ON / 1000ms
\* OFF".  The code does not do so: no run checks it, and added to MCCanLink.cfg it fails (see
\* the README).
LedAsDocumented == Healthy /\ bus = "system" => led = Delays(1000, 1000)

\* What the link promises to the bus it serves (BusLink.tla)
linkState ==
    CASE sock \in {"none", "unbound"} -> "down"
      [] sock \in {"bound", "stale"} /\ (~lrun \/ rx \in {"error", "error2", "drop", "exit"}) -> "failing"
      [] sock = "bound" /\ lrun /\ rx \notin {"error", "error2", "drop", "exit"} -> "up"
      [] sock = "stale" /\ lrun /\ rx \notin {"error", "error2", "drop", "exit"} -> "stale"

BusLink == INSTANCE BusLink WITH link <- linkState, on <- reconnect

\* A link that works is given up only because its interface failed or because its owner
\* stops it, and a broken socket is never kept: the link implements BusLink.
ImplementsBusLink == BusLink!LinkSpec

\* An interface that stays up while the link is wanted ends with the link connected and
\* shown as such.
LinkConnects ==
    <>[](net = "up" /\ reconnect) =>
        <>[](linkState = "up" /\ (board = "CONNECTED" \/ ext \in {"failing", "failed"}))

\* An interface that stays away leaves neither the entry at CONNECTED nor the LED of the
\* system link blinking so.  (The LED of the computer link may go on: a late report of the
\* external service's start can overwrite the link's error.)
LossIsShown ==
    <>[](net = "none" /\ reconnect) =>
        <>[](board # "CONNECTED" /\ (bus = "system" => led # Delays(1500, 1500)))

\* What is shown follows the interface in the end, up and away.
LinkFollowsInterface == LinkConnects /\ LossIsShown
=============================================================================
