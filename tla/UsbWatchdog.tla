----------------------------- MODULE UsbWatchdog -----------------------------
(***************************************************************************)
(* core::UsbWatchdog: the thread that maps a USB adapter to a CAN           *)
(* interface by running slcand, its owner (MainService::createSniffer and   *)
(* destroySniffer), and around them the adapter that is plugged and pulled, *)
(* the slcand processes and the kernel's interface.                         *)
(*                                                                          *)
(* The adapter is out, in, or in with its ttyACM device.  A process slot is *)
(* free, forked (the shell has not yet executed slcand, so /proc does not   *)
(* show it), started, serving the interface, hung (its adapter is gone; the *)
(* interface went with it) or dying (killed, the interface not yet gone).   *)
(***************************************************************************)
EXTENDS Naturals, FiniteSets

CONSTANTS Procs,    \* process slots
          Prompt    \* slcand needs less than the 100 ms the watchdog gives it

ASSUME WatchdogAssumption == IsFiniteSet(Procs) /\ Procs # {} /\ Prompt \in BOOLEAN

VARIABLES
    usb,      \* the adapter
    net,      \* the CAN interface: none, down or up
    proc,     \* the process in each slot
    running,  \* m_running
    owner,    \* the service thread
    wdpc,     \* watchdogLoop
    sawUsb,   \* usbPresent
    status    \* StatusManager's entry "Watchdog: <interface>"

world == <<usb, net, proc>>
thread == <<wdpc, sawUsb, status>>
vars == <<world, running, owner, thread>>

TypeOK ==
    /\ usb \in {"out", "in", "tty"} /\ net \in {"none", "down", "up"}
    /\ proc \in [Procs -> {"free", "forked", "started", "serving", "hung", "dying"}]
    /\ running \in BOOLEAN /\ owner \in {"new", "idle", "up", "join", "kill"}
    /\ wdpc \in {"none", "loop", "net", "gone", "active", "map", "kill", "spawn", "sleep", "wait", "exit"}
    /\ sawUsb \in BOOLEAN
    /\ status \in {"NONE", "USB DISCONNECTED", "MAPPING...", "INTERFACE UP", "USB FOUND, NO TTY", "ACTIVE"}
    /\ net # "none" <=> \E p \in Procs : proc[p] \in {"serving", "dying"}

\* A service that crashed may have left a slcand behind, serving or hung (a crash inside the
\* 100 ms of a mapping, which leaves the interface down, is left out: see the README).
Init ==
    /\ usb \in {"out", "in", "tty"}
    /\ \/ proc = [p \in Procs |-> "free"] /\ net = "none"
       \/ \E p \in Procs : proc = [q \in Procs |-> IF q = p THEN "hung" ELSE "free"] /\ net = "none"
       \/ \E p \in Procs : /\ proc = [q \in Procs |-> IF q = p THEN "serving" ELSE "free"]
                             /\ usb = "tty" /\ net = "up"
    /\ running = FALSE /\ owner = "new"
    /\ wdpc = "none" /\ sawUsb = FALSE /\ status = "NONE"

-----------------------------------------------------------------------------
(* The adapter, the kernel and slcand. *)

Plug == usb = "out" /\ usb' = "in" /\ UNCHANGED <<net, proc, running, owner, thread>>

TtyAppears == usb = "in" /\ usb' = "tty" /\ UNCHANGED <<net, proc, running, owner, thread>>

\* The terminal hangs up and takes the interface away; slcand does not notice.
Unplug ==
    /\ usb # "out" /\ usb' = "out"
    /\ net' = "none"
    /\ proc' = [p \in Procs |-> CASE proc[p] = "serving" -> "hung"
                                  [] proc[p] = "dying" -> "free"
                                  [] OTHER -> proc[p]]
    /\ UNCHANGED <<running, owner, thread>>

Becomes(p, from, to) == proc[p] = from /\ proc' = [proc EXCEPT ![p] = to]

SlcandExec(p) == Becomes(p, "forked", "started") /\ UNCHANGED <<usb, net, running, owner, thread>>

\* slcand attaches to the terminal and the kernel creates the interface
SlcandServes(p) ==
    /\ Becomes(p, "started", "serving")
    /\ usb = "tty" /\ net = "none"
    /\ net' = "down"
    /\ UNCHANGED <<usb, running, owner, thread>>

\* slcand finds no terminal, or the name of the interface taken
SlcandFails(p) ==
    /\ Becomes(p, "started", "free")
    /\ usb # "tty" \/ net # "none"
    /\ UNCHANGED <<usb, net, running, owner, thread>>

\* A killed slcand is gone, and its interface with it
SlcandDies(p) ==
    /\ Becomes(p, "dying", "free")
    /\ net' = "none"
    /\ UNCHANGED <<usb, running, owner, thread>>

Slcand(p) == SlcandExec(p) \/ SlcandServes(p) \/ SlcandFails(p) \/ SlcandDies(p)

-----------------------------------------------------------------------------
(* The owner *)

Start ==
    /\ owner \in {"new", "idle"} /\ ~running
    /\ running' = TRUE
    /\ wdpc' = "loop"
    /\ owner' = "up"
    /\ UNCHANGED <<world, sawUsb, status>>

\* m_running = false, then notify_all with m_cvMutex held
Stop ==
    /\ owner = "up" /\ running
    /\ running' = FALSE
    /\ owner' = "join"
    /\ UNCHANGED <<world, thread>>

\* Mutant: stop() leaves slcand behind.
StopJoinOnly ==
    /\ owner = "join" /\ wdpc = "exit"
    /\ wdpc' = "none"
    /\ owner' = "idle"
    /\ UNCHANGED <<world, running, sawUsb, status>>

StopJoin ==
    /\ owner = "join" /\ wdpc = "exit"
    /\ wdpc' = "none"
    /\ owner' = "kill"
    /\ UNCHANGED <<world, running, sawUsb, status>>

\* killExistingSlcand: SIGKILL to every slcand of this interface that /proc shows
KillExistingSlcand ==
    proc' = [p \in Procs |-> CASE proc[p] \in {"started", "hung"} -> "free"
                               [] proc[p] = "serving" -> "dying"
                               [] OTHER -> proc[p]]

StopKill ==
    /\ owner = "kill"
    /\ KillExistingSlcand
    /\ owner' = "idle"
    /\ UNCHANGED <<usb, net, running, thread>>

-----------------------------------------------------------------------------
(* watchdogLoop *)

WdGoto(from, to) == wdpc = from /\ wdpc' = to

Report(from, text) == WdGoto(from, "wait") /\ status' = text

\* while (m_running): zombies are reaped, then access(usbPath)
CheckUsb ==
    /\ WdGoto("loop", IF running THEN "net" ELSE "exit")
    /\ sawUsb' = (usb # "out")
    /\ UNCHANGED <<world, running, owner, status>>

\* Mutant: an interface that exists is mapped again.
CheckNetIgnored ==
    /\ WdGoto("net", IF ~sawUsb THEN "gone" ELSE "map")
    /\ UNCHANGED <<world, running, owner, sawUsb, status>>

\* access(netPath)
CheckNet ==
    /\ WdGoto("net", IF ~sawUsb THEN "gone" ELSE IF net = "none" THEN "map" ELSE "active")
    /\ UNCHANGED <<world, running, owner, sawUsb, status>>

\* Mutant: slcand survives the adapter.
GoneUnkilled ==
    /\ Report("gone", "USB DISCONNECTED")
    /\ UNCHANGED <<world, running, owner, sawUsb>>

Gone ==
    /\ Report("gone", "USB DISCONNECTED")
    /\ KillExistingSlcand
    /\ UNCHANGED <<usb, net, running, owner, sawUsb>>

Active ==
    /\ Report("active", "ACTIVE")
    /\ UNCHANGED <<world, running, owner, sawUsb>>

\* findTtyAcm finds a terminal, or does not
MapFound ==
    /\ WdGoto("map", "kill") /\ usb = "tty"
    /\ status' = "MAPPING..."
    /\ UNCHANGED <<world, running, owner, sawUsb>>

MapNotFound ==
    /\ Report("map", "USB FOUND, NO TTY") /\ usb # "tty"
    /\ UNCHANGED <<world, running, owner, sawUsb>>

\* Mutant: nobody makes room for the new slcand.
MapKillSkipped ==
    /\ WdGoto("kill", "spawn")
    /\ UNCHANGED <<world, running, owner, sawUsb, status>>

MapKill ==
    /\ WdGoto("kill", "spawn")
    /\ KillExistingSlcand
    /\ UNCHANGED <<usb, net, running, owner, sawUsb, status>>

\* system("slcand ... &"); without a free slot the fork fails, which goes unnoticed
Spawn ==
    /\ WdGoto("spawn", "sleep")
    /\ \/ \E p \in Procs : Becomes(p, "free", "forked")
       \/ (\A p \in Procs : proc[p] # "free") /\ UNCHANGED proc
    /\ UNCHANGED <<usb, net, running, owner, sawUsb, status>>

\* Mutant: the interface is not set up.
IpLinkMissing ==
    /\ Report("sleep", "INTERFACE UP")
    /\ Prompt => \A p \in Procs : proc[p] \notin {"forked", "started", "dying"}
    /\ UNCHANGED <<world, running, owner, sawUsb>>

\* usleep(100000), then system("ip link set <interface> up"), which fails unnoticed if
\* there is no interface
IpLinkUp ==
    /\ Report("sleep", "INTERFACE UP")
    /\ Prompt => \A p \in Procs : proc[p] \notin {"forked", "started", "dying"}
    /\ net' = IF net = "down" THEN "up" ELSE net
    /\ UNCHANGED <<usb, proc, running, owner, sawUsb>>

\* wait_for(100 ms, !m_running) times out, or is notified
WaitEnds ==
    /\ WdGoto("wait", "loop")
    /\ UNCHANGED <<world, running, owner, sawUsb, status>>

Watchdog == CheckUsb \/ CheckNet \/ Gone \/ Active \/ MapFound \/ MapNotFound \/ MapKill \/ Spawn
               \/ IpLinkUp \/ WaitEnds

Next == Plug \/ TtyAppears \/ Unplug \/ Start \/ Stop \/ StopJoin \/ StopKill \/ Watchdog
            \/ \E p \in Procs : Slcand(p)

Spec == Init /\ [][Next]_vars

\* The watchdog's thread and a stop() that was begun go on; slcand starts, serves and dies
\* in the end, even if it is killed and started again many times.  Plugging, pulling and
\* the owner's start and stop may happen or not.
FairSpec ==
    /\ Spec
    /\ WF_vars(Watchdog) /\ WF_vars(StopJoin) /\ WF_vars(StopKill)
    /\ \A p \in Procs : WF_vars(SlcandExec(p) \/ SlcandFails(p) \/ SlcandDies(p))
                            /\ SF_vars(SlcandServes(p))

-----------------------------------------------------------------------------
(* Properties. *)

Alive(p) == proc[p] \in {"forked", "started", "serving", "hung"}

\* Adapters are pulled and plugged at any moment, and slcand survives its adapter: still
\* no two slcand of one interface are ever alive together.
OneSlcand == TypeOK /\ \A p, q \in Procs : Alive(p) /\ Alive(q) => p = q

\* Once stop() has returned there is neither a thread nor a slcand that is not about to die.
QuietAfterStop == owner = "idle" => wdpc = "none" /\ \A p \in Procs : ~Alive(p)

\* A slcand that serves is cut off only by the adapter or by stop(), never by the
\* watchdog acting on what it saw a moment before.
ServingUndisturbed ==
    [][\A p \in Procs : proc[p] = "serving" /\ proc'[p] # "serving" =>
            usb' = "out" \/ owner = "kill"]_vars

\* "When the Watchdog detects a connection, it brings the interface up": an adapter that
\* stays plugged while the watchdog runs ends with its interface up, and reported so.
InterfaceComesUp ==
    <>[](usb = "tty" /\ owner = "up") => <>[](net = "up" /\ status = "ACTIVE")

\* An adapter that stays away is reported, and no slcand outlives it.
AbsenceIsNoticed ==
    <>[](usb = "out" /\ owner = "up") =>
        <>[](status = "USB DISCONNECTED" /\ \A p \in Procs : ~Alive(p))
=============================================================================
