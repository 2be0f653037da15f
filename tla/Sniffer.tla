------------------------------- MODULE Sniffer -------------------------------
(***************************************************************************)
(* sniffer::Sniffer: the worker threads of the two CAN buses                *)
(* (handleCanData), the worker of the external UDP service                  *)
(* (onCommandReceived), the watchdog thread, and the thread that starts and *)
(* stops it all.  Each thread's code is cut where another thread can see or *)
(* change what it uses.                                                     *)
(*                                                                          *)
(* The filter engine is reduced to the set of frame classes it drops; what  *)
(* a rule set means is the subject of FilterEngine.tla.  The time since     *)
(* m_lastExternalMsgTime is counted in ticks and stops counting just above  *)
(* the limit of 1500 ms, which is all the watchdog can tell apart.          *)
(***************************************************************************)
EXTENDS Naturals

CONSTANTS Classes,   \* classes of CAN frames the filters can tell apart
          Timeout    \* the watchdog's limit, in ticks

ASSUME SnifferAssumption == Timeout \in Nat \ {0}

Bus == {"SYSTEM", "COMPUTER"}
Other(b) == IF b = "SYSTEM" THEN "COMPUTER" ELSE "SYSTEM"

\* What the external client can send.  "SHORT" is a keep-alive below its payload size.
Command ==
    [op : {"SET_FILTERS"}, arg : SUBSET Classes]
      \cup [op : {"KEEP_ALIVE"}, arg : BOOLEAN]
      \cup [op : {"LOGGING"}, arg : BOOLEAN]
      \cup [op : {"INJECT"}, arg : Bus]
      \cup [op : {"CANBUS_DATA", "SHORT", "PARAMS", "CANF"}, arg : {"none"}]

NoCommand == [op |-> "none", arg |-> "none"]
NoFrame == "none"
NoDatagram == [kind |-> "none"]

VARIABLES
    running,    \* m_running
    phase,      \* the owning thread: new, up, or how far stop() has come
    up,         \* per bus and for "EXTERNAL": its CommunicationObj may call back
    filters,    \* frame classes FilterEngine drops
    logging,    \* m_externalServiceLogging
    connected,  \* m_externalServiceConnected
    age,        \* ticks since m_lastExternalMsgTime
    alive,      \* the external client still sends
    udppc, cmd, \* onCommandReceived
    wdpc,       \* watchdogLoop
    canpc,      \* handleCanData, per bus
    frame,      \* its frame
    forward,    \* its should_forward
    wire,       \* history: what became of that frame on the other bus
    toClient    \* the datagram the last step sent to the client

control == <<running, phase, up>>
session == <<filters, logging, connected, age>>
udpVars == <<udppc, cmd>>
canVars == <<canpc, frame, forward, wire>>
vars == <<control, session, alive, udpVars, wdpc, canVars, toClient>>

TypeOK ==
    /\ running \in BOOLEAN
    /\ phase \in {"new", "up", "joinWd", "stopSystem", "stopComputer", "stopExternal", "down"}
    /\ up \in [Bus \cup {"EXTERNAL"} -> BOOLEAN]
    /\ filters \in SUBSET Classes
    /\ logging \in BOOLEAN /\ connected \in BOOLEAN
    /\ age \in 0 .. Timeout + 1
    /\ alive \in BOOLEAN
    /\ udppc \in {"idle", "mark", "stamp", "act", "reply", "restamp"}
    /\ cmd \in Command \cup {NoCommand}
    /\ wdpc \in {"none", "loop", "check", "reset", "clear", "exit"}
    /\ canpc \in [Bus -> {"idle", "judge", "send", "log"}]
    /\ frame \in [Bus -> Classes \cup {NoFrame}]
    /\ forward \in [Bus -> BOOLEAN] /\ wire \in [Bus -> {"kept", "written", "refused"}]

\* The constructor: nothing connected, no logging, no filters.
Init ==
    /\ running = FALSE /\ phase = "new"
    /\ up = [c \in Bus \cup {"EXTERNAL"} |-> FALSE]
    /\ filters = {} /\ logging = FALSE /\ connected = FALSE /\ age = 0
    /\ alive = TRUE
    /\ udppc = "idle" /\ cmd = NoCommand
    /\ wdpc = "none"
    /\ canpc = [b \in Bus |-> "idle"]
    /\ frame = [b \in Bus |-> NoFrame]
    /\ forward = [b \in Bus |-> FALSE] /\ wire = [b \in Bus |-> "kept"]
    /\ toClient = NoDatagram

\* The step sends the client nothing.
Silent == toClient' = NoDatagram

-----------------------------------------------------------------------------
(* start() and stop() *)

\* The external service may fail to bind its port; start() goes on without it.
Start ==
    /\ phase = "new"
    /\ running' = TRUE
    /\ \E bound \in BOOLEAN :
          up' = [c \in Bus \cup {"EXTERNAL"} |-> c = "EXTERNAL" => bound]
    /\ wdpc' = "loop"
    /\ phase' = "up"
    /\ UNCHANGED <<session, alive, udpVars, canVars>>
    /\ Silent

StopFlag ==
    /\ phase = "up"
    /\ running' = FALSE
    /\ phase' = "joinWd"
    /\ UNCHANGED <<up, session, alive, udpVars, wdpc, canVars>>
    /\ Silent

StopWatchdog ==
    /\ phase = "joinWd" /\ wdpc = "exit"
    /\ phase' = "stopSystem"
    /\ UNCHANGED <<running, up, session, alive, udpVars, wdpc, canVars>>
    /\ Silent

\* stop_reconnectable_mode() returns once the bus's worker is between two frames.
StopSystem ==
    /\ phase = "stopSystem" /\ canpc["SYSTEM"] = "idle"
    /\ up' = [up EXCEPT !["SYSTEM"] = FALSE]
    /\ phase' = "stopComputer"
    /\ UNCHANGED <<running, session, alive, udpVars, wdpc, canVars>>
    /\ Silent

StopComputer ==
    /\ phase = "stopComputer" /\ canpc["COMPUTER"] = "idle"
    /\ up' = [up EXCEPT !["COMPUTER"] = FALSE]
    /\ phase' = "stopExternal"
    /\ UNCHANGED <<running, session, alive, udpVars, wdpc, canVars>>
    /\ Silent

\* Mutant: the external service is told to stop and not waited for.
StopExternalNoJoin ==
    /\ phase = "stopExternal"
    /\ up' = [up EXCEPT !["EXTERNAL"] = FALSE]
    /\ phase' = "down"
    /\ UNCHANGED <<running, session, alive, udpVars, wdpc, canVars>>
    /\ Silent

StopExternal ==
    /\ phase = "stopExternal" /\ udppc = "idle"
    /\ up' = [up EXCEPT !["EXTERNAL"] = FALSE]
    /\ phase' = "down"
    /\ UNCHANGED <<running, session, alive, udpVars, wdpc, canVars>>
    /\ Silent

\* The object is deleted and MainService constructs the next one.
Recreate ==
    /\ phase = "down"
    /\ phase' = "new"
    /\ wdpc' = "none"
    /\ filters' = {} /\ logging' = FALSE /\ connected' = FALSE /\ age' = 0
    /\ cmd' = NoCommand
    /\ Silent
    /\ UNCHANGED <<running, up, alive, udppc, canVars>>

Stop == StopFlag \/ StopWatchdog \/ StopSystem \/ StopComputer \/ StopExternal

-----------------------------------------------------------------------------
(* handleCanData on the worker of bus b *)

CanReceive(b) ==
    /\ up[b] /\ canpc[b] = "idle" /\ running   \* if (!m_running) return
    /\ \E f \in Classes : frame' = [frame EXCEPT ![b] = f]
    /\ canpc' = [canpc EXCEPT ![b] = "judge"]
    /\ UNCHANGED <<control, session, alive, udpVars, wdpc, forward, wire>>
    /\ Silent

CanJudge(b) ==
    /\ canpc[b] = "judge"
    /\ forward' = [forward EXCEPT ![b] = frame[b] \notin filters]
    /\ canpc' = [canpc EXCEPT ![b] = "send"]
    /\ UNCHANGED <<control, session, alive, udpVars, wdpc, frame, wire>>
    /\ Silent

\* send() on the other bus.  A bus that is stopped or reconnecting refuses the write, and
\* nobody looks at the result.
CanSend(b) ==
    /\ canpc[b] = "send"
    /\ \E ok \in BOOLEAN :
          /\ ok => up[Other(b)]
          /\ wire' = [wire EXCEPT ![b] = IF ~forward[b] THEN "kept"
                                         ELSE IF ok THEN "written" ELSE "refused"]
    /\ canpc' = [canpc EXCEPT ![b] = "log"]
    /\ UNCHANGED <<control, session, alive, udpVars, wdpc, frame, forward>>
    /\ Silent

\* Mutant: the log asks the filters again instead of using should_forward.
CanLogRejudged(b) ==
    /\ canpc[b] = "log"
    /\ toClient' = IF logging
                   THEN [kind |-> IF frame[b] \notin filters THEN "FROM" ELSE "BLOCKED", bus |-> b]
                   ELSE NoDatagram
    /\ canpc' = [canpc EXCEPT ![b] = "idle"]
    /\ frame' = [frame EXCEPT ![b] = NoFrame]
    /\ forward' = [forward EXCEPT ![b] = FALSE]
    /\ wire' = [wire EXCEPT ![b] = "kept"]
    /\ UNCHANGED <<control, session, alive, udpVars, wdpc>>

\* if (m_externalServiceLogging) send the frame to the client, passed or blocked
CanLog(b) ==
    /\ canpc[b] = "log"
    /\ toClient' = IF logging
                   THEN [kind |-> IF forward[b] THEN "FROM" ELSE "BLOCKED", bus |-> b]
                   ELSE NoDatagram
    /\ canpc' = [canpc EXCEPT ![b] = "idle"]
    /\ frame' = [frame EXCEPT ![b] = NoFrame]
    /\ forward' = [forward EXCEPT ![b] = FALSE]
    /\ wire' = [wire EXCEPT ![b] = "kept"]
    /\ UNCHANGED <<control, session, alive, udpVars, wdpc>>

Can(b) == CanReceive(b) \/ CanJudge(b) \/ CanSend(b) \/ CanLog(b)

-----------------------------------------------------------------------------
(* onCommandReceived, and handleCanData for the external source, on the UDP worker *)

\* A "canf" datagram is not a command: it only stamps.  Once stop() has begun commands are
\* ignored.
UdpReceive ==
    /\ up["EXTERNAL"] /\ udppc = "idle" /\ alive
    /\ \E c \in Command :
          /\ running \/ c.op = "CANF"
          /\ cmd' = c
          /\ udppc' = IF c.op = "CANF" THEN "restamp" ELSE "mark"
    /\ UNCHANGED <<control, session, alive, wdpc, canVars>>
    /\ Silent

\* if (!m_externalServiceConnected) m_externalServiceConnected = true, with no lock
UdpMark ==
    /\ udppc = "mark"
    /\ connected' = TRUE
    /\ udppc' = "stamp"
    /\ UNCHANGED <<control, filters, logging, age, alive, cmd, wdpc, canVars>>
    /\ Silent

\* m_lastExternalMsgTime = now, under m_mutex
UdpStamp ==
    /\ udppc = "stamp"
    /\ age' = 0
    /\ udppc' = "act"
    /\ UNCHANGED <<control, filters, logging, connected, alive, cmd, wdpc, canVars>>
    /\ Silent

\* The command itself.  INJECT writes to a bus without asking the filters; PARAMS calls
\* MainService (modelled there) and changes nothing here.
UdpAct ==
    /\ udppc = "act"
    /\ filters' = IF cmd.op = "SET_FILTERS" THEN cmd.arg ELSE filters
    /\ logging' = IF cmd.op \in {"KEEP_ALIVE", "LOGGING"} THEN cmd.arg ELSE logging
    /\ udppc' = CASE cmd.op = "KEEP_ALIVE" -> "reply"
                  [] cmd.op = "CANBUS_DATA" -> "restamp"
                  [] OTHER -> "idle"
    /\ cmd' = IF udppc' = "idle" THEN NoCommand ELSE cmd
    /\ UNCHANGED <<control, connected, age, alive, wdpc, canVars>>
    /\ Silent

\* The keep-alive answer reads m_externalServiceLogging once more.
UdpReply ==
    /\ udppc = "reply"
    /\ toClient' = [kind |-> "KEEP_ALIVE", logging |-> logging]
    /\ udppc' = "idle"
    /\ cmd' = NoCommand
    /\ UNCHANGED <<control, session, alive, wdpc, canVars>>

\* The data listener of SOURCE_EXTERNAL stamps again.
UdpRestamp ==
    /\ udppc = "restamp"
    /\ age' = 0
    /\ udppc' = "idle"
    /\ cmd' = NoCommand
    /\ UNCHANGED <<control, filters, logging, connected, alive, wdpc, canVars>>
    /\ Silent

Udp == UdpMark \/ UdpStamp \/ UdpAct \/ UdpReply \/ UdpRestamp

\* The client falls silent for good.
ClientDies ==
    /\ alive
    /\ alive' = FALSE
    /\ UNCHANGED <<control, session, udpVars, wdpc, canVars>>
    /\ Silent

-----------------------------------------------------------------------------
(* watchdogLoop *)

WatchdogLoop ==
    /\ wdpc = "loop"
    /\ wdpc' = IF running THEN "check" ELSE "exit"
    /\ UNCHANGED <<control, session, alive, udpVars, canVars>>
    /\ Silent

\* The sleep is over: timeOutDetected is computed under m_mutex, which is then released.
WatchdogCheck ==
    /\ wdpc = "check"
    /\ wdpc' = IF connected /\ age > Timeout THEN "reset" ELSE "loop"
    /\ UNCHANGED <<control, session, alive, udpVars, canVars>>
    /\ Silent

\* Mutant: the client is given up and nothing is reset.
WatchdogResetMissing ==
    /\ wdpc = "reset"
    /\ wdpc' = "clear"
    /\ UNCHANGED <<control, session, alive, udpVars, canVars>>
    /\ Silent

\* resetToDefault(): logging off, and nothing else
WatchdogReset ==
    /\ wdpc = "reset"
    /\ logging' = FALSE
    /\ wdpc' = "clear"
    /\ UNCHANGED <<control, filters, connected, age, alive, udpVars, canVars>>
    /\ Silent

\* m_externalServiceConnected = false, with no lock
WatchdogClear ==
    /\ wdpc = "clear"
    /\ connected' = FALSE
    /\ wdpc' = "loop"
    /\ UNCHANGED <<control, filters, logging, age, alive, udpVars, canVars>>
    /\ Silent

Watchdog == WatchdogLoop \/ WatchdogCheck \/ WatchdogReset \/ WatchdogClear

\* now - m_lastExternalMsgTime grows; beyond the limit its value makes no difference.
Tick ==
    /\ age <= Timeout
    /\ age' = age + 1
    /\ UNCHANGED <<control, filters, logging, connected, alive, udpVars, wdpc, canVars>>
    /\ Silent

Next == Start \/ Stop \/ Recreate \/ UdpReceive \/ Udp \/ ClientDies \/ Watchdog \/ Tick
            \/ \E b \in Bus : Can(b)

Spec == Init /\ [][Next]_vars

\* The clock runs, every thread is scheduled and a handler under way finishes.  A stop that
\* was begun goes on; whether the owner begins one, and what arrives, is left open.
FairSpec ==
    /\ Spec
    /\ WF_vars(Tick) /\ WF_vars(Watchdog) /\ WF_vars(Udp)
    /\ WF_vars(StopWatchdog \/ StopSystem \/ StopComputer \/ StopExternal)
    /\ \A b \in Bus : WF_vars(CanJudge(b) \/ CanSend(b) \/ CanLog(b))

-----------------------------------------------------------------------------
(* Properties. *)

\* Once stop() has returned no callback is under way and no thread will start one, so
\* MainService may delete the object.
QuietWhenDown ==
    /\ TypeOK
    /\ phase \in {"down", "new"} =>
           /\ udppc = "idle" /\ wdpc \in {"exit", "none"}
           /\ \A b \in Bus : canpc[b] = "idle" /\ ~up[b]

\* The client's log tells what happened on the wire: a frame reported as blocked was kept
\* from the other bus, one reported as passed was written to it or refused by it, also
\* when the rules are replaced while the frame is being handled.
LogMatchesWire ==
    [][\A b \in Bus :
          (canpc[b] = "log" /\ canpc'[b] = "idle" /\ logging) =>
              (toClient'.kind = "BLOCKED") = (wire[b] = "kept")]_vars

\* A client that is marked as connected, has been served and sends no more has its
\* logging switched off, if the watchdog was not already acting on an older silence.
MonitoredClientTimesOut ==
    (~alive /\ connected /\ udppc = "idle" /\ wdpc \in {"loop", "check"} /\ running)
        ~> (~logging \/ ~running)

\* "If lost (>1s)" the watchdog acts: once the client has fallen silent logging ends.
SilenceEndsLogging == (~alive /\ running) ~> (~logging \/ ~running)

\* "... it resets the system to Passthrough mode": once the watchdog has given the client
\* up, no frame is dropped any more.
PassthroughAfterTimeout == [][wdpc = "clear" /\ wdpc' = "loop" => filters' = {}]_vars

\* The link c is calling its listener.
Handling(c) == IF c = "EXTERNAL" THEN udppc # "idle" ELSE canpc[c] # "idle"

SystemLink == INSTANCE ListenerContract WITH active <- up["SYSTEM"], calling <- Handling("SYSTEM")
ComputerLink == INSTANCE ListenerContract WITH active <- up["COMPUTER"], calling <- Handling("COMPUTER")
ExternalLink == INSTANCE ListenerContract WITH active <- up["EXTERNAL"], calling <- Handling("EXTERNAL")

\* Each of the three links calls the Sniffer as a CommunicationObj promises to, and stop()
\* waits for each.  SnifferProofs shows that this is what the guards above assume of them,
\* no less and no more.
WithinContract == SystemLink!Spec /\ ComputerLink!Spec /\ ExternalLink!Spec
=============================================================================
