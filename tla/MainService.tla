----------------------------- MODULE MainService -----------------------------
(***************************************************************************)
(* main.cpp and core::MainService: the main thread that waits for a signal, *)
(* the service thread in run(), the worker of the external service that     *)
(* calls onSystemCommand, and the parameters they share without a lock.     *)
(* The Sniffer is reduced to its life cycle: it is null, constructed but    *)
(* not started, up, or being stopped, and stop() waits for a command        *)
(* handler that is under way (QuietWhenDown in Sniffer.tla), or for ever:   *)
(* the join of a link's worker may never return (StopReturns and its        *)
(* exception in CommunicationObj.tla).  The process may crash or be killed  *)
(* at any step and be started again: only the file survives.                *)
(***************************************************************************)
EXTENDS Params

CONSTANTS Payloads,       \* the line sequences clients send with CMD_SET_PARAMS
          InitialFiles,   \* contents of sniffer.prop at the first start
          MaxUpdates,     \* bound: commands in one behaviour
          MaxCrashes      \* bound: crashes in one behaviour

\* Text of the kind clients send and files hold: no value is in two pairs of quotes (one
\* that is loses a pair whenever it is loaded: see the README).
IsText(lines) ==
    /\ Len(lines) \in Nat /\ DOMAIN lines = 1 .. Len(lines)
    /\ \A i \in DOMAIN lines : LET v == lines[i].val IN v = [text |-> v.text, quotes |-> v.quotes] /\ v.quotes \in 0 .. 1

ASSUME ServiceAssumption ==
    /\ MaxUpdates \in Nat /\ MaxCrashes \in Nat
    /\ \A lines \in Payloads \cup InitialFiles : IsText(lines)

VARIABLES
    keepRunning,  \* g_keep_running, lowered by the signal handler
    mainpc,       \* main()
    running,      \* MainService::m_running
    restart,      \* m_restartRequested
    runpc,        \* run()
    loaded,       \* m_params is not null
    sniffer,      \* m_sniffer
    config,       \* what createSniffer made of the parameters
    watchdog,     \* the UsbWatchdog exists
    cmdpc,        \* the worker in onSystemCommand
    updates,      \* commands so far
    crashes,      \* crashes so far
    early,        \* history: stop() came before run() raised m_running
    kept,         \* history: the parameters last known to be saved whole
    lost          \* history: {} or {the values whose saving a crash cut short}

mainVars == <<keepRunning, mainpc, early>>
paramVars == <<values, file, writing>>
runVars == <<runpc, loaded, sniffer, config, watchdog>>
history == <<updates, crashes, kept, lost>>
vars == <<mainVars, running, restart, runVars, paramVars, cmdpc, history>>

Destroying == {"destroyWd", "destroyStop", "destroyDelete"}

\* parseCanConfig: the fields between the # signs.  With fewer than two # signs the whole
\* text is the name of the interface.
ParseCanConfig(fields) ==
    IF Len(fields) < 3 THEN [interface |-> fields, usb |-> "", led |-> ""]
                       ELSE [interface |-> <<fields[1]>>, usb |-> fields[2], led |-> fields[3]]

\* createSniffer: the configuration of the bus, and the port cut down to a uint16_t
Configure(vals) ==
    [can |-> ParseCanConfig(vals["car_system_can_name"].text),
     port |-> vals["external_service_port"].text[1] % 2^16]

NoConfig == [can |-> ParseCanConfig(<<>>), port |-> 0]

TypeOK ==
    /\ keepRunning \in BOOLEAN /\ running \in BOOLEAN /\ restart \in BOOLEAN
    /\ mainpc \in {"wait", "join", "delete", "exit"}
    /\ runpc \in {"init", "save", "enter", "loop", "create", "start", "check", "clear", "done"}
                    \cup Destroying \cup {"finalWd", "finalStop", "finalDelete"}
                    \cup {"stuck"}
    /\ loaded \in BOOLEAN /\ early \in BOOLEAN /\ watchdog \in BOOLEAN /\ writing \in BOOLEAN
    /\ DOMAIN values = Keys /\ \A k \in Keys : values[k].quotes = 0
    /\ file = NoFile \/ \A i \in DOMAIN file : file[i].val.quotes \in 0 .. 1
    /\ sniffer \in {"null", "made", "up", "stopping"}
    /\ cmdpc \in {"idle", "update", "save", "request", "requestUnsaved", "answer"}
    /\ updates \in 0 .. MaxUpdates /\ crashes \in 0 .. MaxCrashes

\* The process starts; everything but the file and the histories is as it was at first.
Boot ==
    /\ keepRunning' = TRUE /\ mainpc' = "wait" /\ early' = FALSE
    /\ running' = FALSE /\ restart' = FALSE
    /\ runpc' = "init" /\ loaded' = FALSE
    /\ sniffer' = "null" /\ config' = NoConfig /\ watchdog' = FALSE
    /\ values' = DefaultValues /\ writing' = FALSE
    /\ cmdpc' = "idle"

Init ==
    /\ keepRunning = TRUE /\ mainpc = "wait" /\ early = FALSE
    /\ running = FALSE /\ restart = FALSE
    /\ runpc = "init" /\ loaded = FALSE
    /\ sniffer = "null" /\ config = NoConfig /\ watchdog = FALSE
    /\ values = DefaultValues /\ file \in InitialFiles \cup {NoFile} /\ writing = FALSE
    /\ cmdpc = "idle" /\ updates = 0 /\ crashes = 0
    /\ kept = IF file = NoFile THEN DefaultValues ELSE ParseAndSet(DefaultValues, file)
    /\ lost = {}

-----------------------------------------------------------------------------
(* main() *)

\* SIGINT or SIGTERM
Signal ==
    /\ keepRunning /\ mainpc # "exit"
    /\ keepRunning' = FALSE
    /\ UNCHANGED <<mainpc, early, running, restart, runVars, paramVars, cmdpc, history>>

\* The 100 ms poll sees it: g_service->stop()
MainStop ==
    /\ mainpc = "wait" /\ ~keepRunning
    /\ running' = FALSE
    /\ early' = (runpc \in {"init", "save", "enter"})
    /\ mainpc' = "join"
    /\ UNCHANGED <<keepRunning, restart, runVars, paramVars, cmdpc, history>>

MainJoin ==
    /\ mainpc = "join" /\ runpc = "done"
    /\ mainpc' = "delete"
    /\ UNCHANGED <<keepRunning, early, running, restart, runVars, paramVars, cmdpc, history>>

\* The LEDs are reset, then ~MainService: stop(), destroySniffer() once more, delete m_params
MainDelete ==
    /\ mainpc = "delete"
    /\ running' = FALSE
    /\ loaded' = FALSE
    /\ mainpc' = "exit"
    /\ UNCHANGED <<keepRunning, early, restart, runpc, sniffer, config, watchdog, paramVars,
                   cmdpc, history>>

\* A crash or a kill (what save() has closed survives it: not a power failure), and a new
\* start of the process
Crash ==
    /\ crashes < MaxCrashes /\ mainpc # "exit"
    /\ Boot
    /\ crashes' = crashes + 1
    /\ lost' = IF cmdpc \in {"save", "request"} \/ runpc = "save" THEN {values} ELSE lost
    /\ UNCHANGED <<file, updates, kept>>

-----------------------------------------------------------------------------
(* run() *)

\* m_params = new Params(...): the defaults, overridden by the file if there is one
RunLoad ==
    /\ runpc = "init"
    /\ loaded' = TRUE
    /\ values' = IF file = NoFile THEN DefaultValues ELSE ParseAndSet(DefaultValues, file)
    /\ kept' = values' /\ lost' = {}
    /\ runpc' = IF file = NoFile THEN "save" ELSE "enter"
    /\ UNCHANGED <<mainVars, running, restart, sniffer, config, watchdog, file, writing, cmdpc,
                   updates, crashes>>

\* load() found no file and calls save()
RunSave ==
    /\ runpc = "save"
    /\ \/ SaveOpen /\ UNCHANGED runpc
       \/ SavePrint /\ UNCHANGED runpc
       \/ (SaveClose \/ SaveFails) /\ runpc' = "enter"
    /\ UNCHANGED <<mainVars, running, restart, loaded, sniffer, config, watchdog, values, cmdpc,
                   history>>

\* m_running = true
RunEnter ==
    /\ runpc = "enter"
    /\ running' = TRUE
    /\ runpc' = "loop"
    /\ UNCHANGED <<mainVars, restart, loaded, sniffer, config, watchdog, paramVars, cmdpc, history>>

RunGoto(from, to) ==
    /\ runpc = from
    /\ runpc' = to
    /\ UNCHANGED <<mainVars, running, restart, loaded, sniffer, config, watchdog, paramVars, cmdpc,
                   history>>

\* Mutant: the loop does not look at m_running.
RunLoopForever == RunGoto("loop", IF sniffer = "null" THEN "create" ELSE "check")

RunLoop ==
    RunGoto("loop", IF ~running THEN "finalWd" ELSE IF sniffer = "null" THEN "create" ELSE "check")

\* createSniffer: the parameters are read, the Sniffer is constructed, and the watchdog
\* started if the configuration names a USB device
RunCreate ==
    /\ runpc = "create"
    /\ config' = Configure(values)
    /\ sniffer' = "made"
    /\ watchdog' = (config'.can.usb # "")
    /\ runpc' = "start"
    /\ UNCHANGED <<mainVars, running, restart, loaded, paramVars, cmdpc, history>>

\* m_sniffer->start(); from here commands may arrive
RunStart ==
    /\ runpc = "start"
    /\ sniffer' = "up"
    /\ runpc' = "check"
    /\ UNCHANGED <<mainVars, running, restart, loaded, config, watchdog, paramVars, cmdpc, history>>

\* after the sleep: if (m_restartRequested)
RunCheck == RunGoto("check", IF restart THEN "destroyWd" ELSE "loop")

\* Mutant: the flag is lowered only once the new Sniffer has been started.
RunClearLate ==
    /\ runpc = "clear"
    /\ IF sniffer = "null" THEN /\ sniffer' = "up" /\ config' = Configure(values)
                                /\ watchdog' = (config'.can.usb # "")
                                /\ UNCHANGED <<restart, runpc>>
                           ELSE /\ restart' = FALSE /\ runpc' = "loop"
                                /\ UNCHANGED <<sniffer, config, watchdog>>
    /\ UNCHANGED <<mainVars, running, loaded, paramVars, cmdpc, history>>

\* destroySniffer() has returned: m_restartRequested = false
RunClear ==
    /\ runpc = "clear"
    /\ restart' = FALSE
    /\ runpc' = "loop"
    /\ UNCHANGED <<mainVars, running, loaded, sniffer, config, watchdog, paramVars, cmdpc, history>>

(* destroySniffer, for a restart and at the end of run() *)

\* UsbWatchdog::stop() and delete (UsbWatchdog.tla)
DestroyWatchdog ==
    /\ runpc \in {"destroyWd", "finalWd"}
    /\ watchdog' = FALSE
    /\ runpc' = IF runpc = "destroyWd" THEN "destroyStop" ELSE "finalStop"
    /\ UNCHANGED <<mainVars, running, restart, loaded, sniffer, config, paramVars, cmdpc, history>>

\* Sniffer::stop() begins: no further command is accepted
DestroyStop ==
    /\ runpc \in {"destroyStop", "finalStop"}
    /\ sniffer' = IF sniffer = "null" THEN "null" ELSE "stopping"
    /\ runpc' = IF runpc = "destroyStop" THEN "destroyDelete" ELSE "finalDelete"
    /\ UNCHANGED <<mainVars, running, restart, loaded, config, watchdog, paramVars, cmdpc, history>>

\* Mutant: the Sniffer is deleted without waiting for its command handler.
DestroyDeleteNoWait ==
    /\ runpc \in {"destroyDelete", "finalDelete"}
    /\ sniffer' = "null"
    /\ runpc' = IF runpc = "destroyDelete" THEN "clear" ELSE "done"
    /\ UNCHANGED <<mainVars, running, restart, loaded, config, watchdog, paramVars, cmdpc, history>>

\* stop() has joined the worker; delete, m_sniffer = nullptr
DestroyDelete ==
    /\ runpc \in {"destroyDelete", "finalDelete"} /\ cmdpc = "idle"
    /\ sniffer' = "null"
    /\ runpc' = IF runpc = "destroyDelete" THEN "clear" ELSE "done"
    /\ UNCHANGED <<mainVars, running, restart, loaded, config, watchdog, paramVars, cmdpc, history>>

\* stop() never returns: it joins the worker of a link that missed its notify_all and waits
\* for data that no longer come (StopReturnsUnlessMissed in CommunicationObj.tla).  A step the
\* program is not obliged to take: it is in no fairness condition.
StopHangs ==
    /\ runpc \in {"destroyDelete", "finalDelete"} /\ sniffer = "stopping"
    /\ runpc' = "stuck"
    /\ UNCHANGED <<mainVars, running, restart, loaded, sniffer, config, watchdog, paramVars, cmdpc,
                   history>>

Run == RunLoad \/ RunSave \/ RunEnter \/ RunLoop \/ RunCreate \/ RunStart \/ RunCheck \/ RunClear
          \/ DestroyWatchdog \/ DestroyStop \/ DestroyDelete

-----------------------------------------------------------------------------
(* onSystemCommand on the worker of the external service *)

\* CMD_SET_PARAMS or CMD_GET_PARAMS_REQ, passed on by Sniffer::onCommandReceived
CommandArrives ==
    /\ cmdpc = "idle" /\ sniffer = "up" /\ loaded
    /\ updates < MaxUpdates
    /\ updates' = updates + 1
    /\ cmdpc' \in {"update", "answer"}
    /\ UNCHANGED <<mainVars, running, restart, runVars, paramVars, crashes, kept, lost>>

\* Mutant: the parameters are not saved.
CommandUpdateUnsaved ==
    /\ cmdpc = "update"
    /\ \E p \in Payloads : values' = ParseAndSet(values, p)
    /\ cmdpc' = "request"
    /\ UNCHANGED <<mainVars, running, restart, runVars, file, writing, history>>

\* m_params->update(buffer): parseAndSet, then save()
CommandUpdate ==
    /\ cmdpc = "update"
    /\ \E p \in Payloads : values' = ParseAndSet(values, p)
    /\ cmdpc' = "save"
    /\ UNCHANGED <<mainVars, running, restart, runVars, file, writing, history>>

CommandSave ==
    /\ cmdpc = "save"
    /\ \/ SaveOpen /\ UNCHANGED cmdpc
       \/ SavePrint /\ UNCHANGED cmdpc
       \/ SaveClose /\ cmdpc' = "request"
       \/ SaveFails /\ cmdpc' = "requestUnsaved"
    /\ UNCHANGED <<mainVars, running, restart, runVars, values, history>>

\* Mutant: nobody is told about the new parameters.
CommandRequestMissing ==
    /\ cmdpc \in {"request", "requestUnsaved"}
    /\ kept' = IF cmdpc = "request" THEN values ELSE kept
    /\ cmdpc' = "idle"
    /\ UNCHANGED <<mainVars, running, restart, runVars, paramVars, updates, crashes, lost>>

\* m_restartRequested = true
CommandRequest ==
    /\ cmdpc \in {"request", "requestUnsaved"}
    /\ restart' = TRUE
    /\ kept' = IF cmdpc = "request" THEN values ELSE kept
    /\ cmdpc' = "idle"
    /\ UNCHANGED <<mainVars, running, runVars, paramVars, updates, crashes, lost>>

\* CMD_GET_PARAMS_REQ: getAll() into a buffer that six parameters cannot fill, and the
\* answer through m_sniffer
CommandAnswer ==
    /\ cmdpc = "answer"
    /\ cmdpc' = "idle"
    /\ UNCHANGED <<mainVars, running, restart, runVars, paramVars, history>>

Handler == CommandUpdate \/ CommandSave \/ CommandRequest \/ CommandAnswer

\* The process has ended, or hangs for good: main() waits for the thread whose stop() hangs.
Finished ==
    /\ mainpc = "exit" \/ (mainpc = "join" /\ runpc = "stuck")
    /\ UNCHANGED vars

Next == Signal \/ MainStop \/ MainJoin \/ MainDelete \/ Crash \/ Run \/ StopHangs \/ CommandArrives
            \/ Handler \/ Finished

Spec == Init /\ [][Next]_vars

\* The three threads are scheduled.  Signals, commands, crashes and a stop() that hangs need
\* not come, nor need they stay away.
FairSpec == Spec /\ WF_vars(MainStop \/ MainJoin \/ MainDelete) /\ WF_vars(Run) /\ WF_vars(Handler)

-----------------------------------------------------------------------------
(* Properties. *)

Current == config = Configure(values)

\* No accepted parameter set is forgotten: a Sniffer that is up on other parameters than
\* those in memory has a restart coming, also when the update arrived while the
\* previous restart was being carried out.
NoUpdateForgotten ==
    /\ TypeOK
    /\ sniffer = "up" /\ ~Current /\ cmdpc = "idle" => restart \/ runpc \in Destroying

\* Params has no lock.  Whoever calls into MainService does so on behalf of a Sniffer that
\* still exists, with parameters that still exist, and while no other thread loads,
\* saves or reads them; and the Sniffer and the watchdogs do not outlive the MainService
\* that main() deletes.
HandlerHasOwner ==
    /\ cmdpc # "idle" => /\ sniffer \in {"up", "stopping"} /\ loaded
                         /\ runpc \notin {"init", "save", "create"}
    /\ mainpc \in {"delete", "exit"} => sniffer = "null" /\ ~watchdog /\ cmdpc = "idle"

\* sniffer.prop is what a save() of vals leaves when it is cut short: the first n keys are
\* new, the others fall back to their defaults, whatever was configured before.
CutShort(vals, result) ==
    \E n \in 0 .. Len(KeyOrder) : \A i \in 1 .. Len(KeyOrder) :
        result[KeyOrder[i]] = IF i <= n THEN vals[KeyOrder[i]] ELSE DefaultValues[KeyOrder[i]]

\* A process that starts after a crash runs on the parameters that were last saved whole,
\* or, if the crash cut a save() short, on what that one leaves.
BootRestores ==
    [][runpc = "init" /\ loaded' =>
          values' = kept \/ \E vals \in lost : CutShort(vals, values')]_vars

\* Every accepted update is applied, unless the service is told to stop or dies, or the stop()
\* of the Sniffer on the old parameters hangs.
UpdateApplied ==
    sniffer = "up" /\ ~Current
        ~> (~keepRunning \/ ~loaded \/ runpc = "stuck" \/ (sniffer = "up" /\ Current))

\* After a signal the process exits, unless stop() overtook the start of run() or the stop()
\* of the Sniffer hangs.  (A new process has keepRunning again.)
SignalEndsProcessUnlessEarly ==
    ~keepRunning ~> (mainpc = "exit" \/ early \/ runpc = "stuck" \/ keepRunning)

Contract == INSTANCE ListenerContract WITH active <- sniffer # "null", calling <- cmdpc # "idle"

\* The Sniffer calls onSystemCommand as the worker of its UDP link calls the Sniffer: one
\* command at a time and none when it has been destroyed, unless the process dies.
WithinContract == Contract!Init /\ [][Crash \/ Contract!Next]_(Contract!vars)
=============================================================================
