-------------------------------- MODULE CanBus --------------------------------
(***************************************************************************)
(* A CAN bus from the plug to the Sniffer: the USB watchdog that creates    *)
(* the interface (UsbWatchdog.tla) and the link that uses it (BusLink.tla,  *)
(* which CanLink.tla implements), started and stopped in the order of       *)
(* MainService::createSniffer and destroySniffer.                           *)
(***************************************************************************)
EXTENDS UsbWatchdog

VARIABLES link,   \* the link of the Sniffer to this interface
          on      \* the Sniffer is started

Link == INSTANCE BusLink

busVars == <<vars, link, on>>

BusInit == Init /\ link = "down" /\ on = FALSE

\* createSniffer starts the watchdog, then the Sniffer; destroySniffer stops the watchdog,
\* then the Sniffer.  When the interface changes the socket bound to it is told.
WatchdogStep ==
    /\ Next
    /\ owner # "up" /\ owner' = "up" => ~on /\ link = "down"
    /\ owner = "up" /\ owner' = "join" => on
    /\ IF net' = net THEN UNCHANGED <<link, on>> ELSE Link!InterfaceChange(net')

SnifferStarts == owner = "up" /\ ~on /\ Link!Switch /\ UNCHANGED vars
SnifferStops == owner = "idle" /\ on /\ Link!Switch /\ UNCHANGED vars

LinkConnect == on /\ Link!Connect /\ UNCHANGED vars
LinkGivesUp == Link!GiveUp /\ UNCHANGED vars
LinkDrops == Link!Drop /\ UNCHANGED vars

BusNext == WatchdogStep \/ SnifferStarts \/ SnifferStops \/ LinkConnect \/ LinkGivesUp \/ LinkDrops

BusSpec == BusInit /\ [][BusNext]_busVars

\* The fairness of the watchdog and of slcand, and a link whose supervisor and RX thread go on.
BusFairSpec ==
    /\ BusSpec
    /\ WF_busVars(Watchdog /\ WatchdogStep)
    /\ WF_busVars(StopJoin /\ WatchdogStep) /\ WF_busVars(StopKill /\ WatchdogStep)
    /\ \A p \in Procs :
          /\ WF_busVars((SlcandExec(p) \/ SlcandFails(p) \/ SlcandDies(p)) /\ WatchdogStep)
          /\ SF_busVars(SlcandServes(p) /\ WatchdogStep)
    /\ SF_busVars(LinkConnect) /\ WF_busVars(LinkGivesUp) /\ WF_busVars(LinkDrops)

-----------------------------------------------------------------------------
(* Properties. *)

\* From the plug to the Sniffer: an adapter that stays plugged in while the service runs
\* ends with its interface up, reported so, and with the link connected, however often
\* it was pulled before.
PluggedBusConnects ==
    <>[](usb = "tty" /\ owner = "up" /\ on) => <>[](link = "up" /\ net = "up" /\ status = "ACTIVE")
=============================================================================
