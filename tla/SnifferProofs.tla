----------------------------- MODULE SnifferProofs -----------------------------
(***************************************************************************)
(* The Sniffer's threads for any frame classes and any time limit: when     *)
(* stop() has returned nothing is under way and nothing can start, and the  *)
(* client's log agrees with what happened on the buses.  Then the SDK at    *)
(* the other end of the UDP link, for any interval and any network.         *)
(***************************************************************************)
EXTENDS Sniffer, FiniteSetTheorems, TLAPS

-----------------------------------------------------------------------------
(* The inductive invariant *)

\* m_running is set exactly between start() and stop(), and stop() takes the threads down
\* one after the other.
StopInv ==
    /\ running <=> phase = "up"
    /\ phase \in {"stopSystem", "stopComputer", "stopExternal", "down"} => wdpc = "exit"
    /\ phase = "new" => wdpc = "none"
    /\ phase \in {"stopComputer", "stopExternal", "down", "new"} => ~up["SYSTEM"] /\ canpc["SYSTEM"] = "idle"
    /\ phase \in {"stopExternal", "down", "new"} => ~up["COMPUTER"] /\ canpc["COMPUTER"] = "idle"
    /\ phase \in {"down", "new"} => ~up["EXTERNAL"] /\ udppc = "idle"

\* should_forward is what was done with the frame, until the frame is logged.
WireInv == \A b \in Bus : canpc[b] = "log" => (wire[b] = "kept" <=> ~forward[b])

IInv == TypeOK /\ StopInv /\ WireInv

-----------------------------------------------------------------------------
(* The invariant is inductive *)

\* The invariant holds when the object has been constructed.
LEMMA InitIInv == Init => IInv
<1> SUFFICES ASSUME Init PROVE IInv
  OBVIOUS
<1>1. running \in BOOLEAN /\ logging \in BOOLEAN /\ connected \in BOOLEAN /\ alive \in BOOLEAN
  BY Zenon DEF Init
<1>2. up \in [Bus \cup {"EXTERNAL"} -> BOOLEAN] /\ forward \in [Bus -> BOOLEAN]
  BY Zenon DEF Init
<1>3. TypeOK
  BY <1>1, <1>2, SnifferAssumption DEF Init, TypeOK
<1>4. StopInv /\ WireInv
  BY DEF Init, StopInv, WireInv, Bus
<1> QED
  BY <1>3, <1>4 DEF IInv

\* What a command carries.
LEMMA CommandArguments ==
    ASSUME NEW c \in Command \cup {NoCommand}
    PROVE  /\ c.op = "SET_FILTERS" => c.arg \in SUBSET Classes
           /\ c.op \in {"KEEP_ALIVE", "LOGGING"} => c.arg \in BOOLEAN
BY DEF Command, NoCommand

\* Every step keeps the types.
LEMMA TypeStep ==
    ASSUME IInv, [Next]_vars
    PROVE  TypeOK'
<1>0. TypeOK /\ StopInv /\ WireInv
  BY DEF IInv
<1>1. CASE Start
  BY <1>0, <1>1 DEF Start, TypeOK, control, session, udpVars, canVars
<1>2. CASE StopFlag
  BY <1>0, <1>2 DEF StopFlag, TypeOK, control, session, udpVars, canVars
<1>3. CASE StopWatchdog
  BY <1>0, <1>3 DEF StopWatchdog, TypeOK, control, session, udpVars, canVars
<1>4. CASE StopSystem \/ StopComputer \/ StopExternal
  <2>1. CASE StopSystem
    BY <1>0, <2>1 DEF StopSystem, TypeOK, session, udpVars, canVars
  <2>2. CASE StopComputer
    BY <1>0, <2>2 DEF StopComputer, TypeOK, session, udpVars, canVars
  <2>3. CASE StopExternal
    BY <1>0, <2>3 DEF StopExternal, TypeOK, session, udpVars, canVars
  <2> QED
    BY <1>4, <2>1, <2>2, <2>3
<1>5. CASE Recreate
  <2>1. logging' \in BOOLEAN /\ connected' \in BOOLEAN
    BY <1>5, Zenon DEF Recreate
  <2> QED
    BY <1>0, <1>5, <2>1, SnifferAssumption DEF Recreate, TypeOK, canVars
<1>6. CASE UdpReceive \/ UdpMark \/ UdpReply
  <2>1. CASE UdpReceive
    BY <1>0, <2>1 DEF UdpReceive, TypeOK, control, session, canVars
  <2>2. CASE UdpMark
    BY <1>0, <2>2 DEF UdpMark, TypeOK, control, canVars
  <2>3. CASE UdpReply
    BY <1>0, <2>3 DEF UdpReply, TypeOK, control, session, canVars
  <2> QED
    BY <1>6, <2>1, <2>2, <2>3
<1>7. CASE UdpStamp \/ UdpRestamp \/ Tick
  BY <1>0, <1>7, SnifferAssumption DEF UdpStamp, UdpRestamp, Tick, TypeOK, control, session, udpVars, canVars
<1>8. CASE UdpAct
  <2>1. filters' \in SUBSET Classes
    BY <1>0, <1>8, CommandArguments DEF UdpAct, TypeOK
  <2>2. logging' \in BOOLEAN
    BY <1>0, <1>8, CommandArguments, Zenon DEF UdpAct, TypeOK
  <2>3. udppc' \in {"reply", "restamp", "idle"} /\ cmd' \in Command \cup {NoCommand}
    BY <1>0, <1>8 DEF UdpAct, TypeOK
  <2> QED
    BY <1>0, <1>8, <2>1, <2>2, <2>3 DEF UdpAct, TypeOK, control, canVars
<1>9. CASE ClientDies
  <2>1. alive' \in BOOLEAN
    BY <1>9, Zenon DEF ClientDies
  <2> QED
    BY <1>0, <1>9, <2>1 DEF ClientDies, TypeOK, control, session, udpVars, canVars
<1>10. CASE WatchdogLoop
  BY <1>0, <1>10 DEF WatchdogLoop, TypeOK, control, session, udpVars, canVars
<1>11. CASE WatchdogCheck
  BY <1>0, <1>11 DEF WatchdogCheck, TypeOK, control, session, udpVars, canVars
<1>12. CASE WatchdogReset
  BY <1>0, <1>12 DEF WatchdogReset, TypeOK, control, session, udpVars, canVars
<1>13. CASE WatchdogClear
  BY <1>0, <1>13 DEF WatchdogClear, TypeOK, control, session, udpVars, canVars
<1>14. ASSUME NEW b \in Bus, CanReceive(b) PROVE TypeOK'
  BY <1>0, <1>14 DEF CanReceive, TypeOK, control, session, udpVars, canVars
<1>15. ASSUME NEW b \in Bus, CanJudge(b) PROVE TypeOK'
  BY <1>0, <1>15 DEF CanJudge, TypeOK, control, session, udpVars, canVars
<1>16. ASSUME NEW b \in Bus, CanSend(b) PROVE TypeOK'
  BY <1>0, <1>16 DEF CanSend, TypeOK, control, session, udpVars, canVars
<1>17. ASSUME NEW b \in Bus, CanLog(b) PROVE TypeOK'
  BY <1>0, <1>17 DEF CanLog, TypeOK, control, session, udpVars, canVars
<1>18. CASE UNCHANGED vars
  BY <1>0, <1>18 DEF vars, TypeOK, control, session, udpVars, canVars
<1> QED
  BY <1>1, <1>2, <1>3, <1>4, <1>5, <1>6, <1>7, <1>8, <1>9, <1>10, <1>11, <1>12, <1>13, <1>14, <1>15, <1>16, <1>17, <1>18 DEF Next, Stop, Udp, Watchdog, Can

\* stop() takes the threads down one after the other, and none comes back before start().
LEMMA StopStep ==
    ASSUME IInv, [Next]_vars
    PROVE  StopInv'
<1>0. TypeOK /\ StopInv /\ WireInv
  BY DEF IInv
<1>1. CASE Start \/ StopFlag \/ StopWatchdog \/ Recreate
  BY <1>0, <1>1 DEF Start, StopFlag, StopWatchdog, Recreate, TypeOK, StopInv, Bus, control, session, udpVars, canVars
<1>2. CASE StopSystem \/ StopComputer \/ StopExternal
  BY <1>0, <1>2 DEF StopSystem, StopComputer, StopExternal, TypeOK, StopInv, Bus, control, session, udpVars, canVars
<1>3. CASE UdpReceive \/ UdpMark \/ UdpStamp \/ UdpAct \/ UdpReply \/ UdpRestamp
  BY <1>0, <1>3 DEF UdpReceive, UdpMark, UdpStamp, UdpAct, UdpReply, UdpRestamp, TypeOK, StopInv, Bus, control, session, udpVars, canVars
<1>4. CASE ClientDies \/ Tick \/ WatchdogLoop \/ WatchdogCheck \/ WatchdogReset \/ WatchdogClear
  BY <1>0, <1>4 DEF ClientDies, Tick, WatchdogLoop, WatchdogCheck, WatchdogReset, WatchdogClear, TypeOK, StopInv, Bus, control, session, udpVars, canVars
<1>5. CASE \E b \in Bus : CanReceive(b) \/ CanJudge(b) \/ CanSend(b) \/ CanLog(b)
  BY <1>0, <1>5 DEF CanReceive, CanJudge, CanSend, CanLog, TypeOK, StopInv, Bus, control, session, udpVars, canVars
<1>6. CASE UNCHANGED vars
  BY <1>0, <1>6 DEF vars, StopInv, control, session, udpVars, canVars
<1> QED
  BY <1>1, <1>2, <1>3, <1>4, <1>5, <1>6 DEF Next, Stop, Udp, Watchdog, Can

\* The frame that is logged is the one that was judged and sent.
LEMMA WireStep ==
    ASSUME IInv, [Next]_vars
    PROVE  WireInv'
<1>0. TypeOK /\ StopInv /\ WireInv
  BY DEF IInv
<1>1. CASE Start \/ StopFlag \/ StopWatchdog \/ StopSystem \/ StopComputer \/ StopExternal \/ Recreate
  BY <1>0, <1>1 DEF Start, StopFlag, StopWatchdog, StopSystem, StopComputer, StopExternal, Recreate, TypeOK, WireInv, control, session, udpVars, canVars
<1>2. CASE UdpReceive \/ UdpMark \/ UdpStamp \/ UdpAct \/ UdpReply \/ UdpRestamp
  BY <1>0, <1>2 DEF UdpReceive, UdpMark, UdpStamp, UdpAct, UdpReply, UdpRestamp, TypeOK, WireInv, control, session, udpVars, canVars
<1>3. CASE ClientDies \/ Tick \/ WatchdogLoop \/ WatchdogCheck \/ WatchdogReset \/ WatchdogClear
  BY <1>0, <1>3 DEF ClientDies, Tick, WatchdogLoop, WatchdogCheck, WatchdogReset, WatchdogClear, TypeOK, WireInv, control, session, udpVars, canVars
<1>4. CASE \E b \in Bus : CanReceive(b) \/ CanJudge(b) \/ CanSend(b) \/ CanLog(b)
  BY <1>0, <1>4 DEF CanReceive, CanJudge, CanSend, CanLog, TypeOK, WireInv, control, session, udpVars, canVars
<1>5. CASE UNCHANGED vars
  BY <1>0, <1>5 DEF vars, WireInv, control, session, udpVars, canVars
<1> QED
  BY <1>1, <1>2, <1>3, <1>4, <1>5 DEF Next, Stop, Udp, Watchdog, Can

\* Every step keeps the invariant.
LEMMA InductiveStep == IInv /\ [Next]_vars => IInv'
BY TypeStep, StopStep, WireStep DEF IInv

-----------------------------------------------------------------------------
(* Theorems *)

\* The invariant holds in every reachable state.
THEOREM InductiveInvariant == Spec => []IInv
BY InitIInv, InductiveStep, PTL DEF Spec

\* Sniffer::stop(): when it has returned, no callback is under way on any of the four
\* threads and none can start until start() is called, so the object may be deleted.
THEOREM NothingAfterStop == Spec => []QuietWhenDown
<1>1. IInv => QuietWhenDown
  BY DEF IInv, StopInv, QuietWhenDown, Bus
<1> QED
  BY InductiveInvariant, <1>1, PTL

\* handleCanData: with rules, logging and the other bus changing under it, a frame is
\* reported as blocked exactly when it was kept from the other bus.
THEOREM LogTellsTheTruth == Spec => LogMatchesWire
<1> DEFINE Step == \A b \in Bus :
               (canpc[b] = "log" /\ canpc'[b] = "idle" /\ logging) =>
                   (toClient'.kind = "BLOCKED") = (wire[b] = "kept")
<1>1. ASSUME IInv, Next PROVE Step
  <2> SUFFICES ASSUME NEW b \in Bus, canpc[b] = "log", canpc'[b] = "idle", logging
               PROVE  (toClient'.kind = "BLOCKED") = (wire[b] = "kept")
    OBVIOUS
  <2>1. canpc \in [Bus -> {"idle", "judge", "send", "log"}] /\ WireInv
    BY <1>1 DEF IInv, TypeOK
  <2>2. CASE \E c \in Bus : CanLog(c)
    <3>1. CanLog(b)
      BY <2>1, <2>2 DEF CanLog
    <3>2. toClient'.kind = IF forward[b] THEN "FROM" ELSE "BLOCKED"
      BY <3>1 DEF CanLog
    <3>3. toClient'.kind = "BLOCKED" <=> ~forward[b]
      BY <3>2
    <3> QED
      BY <2>1, <3>3 DEF WireInv
  <2>3. CASE \E c \in Bus : CanReceive(c) \/ CanJudge(c) \/ CanSend(c)
    BY <2>1, <2>3 DEF CanReceive, CanJudge, CanSend
  <2>4. CASE Start \/ Stop \/ Recreate \/ UdpReceive \/ Udp \/ ClientDies \/ Watchdog \/ Tick
    <3>1. UNCHANGED canpc
      BY <2>4 DEF Start, Stop, StopFlag, StopWatchdog, StopSystem, StopComputer, StopExternal, Recreate,
                  UdpReceive, Udp, UdpMark, UdpStamp, UdpAct, UdpReply, UdpRestamp, ClientDies,
                  Watchdog, WatchdogLoop, WatchdogCheck, WatchdogReset, WatchdogClear, Tick, canVars
    <3> QED
      BY <3>1
  <2> QED
    BY <1>1, <2>2, <2>3, <2>4 DEF Next, Can
<1>2. IInv /\ [Next]_vars => [Step]_vars
  BY <1>1
<1> QED
  BY InductiveInvariant, <1>2, PTL DEF Spec, LogMatchesWire

-----------------------------------------------------------------------------
(* What is assumed of the three links *)

\* A handler runs on behalf of a link that has not been stopped.
LinkInv == \A c \in Bus \cup {"EXTERNAL"} : Handling(c) => up[c]

\* A step leaves a link alone, or begins or ends one call of its listener while the link
\* may call, or switches the link when its listener is not being called.
LEMMA LinkStep ==
    ASSUME IInv, LinkInv, [Next]_vars, NEW c \in Bus \cup {"EXTERNAL"}
    PROVE  \/ up'[c] = up[c] /\ (Handling(c)' <=> Handling(c))
           \/ up[c] /\ up'[c]
           \/ ~Handling(c) /\ ~Handling(c)'
<1>0. TypeOK /\ StopInv
  BY DEF IInv
<1> USE DEF Handling
<1>1. CASE Start \/ Recreate
  BY <1>0, <1>1 DEF Start, Recreate, TypeOK, StopInv, Bus, canVars, udpVars
<1>2. CASE StopSystem \/ StopComputer \/ StopExternal
  BY <1>0, <1>2 DEF StopSystem, StopComputer, StopExternal, TypeOK, Bus, canVars, udpVars
<1>3. CASE UdpReceive
  BY <1>0, <1>3 DEF UdpReceive, Bus, control, canVars
<1>4. CASE Udp
  <2>1. udppc # "idle" /\ UNCHANGED <<up, canpc>>
    BY <1>4 DEF Udp, UdpMark, UdpStamp, UdpAct, UdpReply, UdpRestamp, control, canVars
  <2>2. up["EXTERNAL"]
    BY <2>1 DEF LinkInv, Handling
  <2> QED
    BY <2>1, <2>2 DEF Bus
<1>5. CASE \E b \in Bus : Can(b)
  <2> PICK b \in Bus : Can(b)
    BY <1>5
  <2>1. UNCHANGED <<up, udppc>>
    BY DEF Can, CanReceive, CanJudge, CanSend, CanLog, control, udpVars
  <2>2. \A a \in Bus \ {b} : canpc'[a] = canpc[a]
    BY <1>0 DEF Can, CanReceive, CanJudge, CanSend, CanLog, TypeOK
  <2>3. up[b]
    <3>1. CASE canpc[b] = "idle"
      BY <3>1 DEF Can, CanReceive, CanJudge, CanSend, CanLog
    <3>2. CASE canpc[b] # "idle"
      BY <3>2 DEF LinkInv, Handling, Bus
    <3> QED
      BY <3>1, <3>2
  <2> QED
    BY <2>1, <2>2, <2>3 DEF Bus
<1>6. CASE StopFlag \/ StopWatchdog \/ ClientDies \/ Watchdog \/ Tick \/ UNCHANGED vars
  BY <1>6 DEF StopFlag, StopWatchdog, ClientDies, Watchdog, WatchdogLoop, WatchdogCheck, WatchdogReset, WatchdogClear,
              Tick, vars, control, canVars, udpVars
<1> QED
  BY <1>1, <1>2, <1>3, <1>4, <1>5, <1>6 DEF Next, Stop

\* The links keep to the contract: a link calls only between start() and stop(), and stop()
\* returns from it only when it is not calling.
LEMMA LinksKeepContract == Spec => WithinContract
<1> USE DEF SystemLink!Next, SystemLink!vars, SystemLink!Open, SystemLink!Call, SystemLink!Return, SystemLink!Close,
            ComputerLink!Next, ComputerLink!vars, ComputerLink!Open, ComputerLink!Call, ComputerLink!Return, ComputerLink!Close,
            ExternalLink!Next, ExternalLink!vars, ExternalLink!Open, ExternalLink!Call, ExternalLink!Return, ExternalLink!Close
<1>1. Init => LinkInv /\ SystemLink!Init /\ ComputerLink!Init /\ ExternalLink!Init
  BY DEF Init, LinkInv, Handling, Bus, SystemLink!Init, ComputerLink!Init, ExternalLink!Init
<1>2. IInv /\ LinkInv /\ [Next]_vars => LinkInv'
  BY LinkStep DEF LinkInv
<1>3. ASSUME IInv, LinkInv, [Next]_vars
      PROVE  /\ [SystemLink!Next]_(SystemLink!vars)
             /\ [ComputerLink!Next]_(ComputerLink!vars)
             /\ [ExternalLink!Next]_(ExternalLink!vars)
  <2> USE DEF Handling
  <2>1. \A c \in Bus \cup {"EXTERNAL"} : up[c] \in BOOLEAN /\ (Handling(c) => up[c])
    BY <1>3 DEF IInv, TypeOK, LinkInv
  <2>2. \A c \in Bus \cup {"EXTERNAL"} : up'[c] \in BOOLEAN /\ (Handling(c)' => up'[c])
    BY <1>2, <1>3, InductiveStep DEF IInv, TypeOK, LinkInv
  <2>3. [SystemLink!Next]_(SystemLink!vars)
    BY <1>3, <2>1, <2>2, LinkStep DEF Bus
  <2>4. [ComputerLink!Next]_(ComputerLink!vars)
    BY <1>3, <2>1, <2>2, LinkStep DEF Bus
  <2>5. [ExternalLink!Next]_(ExternalLink!vars)
    BY <1>3, <2>1, <2>2, LinkStep DEF Bus
  <2> QED
    BY <2>3, <2>4, <2>5
<1> QED
  BY <1>1, <1>2, <1>3, InductiveInvariant, PTL
     DEF Spec, WithinContract, SystemLink!Spec, ComputerLink!Spec, ExternalLink!Spec

\* The Sniffer with links of which nothing is known but that each has one thread to call
\* with: they may call at any time, before start() and after stop(), and stop() waits for
\* none of them (StopExternalNoJoin is the third).
FreeCanReceive(b) ==
    /\ canpc[b] = "idle" /\ running
    /\ \E f \in Classes : frame' = [frame EXCEPT ![b] = f]
    /\ canpc' = [canpc EXCEPT ![b] = "judge"]
    /\ UNCHANGED <<control, session, alive, udpVars, wdpc, forward, wire>>
    /\ Silent

FreeUdpReceive ==
    /\ udppc = "idle" /\ alive
    /\ \E c \in Command :
          /\ running \/ c.op = "CANF"
          /\ cmd' = c
          /\ udppc' = IF c.op = "CANF" THEN "restamp" ELSE "mark"
    /\ UNCHANGED <<control, session, alive, wdpc, canVars>>
    /\ Silent

FreeStopSystem ==
    /\ phase = "stopSystem"
    /\ up' = [up EXCEPT !["SYSTEM"] = FALSE]
    /\ phase' = "stopComputer"
    /\ UNCHANGED <<running, session, alive, udpVars, wdpc, canVars>>
    /\ Silent

FreeStopComputer ==
    /\ phase = "stopComputer"
    /\ up' = [up EXCEPT !["COMPUTER"] = FALSE]
    /\ phase' = "stopExternal"
    /\ UNCHANGED <<running, session, alive, udpVars, wdpc, canVars>>
    /\ Silent

FreeNext ==
    \/ Start \/ StopFlag \/ StopWatchdog \/ FreeStopSystem \/ FreeStopComputer \/ StopExternalNoJoin
    \/ Recreate \/ FreeUdpReceive \/ Udp \/ ClientDies \/ Watchdog \/ Tick
    \/ \E b \in Bus : FreeCanReceive(b) \/ CanJudge(b) \/ CanSend(b) \/ CanLog(b)

FreeSpec == Init /\ [][FreeNext]_vars

\* A step of links of which nothing is known, if the contract allows it, is one of Next.
LEMMA FreeStep ==
    ASSUME IInv, LinkInv, [FreeNext]_vars,
           [SystemLink!Next]_(SystemLink!vars),
           [ComputerLink!Next]_(ComputerLink!vars),
           [ExternalLink!Next]_(ExternalLink!vars)
    PROVE  [Next]_vars
<1>0. TypeOK /\ LinkInv
  BY DEF IInv
<1> USE DEF Handling, SystemLink!Next, SystemLink!vars, SystemLink!Open, SystemLink!Call, SystemLink!Return, SystemLink!Close,
            ComputerLink!Next, ComputerLink!vars, ComputerLink!Open, ComputerLink!Call, ComputerLink!Return, ComputerLink!Close,
            ExternalLink!Next, ExternalLink!vars, ExternalLink!Open, ExternalLink!Call, ExternalLink!Return, ExternalLink!Close
<1>1. CASE FreeStopSystem
  <2>1. canpc["SYSTEM"] = "idle"
    BY <1>0, <1>1 DEF FreeStopSystem, TypeOK, LinkInv, Bus, canVars
  <2> QED
    BY <1>1, <2>1 DEF FreeStopSystem, StopSystem, Next, Stop
<1>2. CASE FreeStopComputer
  <2>1. canpc["COMPUTER"] = "idle"
    BY <1>0, <1>2 DEF FreeStopComputer, TypeOK, LinkInv, Bus, canVars
  <2> QED
    BY <1>2, <2>1 DEF FreeStopComputer, StopComputer, Next, Stop
<1>3. CASE StopExternalNoJoin
  <2>1. udppc = "idle"
    BY <1>0, <1>3 DEF StopExternalNoJoin, TypeOK, LinkInv, Bus, udpVars
  <2> QED
    BY <1>3, <2>1 DEF StopExternalNoJoin, StopExternal, Next, Stop
<1>4. CASE FreeUdpReceive
  <2>1. udppc = "idle" /\ udppc' # "idle" /\ UNCHANGED up
    BY <1>4 DEF FreeUdpReceive, control
  <2>2. up["EXTERNAL"]
    BY <2>1
  <2> QED
    BY <1>4, <2>2 DEF FreeUdpReceive, UdpReceive, Next
<1>5. ASSUME NEW b \in Bus, FreeCanReceive(b)
      PROVE  Next
  <2>1. canpc[b] = "idle" /\ canpc'[b] # "idle" /\ UNCHANGED up
    BY <1>0, <1>5 DEF FreeCanReceive, TypeOK, control
  <2>2. up[b]
    BY <2>1 DEF Bus
  <2> QED
    BY <1>5, <2>2 DEF FreeCanReceive, CanReceive, Can, Next
<1> QED
  BY <1>1, <1>2, <1>3, <1>4, <1>5 DEF FreeNext, Next, Stop, Can

\* Sniffer: the guards on its links are the contract of a CommunicationObj, no less and no
\* more.  Take the same threads with links that may call whenever they like and that stop()
\* does not wait for: its behaviours within the contract are exactly those of Spec.  (That a
\* link has one thread to call with is in the shape of the state.)
THEOREM AssumesTheContract == Spec <=> FreeSpec /\ WithinContract
<1>1. Next => FreeNext
  BY DEF Next, FreeNext, Stop, StopSystem, StopComputer, StopExternal, FreeStopSystem, FreeStopComputer,
         StopExternalNoJoin, UdpReceive, FreeUdpReceive, Can, CanReceive, FreeCanReceive
<1>2. Spec => FreeSpec
  BY <1>1, PTL DEF Spec, FreeSpec
<1>3. Init => IInv /\ LinkInv
  BY InitIInv DEF Init, LinkInv, Handling, Bus
<1>4. IInv /\ LinkInv /\ [Next]_vars => IInv' /\ LinkInv'
  BY InductiveStep, LinkStep DEF LinkInv
<1>5. /\ IInv /\ LinkInv /\ [FreeNext]_vars
      /\ [SystemLink!Next]_(SystemLink!vars)
      /\ [ComputerLink!Next]_(ComputerLink!vars)
      /\ [ExternalLink!Next]_(ExternalLink!vars)
      => [Next]_vars
  BY FreeStep
<1>6. FreeSpec /\ WithinContract => Spec
  BY <1>3, <1>4, <1>5, PTL
     DEF Spec, FreeSpec, WithinContract, SystemLink!Spec, ComputerLink!Spec, ExternalLink!Spec
<1> QED
  BY <1>2, <1>6, LinksKeepContract, PTL

-----------------------------------------------------------------------------
(* The client at the other end: SnifferClient, an instance on variables of its own *)

CONSTANTS Interval, MaxLag, MaxNet

VARIABLES clientRunning, clientConnected, clientLogging, udp, desired, sentAge, recvAge, apppc,
          kapc, lag, overdue, due, nap, payload, rxpc, net, answer, power

Client == INSTANCE SnifferClient
              WITH running <- clientRunning, connected <- clientConnected, logging <- clientLogging

\* SnifferClient's ClientAssumption
ClientBounds == Interval \in Nat /\ MaxLag \in Nat /\ MaxNet \in Nat

\* start() and client_stop() bring keep-alive thread and link up and down together, the
\* thread only where keep-alives are not disabled; in between, client_stop() has lowered the
\* flag and takes down the link first.
ClientStopInv ==
    /\ apppc \in {"idle", "command"} => (~clientRunning => kapc = "none") /\ (clientRunning <=> udp)
    /\ apppc \notin {"idle", "command"} => ~clientRunning /\ (udp <=> apppc = "stopUdp")
    /\ rxpc # "idle" => udp \/ apppc = "joinUdp"

ClientIInv == Client!TypeOK /\ IsFiniteSet(net) /\ ClientStopInv

\* The instance counts datagrams with the same operator.
LEMMA ClientCounts == \A S : Client!Cardinality(S) = Cardinality(S)
BY DEF Client!Cardinality, Cardinality, Client!IsFiniteSet, IsFiniteSet

\* A datagram sent goes onto a network that has room for it, or is lost.
LEMMA ClientSends ==
    ASSUME ClientBounds, Client!TypeOK, IsFiniteSet(net), NEW d \in Client!Datagram, Client!Send(d)
    PROVE  net' \in SUBSET Client!Datagram /\ Client!Cardinality(net') <= MaxNet /\ IsFiniteSet(net')
<1>1. net \in SUBSET Client!Datagram /\ Cardinality(net) <= MaxNet /\ Cardinality(net) \in Nat
  BY FS_CardinalityType, ClientCounts DEF Client!TypeOK
<1>2. CASE udp /\ Cardinality(net) < MaxNet
  <2>1. net' = net \cup {d}
    BY <1>2, ClientCounts DEF Client!Send
  <2>2. IsFiniteSet(net') /\ (Cardinality(net') = Cardinality(net) \/ Cardinality(net') = Cardinality(net) + 1)
    BY <2>1, FS_AddElement
  <2> QED
    BY <1>1, <1>2, <2>1, <2>2, ClientCounts DEF ClientBounds
<1>3. CASE ~(udp /\ Cardinality(net) < MaxNet)
  BY <1>1, <1>3, ClientCounts DEF Client!Send
<1> QED
  BY <1>2, <1>3

\* A datagram that arrives or is lost makes room.
LEMMA ClientTakes ==
    ASSUME ClientBounds, Client!TypeOK, IsFiniteSet(net), NEW d \in net, net' = net \ {d}
    PROVE  net' \in SUBSET Client!Datagram /\ Client!Cardinality(net') <= MaxNet /\ IsFiniteSet(net')
<1>1. net \in SUBSET Client!Datagram /\ Cardinality(net) <= MaxNet /\ Cardinality(net) \in Nat
  BY FS_CardinalityType, ClientCounts DEF Client!TypeOK
<1>2. IsFiniteSet(net') /\ Cardinality(net') = Cardinality(net) - 1
  BY FS_RemoveElement
<1> QED
  BY <1>1, <1>2, ClientCounts DEF ClientBounds

\* The invariant holds of a client that has been created.
LEMMA ClientInit == ASSUME ClientBounds, Client!Init PROVE ClientIInv
<1>1. /\ clientRunning \in BOOLEAN /\ udp \in BOOLEAN /\ clientConnected \in BOOLEAN /\ desired \in BOOLEAN
      /\ overdue \in BOOLEAN /\ due \in BOOLEAN /\ payload \in BOOLEAN
      /\ answer \in BOOLEAN /\ power \in BOOLEAN /\ clientLogging \in BOOLEAN
  BY Zenon DEF Client!Init
<1>2. IsFiniteSet(net) /\ Client!Cardinality(net) = 0
  BY FS_EmptySet, ClientCounts DEF Client!Init
<1>3. Client!TypeOK
  BY <1>1, <1>2 DEF Client!Init, Client!TypeOK, ClientBounds, Client!MaxSentAge, Client!MaxRecvAge, Client!Limit
<1>4. ClientStopInv
  BY DEF Client!Init, ClientStopInv
<1> QED
  BY <1>2, <1>3, <1>4 DEF ClientIInv

\* Every step keeps the types and the network finite.
LEMMA ClientTypeStep ==
    ASSUME ClientBounds, ClientIInv, [Client!Next]_(Client!vars)
    PROVE  Client!TypeOK' /\ IsFiniteSet(net)'
<1>0. Client!TypeOK /\ IsFiniteSet(net)
  BY DEF ClientIInv
<1> USE DEF Client!TypeOK, Client!ages, Client!ka, Client!peer
<1>1. CASE Client!Start \/ Client!StopFlag \/ Client!StopUdp \/ Client!JoinUdp \/ Client!StopJoin
  <2>1. clientRunning' \in BOOLEAN /\ udp' \in BOOLEAN
    BY <1>0, <1>1, Zenon DEF Client!Start, Client!StopFlag, Client!StopUdp, Client!JoinUdp, Client!StopJoin
  <2> QED
    BY <1>0, <1>1, <2>1 DEF Client!Start, Client!StopFlag, Client!StopUdp, Client!JoinUdp, Client!StopJoin
<1>2. CASE Client!SetLogging \/ Client!SendOther
  BY <1>0, <1>2 DEF Client!SetLogging, Client!SendOther, Client!MaxSentAge, ClientBounds
<1>3. CASE Client!SendLogging
  <2>1. [op |-> "LOGGING", arg |-> desired] \in Client!Datagram
    BY <1>0 DEF Client!Datagram
  <2>2. net' \in SUBSET Client!Datagram /\ Client!Cardinality(net') <= MaxNet /\ IsFiniteSet(net')
    BY <1>0, <1>3, <2>1, ClientSends DEF Client!SendLogging
  <2> QED
    BY <1>0, <1>3, <2>2 DEF Client!SendLogging, Client!MaxSentAge, ClientBounds
<1>4. CASE Client!KaLoop \/ Client!KaTest \/ Client!KaLost
  <2>1. clientConnected' \in BOOLEAN /\ overdue' \in BOOLEAN
    BY <1>0, <1>4, Zenon DEF Client!KaLoop, Client!KaTest, Client!KaLost
  <2> QED
    BY <1>0, <1>4, <2>1 DEF Client!KaLoop, Client!KaTest, Client!KaLost, ClientBounds
<1>5. CASE Client!KaLoad \/ Client!KaLoadRecv
  <2> DEFINE silent == Client!Elapsed(recvAge) > Client!Limit
             quiet == Client!Elapsed(sentAge) >= Interval
  <2>0. silent \in BOOLEAN /\ quiet \in BOOLEAN
    OBVIOUS
  <2>1. CASE Client!KaLoad
    <3>1. Client!Elapsed(sentAge) \in Nat
      BY <1>0 DEF Client!Elapsed, Client!MaxSentAge, Client!MaxRecvAge, Client!Limit, ClientBounds
    <3>2. due' = quiet /\ nap' = IF due' THEN Interval ELSE Interval - Client!Elapsed(sentAge)
      BY <2>1 DEF Client!KaLoad, quiet
    <3>3. due' \in BOOLEAN
      <4> HIDE DEF quiet
      <4> QED
        BY <2>0, <3>2, Zenon
    <3>4. nap' \in 0 .. Interval
      <4>1. quiet => nap' = Interval
        BY <3>2, Zenon
      <4>2. ~quiet => nap' = Interval - Client!Elapsed(sentAge)
        BY <3>2, Zenon
      <4> QED
        BY <3>1, <4>1, <4>2 DEF ClientBounds
    <3> QED
      BY <1>0, <2>1, <3>3, <3>4 DEF Client!KaLoad
  <2>2. CASE Client!KaLoadRecv
    <3>1. overdue' = silent
      BY <2>2 DEF Client!KaLoadRecv, silent
    <3>2. overdue' \in BOOLEAN
      <4> HIDE DEF silent
      <4> QED
        BY <2>0, <3>1, Zenon
    <3> QED
      BY <1>0, <2>2, <3>2 DEF Client!KaLoadRecv, ClientBounds
  <2> QED
    BY <1>5, <2>1, <2>2
<1>6. CASE Client!KaWish
  <2>1. payload' \in BOOLEAN /\ due' \in BOOLEAN
    BY <1>0, <1>6, Zenon DEF Client!KaWish
  <2> QED
    BY <1>0, <1>6, <2>1 DEF Client!KaWish
<1>7. CASE Client!KaSend
  <2>1. [op |-> "KEEP_ALIVE", arg |-> payload] \in Client!Datagram
    BY <1>0 DEF Client!Datagram
  <2>2. net' \in SUBSET Client!Datagram /\ Client!Cardinality(net') <= MaxNet /\ IsFiniteSet(net')
    BY <1>0, <1>7, <2>1, ClientSends DEF Client!KaSend
  <2>3. payload' \in BOOLEAN
    BY <1>7, Zenon DEF Client!KaSend
  <2> QED
    BY <1>0, <1>7, <2>2, <2>3 DEF Client!KaSend, Client!MaxSentAge, ClientBounds
<1>8. CASE Client!RxStatus \/ Client!RxFrame \/ Client!RxMark \/ Client!RxStamp
  <2>1. clientConnected' \in BOOLEAN /\ answer' \in BOOLEAN
    BY <1>0, <1>8, Zenon DEF Client!RxStatus, Client!RxFrame, Client!RxMark, Client!RxStamp
  <2> QED
    BY <1>0, <1>8, <2>1 DEF Client!RxStatus, Client!RxFrame, Client!RxMark, Client!RxStamp, Client!MaxRecvAge,
                            Client!Limit, ClientBounds
<1>9. CASE Client!SnifferHandles \/ Client!Lose
  <2>1. net' \in SUBSET Client!Datagram /\ Client!Cardinality(net') <= MaxNet /\ IsFiniteSet(net')
    BY <1>0, <1>9, ClientTakes DEF Client!SnifferHandles, Client!Lose
  <2>2. \A d \in Client!Datagram : d.arg \in BOOLEAN
    BY DEF Client!Datagram
  <2>3. answer' \in BOOLEAN /\ clientLogging' \in BOOLEAN
    BY <1>0, <1>9, <2>2, Zenon DEF Client!SnifferHandles, Client!Lose
  <2> QED
    BY <1>0, <1>9, <2>1, <2>3 DEF Client!SnifferHandles, Client!Lose
<1>10. CASE Client!SnifferResets \/ Client!SnifferPower
  <2>1. power' \in BOOLEAN /\ clientLogging' \in BOOLEAN
    BY <1>0, <1>10, Zenon DEF Client!SnifferResets, Client!SnifferPower
  <2> QED
    BY <1>0, <1>10, <2>1 DEF Client!SnifferResets, Client!SnifferPower
<1>11. CASE Client!Tick
  BY <1>0, <1>11 DEF Client!Tick, Client!Older, Client!MaxSentAge, Client!MaxRecvAge, Client!Limit, ClientBounds
<1>12. CASE UNCHANGED Client!vars
  BY <1>0, <1>12 DEF Client!vars
<1> QED
  BY <1>1, <1>2, <1>3, <1>4, <1>5, <1>6, <1>7, <1>8, <1>9, <1>10, <1>11, <1>12
     DEF Client!Next, Client!AppGoesOn, Client!KeepAlive, Client!Receive

\* Every step keeps the order in which client_stop() takes the threads down.
LEMMA ClientStopStep ==
    ASSUME ClientIInv, [Client!Next]_(Client!vars)
    PROVE  ClientStopInv'
<1>0. Client!TypeOK /\ ClientStopInv
  BY DEF ClientIInv
<1> USE DEF ClientStopInv, Client!ages, Client!ka, Client!peer
<1>1. CASE Client!Start \/ Client!StopFlag \/ Client!AppGoesOn \/ Client!SetLogging \/ Client!SendOther
  BY <1>0, <1>1 DEF Client!Start, Client!StopFlag, Client!StopUdp, Client!JoinUdp, Client!StopJoin, Client!AppGoesOn,
                    Client!SetLogging, Client!SendOther, Client!SendLogging, Client!TypeOK
<1>2. CASE Client!KeepAlive
  BY <1>0, <1>2 DEF Client!KeepAlive, Client!KaLoop, Client!KaLoad, Client!KaLoadRecv, Client!KaTest, Client!KaLost,
                    Client!KaWish, Client!KaSend
<1>3. CASE Client!RxStatus \/ Client!RxFrame \/ Client!Receive
  BY <1>0, <1>3 DEF Client!RxStatus, Client!RxFrame, Client!Receive, Client!RxMark, Client!RxStamp
<1>4. CASE Client!SnifferHandles \/ Client!SnifferResets \/ Client!SnifferPower \/ Client!Lose \/ Client!Tick
  BY <1>0, <1>4 DEF Client!SnifferHandles, Client!SnifferResets, Client!SnifferPower, Client!Lose, Client!Tick
<1>5. CASE UNCHANGED Client!vars
  BY <1>0, <1>5 DEF Client!vars
<1> QED
  BY <1>1, <1>2, <1>3, <1>4, <1>5 DEF Client!Next

\* The SDK: when client_stop() has returned, no callback of the link is under way, none can
\* begin and the keep-alive thread has ended, whatever interval, however long its reads of
\* the clock and the stamps lie apart and however many datagrams are under way.
THEOREM ClientQuietWhenStopped ==
    ASSUME ClientBounds
    PROVE  Client!Spec => []Client!QuietWhenStopped
<1>1. Client!Init => ClientIInv
  BY ClientInit
<1>2. ClientIInv /\ [Client!Next]_(Client!vars) => ClientIInv'
  BY ClientTypeStep, ClientStopStep DEF ClientIInv
<1>3. ClientIInv => Client!QuietWhenStopped
  BY DEF ClientIInv, ClientStopInv, Client!QuietWhenStopped
<1> QED
  BY <1>1, <1>2, <1>3, PTL DEF Client!Spec
================================================================================
