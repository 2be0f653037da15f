---------------------------- MODULE CanLinkProofs ----------------------------
(***************************************************************************)
(* A CAN link, for every descriptor table: the number it keeps is that of   *)
(* its own socket, no frame of another descriptor reaches the listener, a   *)
(* link that works is shown so, and the link implements BusLink.            *)
(***************************************************************************)
EXTENDS CanLink, SequenceTheorems, TLAPS

-----------------------------------------------------------------------------
(* The inductive invariant *)

StopPhase == {"unblock", "clear", "join", "close"}
StartPhase == {"bind", "undo", "spawn"}

\* The owner and the supervisor are never inside start() or stop() together.
ControlInv ==
    /\ lpc["own"] \in {"idle", "up", "joinSup", "stop", "stopExt"} \cup StopPhase
    /\ lpc["sup"] \in {"loop", "mode", "start", "exit", "stop"} \cup StartPhase \cup StopPhase
    /\ lpc["own"] \notin {"up", "joinSup"} => lpc["sup"] = "exit"
    /\ reconnect <=> lpc["own"] = "up"

\* Between sessions: nothing of the last one is left.
Between == lpc["own"] \in {"idle", "stopExt"} \/ lpc["sup"] \in {"mode", "start"}
Stopped(c) == lpc[c] \in {"join", "close"}

\* The link's entry in the descriptor table, the number it keeps and its socket agree.
FdInv ==
    /\ \A n \in Fds : desc[n] = "link" => n = fd
    /\ fd # Closed => (desc[fd] = "link" <=> ~Clearing)
    /\ Clearing => fd # Closed
    /\ sock = "none" <=> fd = Closed \/ Clearing
    /\ sock = "unbound" <=> lpc["sup"] = "bind"
    /\ Between \/ (\E c \in Caller : Stopped(c)) => fd = Closed

\* m_running is up only over a live socket, and down before the socket is closed; an RX
\* thread is there as long as the socket is.
SessionInv ==
    /\ lrun => sock \in {"bound", "stale"}
    /\ lrun => rx # "exit"
    /\ lpc["sup"] = "spawn" => lrun
    /\ lpc["sup"] \in {"stop", "bind", "undo"} \/ Between => ~lrun
    /\ \A c \in Caller : lpc[c] \in StopPhase => ~lrun
    /\ \A c \in Caller : lpc[c] = "close" => rx = "none"
    /\ Between \/ lpc["sup"] \in StartPhase => rx = "none"
    /\ fd # Closed /\ lpc["sup"] \notin StartPhase => rx # "none"

\* While the link runs, what the RX thread reads and what waits in the ring is its own.
FrameInv ==
    /\ rx = "read" /\ lrun => rxfd = fd
    /\ lrun => ring # "foreign"
    /\ ~strayed

Working == lrun /\ rx \notin {"error2", "drop", "exit"}

\* A link that has come up and not yet reported an error has reported CONNECTED last.
BoardInv == Working => board = "CONNECTED" \/ (bus = "computer" /\ ext \in {"failing", "failed"})

\* The writes of CONNECTED, the ones that are still to come and the ones that are done.
Connected == SetTimer(<<1500, 1500>>)
LedOfConnected ==
    \/ pend["sup"] = Connected
    \/ pend["sup"] = <<Connected[2], Connected[3]>>
    \/ pend["sup"] = <<Connected[3]>> /\ led["on"] = 1500
    \/ pend["sup"] = <<>> /\ led = Delays(1500, 1500)

\* No two threads write to the LED of the system link at a time.
LedInv ==
    bus = "system" =>
        /\ pend["ext"] = <<>>
        /\ pend["own"] # <<>> => lpc["own"] = "unblock"
        /\ pend["sup"] # <<>> => lpc["sup"] \in {"unblock", "spawn"}
        /\ pend["rx"] # <<>> => rx \in {"error2", "drop"}
        /\ Working => LedOfConnected

\* The part of TypeOK about what is shown.
ShowType ==
    /\ board \in {"NONE", "CONNECTED", "DISCONNECTED", "ERROR", "UNKNOWN"}
    /\ led \in [{"on", "off"} -> Times]
    /\ pend \in [Reporter -> Seq(Writes)]

IInv == TypeOK /\ ControlInv /\ FdInv /\ SessionInv /\ FrameInv /\ BoardInv /\ LedInv

-----------------------------------------------------------------------------
(* Operators *)

\* setTimer is three attribute writes, whatever the status.
LEMMA SetTimerType ==
    ASSUME NEW st \in {"CONNECTED", "DISCONNECTED", "ERROR"}
    PROVE  SetTimer(Pattern(st)) \in Seq(Writes)
<1> DEFINE p == Pattern(st)
<1>1. p[1] \in Times /\ p[2] \in Times
  BY DEF Pattern, Times
<1> HIDE DEF p
<1>2. <<"trigger", 500>> \in Writes /\ <<"on", p[1]>> \in Writes /\ <<"off", p[2]>> \in Writes
  BY <1>1 DEF Writes, Times
<1>3. << <<"trigger", 500>>, <<"on", p[1]>>, <<"off", p[2]>> >> \in Seq(Writes)
  BY <1>2
<1> QED
  BY <1>3 DEF SetTimer, p

\* The three writes of CONNECTED, one after the other.
LEMMA WritesOfConnected ==
    /\ Connected[1] = <<"trigger", 500>> /\ Connected[2] = <<"on", 1500>> /\ Connected[3] = <<"off", 1500>>
    /\ Head(Connected) = Connected[1] /\ Tail(Connected) = <<Connected[2], Connected[3]>>
    /\ \A u, v : Head(<<u, v>>) = u /\ Tail(<<u, v>>) = <<v>>
    /\ \A v : Head(<<v>>) = v /\ Tail(<<v>>) = <<>>
BY DEF Connected, SetTimer

\* A report leaves board and pend within their types.
LEMMA ReportType ==
    ASSUME TypeOK, NEW t \in Reporter, NEW st \in {"CONNECTING", "CONNECTED", "DISCONNECTED", "ERROR"},
           Report(t, st)
    PROVE  /\ board' \in {"NONE", "CONNECTED", "DISCONNECTED", "ERROR", "UNKNOWN"}
           /\ pend' \in [Reporter -> Seq(Writes)]
           /\ led' = led
<1>1. pend \in [Reporter -> Seq(Writes)]
  BY DEF TypeOK
<1>2. st # "CONNECTING" => SetTimer(Pattern(st)) \in Seq(Writes)
  BY SetTimerType
<1>3. <<>> \in Seq(Writes)
  OBVIOUS
<1>4. (IF st = "CONNECTING" THEN <<>> ELSE SetTimer(Pattern(st))) \in Seq(Writes)
  BY <1>2, <1>3
<1> QED
  BY <1>1, <1>4 DEF Report

-----------------------------------------------------------------------------
(* Every step keeps every part of the invariant *)

\* The owner joins the supervisor before it stops the link itself.
LEMMA ControlStep ==
    ASSUME IInv, Next
    PROVE  ControlInv'
<1> USE FdsAssumption DEF IInv, TypeOK, ControlInv, StopPhase, StartPhase, Caller, LGoto, AfterStop
<1>1. CASE OwnerStart \/ OwnerStop \/ OwnerJoinSup \/ OwnerStopExt
  BY <1>1 DEF OwnerStart, OwnerStop, OwnerJoinSup, OwnerStopExt
<1>2. ASSUME NEW c \in Caller, LinkStop(c) PROVE ControlInv'
  BY <1>2 DEF LinkStop, StopNothing, StopFlag, Unblock, UnblockClear, Join, Close
<1>3. CASE Supervisor
  BY <1>3 DEF Supervisor, SupDown, SupConnecting, Socket, Bind, BindFails, BindUndone, Spawn
<1>4. CASE RxThread
  BY <1>4 DEF RxThread, RxLoop, RxPoll, RxLoad, RxFrame, RxFails, RxError, RxDrop
<1>5. CASE Deliver \/ ExtError \/ ExtFails \/ OtherOpens \/ OtherCloses \/ Interface
  BY <1>5 DEF Deliver, ExtError, ExtFails, OtherOpens, OtherCloses, Interface
<1>6. ASSUME NEW t \in Reporter, LedWrite(t) PROVE ControlInv'
  BY <1>6 DEF LedWrite
<1> QED
  BY <1>1, <1>2, <1>3, <1>4, <1>5, <1>6 DEF Next, Owner

\* Every step keeps the descriptor table, m_socketFd and the socket in agreement.
LEMMA FdStep ==
    ASSUME IInv, Next
    PROVE  FdInv'
<1> USE FdsAssumption DEF IInv, TypeOK, ControlInv, FdInv, SessionInv, Between, Stopped, Clearing,
     StopPhase, StartPhase, Caller, LGoto, AfterStop, Closed, Unheld, socketVars
<1>1. CASE OwnerStart \/ OwnerStop \/ OwnerJoinSup \/ OwnerStopExt
  BY <1>1 DEF OwnerStart, OwnerStop, OwnerJoinSup, OwnerStopExt
<1>2. ASSUME NEW c \in Caller, LinkStop(c) PROVE FdInv'
  BY <1>2 DEF LinkStop, StopNothing, StopFlag, Unblock, UnblockClear, Join, Close
<1>3. CASE Supervisor
  BY <1>3 DEF Supervisor, SupDown, SupConnecting, Socket, Bind, BindFails, BindUndone, Spawn
<1>4. CASE RxThread
  BY <1>4 DEF RxThread, RxLoop, RxPoll, RxLoad, RxFrame, RxFails, RxError, RxDrop
<1>5. CASE Deliver \/ ExtError \/ ExtFails \/ OtherOpens \/ OtherCloses \/ Interface
  BY <1>5 DEF Deliver, ExtError, ExtFails, OtherOpens, OtherCloses, Interface
<1>6. ASSUME NEW t \in Reporter, LedWrite(t) PROVE FdInv'
  BY <1>6 DEF LedWrite
<1> QED
  BY <1>1, <1>2, <1>3, <1>4, <1>5, <1>6 DEF Next, Owner

\* Every step keeps m_running and the RX thread in step with the socket.
LEMMA SessionStep ==
    ASSUME IInv, Next
    PROVE  SessionInv'
<1> USE FdsAssumption DEF IInv, TypeOK, ControlInv, FdInv, SessionInv, Between, Stopped, Clearing,
     StopPhase, StartPhase, Caller, LGoto, RxGoto, AfterStop, Closed, socketVars
<1>1. CASE OwnerStart \/ OwnerStop \/ OwnerJoinSup \/ OwnerStopExt
  BY <1>1 DEF OwnerStart, OwnerStop, OwnerJoinSup, OwnerStopExt
<1>2. ASSUME NEW c \in Caller, LinkStop(c) PROVE SessionInv'
  BY <1>2 DEF LinkStop, StopNothing, StopFlag, Unblock, UnblockClear, Join, Close
<1>3. CASE Supervisor
  BY <1>3 DEF Supervisor, SupDown, SupConnecting, Socket, Bind, BindFails, BindUndone, Spawn
<1>4. CASE RxThread
  BY <1>4 DEF RxThread, RxLoop, RxPoll, RxLoad, RxFrame, RxFails, RxError, RxDrop
<1>5. CASE Deliver \/ ExtError \/ ExtFails \/ OtherOpens \/ OtherCloses \/ Interface
  BY <1>5 DEF Deliver, ExtError, ExtFails, OtherOpens, OtherCloses, Interface
<1>6. ASSUME NEW t \in Reporter, LedWrite(t) PROVE SessionInv'
  BY <1>6 DEF LedWrite
<1> QED
  BY <1>1, <1>2, <1>3, <1>4, <1>5, <1>6 DEF Next, Owner

\* No step lets a foreign frame into a running link's ring.
LEMMA FrameStep ==
    ASSUME IInv, Next
    PROVE  FrameInv'
<1> USE FdsAssumption DEF IInv, TypeOK, ControlInv, FdInv, SessionInv, FrameInv, Between, Stopped,
     Clearing, StopPhase, StartPhase, Caller, LGoto, RxGoto, AfterStop, Closed, socketVars
<1>1. CASE OwnerStart \/ OwnerStop \/ OwnerJoinSup \/ OwnerStopExt
  BY <1>1 DEF OwnerStart, OwnerStop, OwnerJoinSup, OwnerStopExt
<1>2. ASSUME NEW c \in Caller, LinkStop(c) PROVE FrameInv'
  BY <1>2 DEF LinkStop, StopNothing, StopFlag, Unblock, UnblockClear, Join, Close
<1>3. CASE Supervisor
  BY <1>3 DEF Supervisor, SupDown, SupConnecting, Socket, Bind, BindFails, BindUndone, Spawn
<1>4. CASE RxThread
  BY <1>4 DEF RxThread, RxLoop, RxPoll, RxLoad, RxFrame, Readable, Origin, RxFails, RxError, RxDrop
<1>5. CASE Deliver \/ ExtError \/ ExtFails \/ OtherOpens \/ OtherCloses \/ Interface
  BY <1>5 DEF Deliver, ExtError, ExtFails, OtherOpens, OtherCloses, Interface
<1>6. ASSUME NEW t \in Reporter, LedWrite(t) PROVE FrameInv'
  BY <1>6 DEF LedWrite
<1> QED
  BY <1>1, <1>2, <1>3, <1>4, <1>5, <1>6 DEF Next, Owner

\* No step but an error's makes a working link's entry differ from CONNECTED.
LEMMA BoardStep ==
    ASSUME IInv, Next
    PROVE  BoardInv'
<1> USE FdsAssumption DEF IInv, TypeOK, ControlInv, FdInv, SessionInv, BoardInv, Working, Between,
     Clearing, StopPhase, StartPhase, Caller, LGoto, RxGoto, Report, ReportExternal, Closed, socketVars,
     showVars
<1>1. CASE OwnerStart \/ OwnerStop \/ OwnerJoinSup \/ OwnerStopExt
  BY <1>1 DEF OwnerStart, OwnerStop, OwnerJoinSup, OwnerStopExt
<1>2. ASSUME NEW c \in Caller, LinkStop(c) PROVE BoardInv'
  BY <1>2 DEF LinkStop, StopNothing, StopFlag, Unblock, UnblockClear, Join, Close
<1>3. CASE Supervisor
  BY <1>3 DEF Supervisor, SupDown, SupConnecting, Socket, Bind, BindFails, BindUndone, Spawn
<1>4. CASE RxThread
  BY <1>4 DEF RxThread, RxLoop, RxPoll, RxLoad, RxFrame, RxFails, RxError, RxDrop
<1>5. CASE Deliver \/ ExtError \/ ExtFails \/ OtherOpens \/ OtherCloses \/ Interface
  BY <1>5 DEF Deliver, ExtError, ExtFails, OtherOpens, OtherCloses, Interface
<1>6. ASSUME NEW t \in Reporter, LedWrite(t) PROVE BoardInv'
  BY <1>6 DEF LedWrite
<1> QED
  BY <1>1, <1>2, <1>3, <1>4, <1>5, <1>6 DEF Next, Owner

\* Each write of CONNECTED brings the LED one step further.
LEMMA LedProgress ==
    ASSUME LedOfConnected, ShowType, LedWrite("sup")
    PROVE  LedOfConnected'
<1> DEFINE w == Head(pend["sup"])
<1>1. /\ pend["sup"] # <<>>
      /\ led' = IF w[1] = "trigger" THEN Delays(w[2], w[2]) ELSE [led EXCEPT ![w[1]] = w[2]]
      /\ pend'["sup"] = Tail(pend["sup"])
  BY DEF LedWrite, ShowType, Reporter
<1>2. led \in [{"on", "off"} -> Times]
  BY DEF ShowType
<1>3. CASE pend["sup"] = Connected
  <2>1. pend'["sup"] = <<Connected[2], Connected[3]>>
    BY <1>1, <1>3, WritesOfConnected
  <2> QED
    BY <2>1 DEF LedOfConnected
<1>4. CASE pend["sup"] = <<Connected[2], Connected[3]>>
  <2>1. w = <<"on", 1500>> /\ Tail(pend["sup"]) = <<Connected[3]>>
    BY <1>4, WritesOfConnected
  <2> HIDE DEF w
  <2>2. w[1] = "on" /\ w[2] = 1500
    BY <2>1
  <2>3. led' = [led EXCEPT !["on"] = 1500]
    BY <1>1, <2>2
  <2>4. led'["on"] = 1500
    BY <1>2, <2>3
  <2> QED
    BY <1>1, <2>1, <2>4 DEF LedOfConnected
<1>5. CASE pend["sup"] = <<Connected[3]>> /\ led["on"] = 1500
  <2>1. w = <<"off", 1500>> /\ Tail(pend["sup"]) = <<>>
    BY <1>5, WritesOfConnected
  <2> HIDE DEF w
  <2>2. w[1] = "off" /\ w[2] = 1500
    BY <2>1
  <2>3. led' = [led EXCEPT !["off"] = 1500]
    BY <1>1, <2>2
  <2>4. led' = Delays(1500, 1500)
    <3>1. led' \in [{"on", "off"} -> Times] /\ led'["on"] = 1500 /\ led'["off"] = 1500
      BY <1>2, <1>5, <2>3 DEF Times
    <3>2. Delays(1500, 1500) = [d \in {"on", "off"} |-> 1500]
      BY DEF Delays
    <3> QED
      BY <3>1, <3>2
  <2> QED
    BY <1>1, <2>1, <2>4 DEF LedOfConnected
<1> QED
  BY <1>1, <1>3, <1>4, <1>5 DEF LedOfConnected

\* The writes of one report to the system link's LED are not mixed with another's.
LEMMA LedStep ==
    ASSUME IInv, Next
    PROVE  LedInv'
<1> USE FdsAssumption DEF IInv, TypeOK, ControlInv, FdInv, SessionInv, LedInv, Working,
     LedOfConnected, Connected, SetTimer, Pattern, Delays, Idle, Reporter, Between, Clearing, StopPhase,
     StartPhase, Caller, LGoto, RxGoto, Report, ReportExternal, Closed, socketVars, showVars
<1>1. CASE OwnerStart \/ OwnerStop \/ OwnerJoinSup \/ OwnerStopExt
  BY <1>1 DEF OwnerStart, OwnerStop, OwnerJoinSup, OwnerStopExt
<1>2. ASSUME NEW c \in Caller, LinkStop(c) PROVE LedInv'
  BY <1>2 DEF LinkStop, StopNothing, StopFlag, Unblock, UnblockClear, Join, Close
<1>3. CASE Supervisor
  BY <1>3 DEF Supervisor, SupDown, SupConnecting, Socket, Bind, BindFails, BindUndone, Spawn
<1>4. CASE RxThread
  BY <1>4 DEF RxThread, RxLoop, RxPoll, RxLoad, RxFrame, RxFails, RxError, RxDrop
<1>5. CASE Deliver \/ ExtError \/ ExtFails \/ OtherOpens \/ OtherCloses \/ Interface
  BY <1>5 DEF Deliver, ExtError, ExtFails, OtherOpens, OtherCloses, Interface
<1>6. ASSUME NEW t \in Reporter, LedWrite(t) PROVE LedInv'
  <2> HIDE DEF SetTimer, Connected, Delays, LedOfConnected
  <2> SUFFICES ASSUME bus = "system" PROVE LedInv'
    BY <1>6 DEF LedWrite
  <2>1. pend[t] # <<>> /\ pend' = [pend EXCEPT ![t] = Tail(@)] /\ pend[t] \in Seq(Writes)
    BY <1>6 DEF LedWrite
  <2>2. ASSUME Working PROVE LedOfConnected'
    BY <1>6, <2>1, <2>2, LedProgress DEF ShowType
  <2> QED
    BY <1>6, <2>1, <2>2 DEF LedWrite
<1> QED
  BY <1>1, <1>2, <1>3, <1>4, <1>5, <1>6 DEF Next, Owner

\* Every step keeps the types of what is shown.
LEMMA ShowStep ==
    ASSUME IInv, Next
    PROVE  ShowType'
<1>1. TypeOK /\ ShowType
  BY DEF IInv, TypeOK, ShowType
<1>2. ASSUME NEW t \in Reporter, NEW st \in {"CONNECTING", "CONNECTED", "DISCONNECTED", "ERROR"},
             Report(t, st) \/ ReportExternal(t, st)
      PROVE  ShowType'
  BY <1>1, <1>2, ReportType DEF ReportExternal, ShowType, showVars
<1>3. CASE UNCHANGED showVars
  BY <1>1, <1>3 DEF ShowType, showVars
<1>4. ASSUME NEW t \in Reporter, LedWrite(t) PROVE ShowType'
  <2>1. pend[t] \in Seq(Writes) /\ pend[t] # <<>>
    BY <1>1, <1>4 DEF LedWrite, ShowType
  <2>2. Head(pend[t]) \in Writes /\ Tail(pend[t]) \in Seq(Writes)
    BY <2>1
  <2>3. pend' \in [Reporter -> Seq(Writes)] /\ board' = board
    BY <1>1, <1>4, <2>2 DEF LedWrite, ShowType
  <2>4. led' \in [{"on", "off"} -> Times]
    BY <1>1, <1>4, <2>2 DEF LedWrite, ShowType, Writes, Delays
  <2> QED
    BY <1>1, <2>3, <2>4 DEF ShowType
<1>5. CASE OwnerStart \/ OwnerStopExt \/ \E c \in Caller : StopFlag(c)
  BY <1>2, <1>3, <1>5 DEF OwnerStart, OwnerStopExt, StopFlag, Caller, Reporter
<1>6. CASE SupConnecting \/ Bind \/ RxError \/ ExtError \/ ExtFails
  BY <1>2, <1>3, <1>6 DEF SupConnecting, Bind, RxError, ExtError, ExtFails, Reporter
<1>7. CASE OwnerStop \/ OwnerJoinSup \/ SupDown \/ Socket \/ BindFails \/ BindUndone \/ Spawn
  BY <1>3, <1>7 DEF OwnerStop, OwnerJoinSup, SupDown, Socket, BindFails, BindUndone, Spawn
<1>8. ASSUME NEW c \in Caller, StopNothing(c) \/ Unblock(c) \/ UnblockClear(c) \/ Join(c) \/ Close(c)
      PROVE  ShowType'
  BY <1>3, <1>8 DEF StopNothing, Unblock, UnblockClear, Join, Close
<1>9. CASE RxLoop \/ RxPoll \/ RxLoad \/ RxFrame \/ RxFails \/ RxDrop
  BY <1>3, <1>9 DEF RxLoop, RxPoll, RxLoad, RxFrame, RxFails, RxDrop
<1>10. CASE Deliver \/ OtherOpens \/ OtherCloses \/ Interface
  BY <1>3, <1>10 DEF Deliver, OtherOpens, OtherCloses, Interface
<1> QED
  BY <1>4, <1>5, <1>6, <1>7, <1>8, <1>9, <1>10 DEF Next, Owner, LinkStop, Supervisor, RxThread

\* Every step keeps the types.
LEMMA TypeStep ==
    ASSUME IInv, Next
    PROVE  TypeOK'
<1>0. ShowType'
  BY ShowStep
<1> USE FdsAssumption, <1>0 DEF IInv, TypeOK, ControlInv, FdInv, SessionInv, Clearing, ShowType,
     Caller, Reporter, LGoto, RxGoto, Closed, AfterStop, socketVars, showVars
<1>1. CASE OwnerStart \/ OwnerStop \/ OwnerJoinSup \/ OwnerStopExt
  <2>1. CASE OwnerStart
    BY <2>1 DEF OwnerStart
  <2>2. CASE OwnerStop
    <3>1. reconnect' \in BOOLEAN
      BY <2>2, Zenon DEF OwnerStop
    <3> QED
      BY <2>2, <3>1 DEF OwnerStop
  <2>3. CASE OwnerJoinSup
    BY <2>3 DEF OwnerJoinSup
  <2>4. CASE OwnerStopExt
    BY <2>4 DEF OwnerStopExt
  <2> QED
    BY <1>1, <2>1, <2>2, <2>3, <2>4
<1>2. ASSUME NEW c \in Caller, LinkStop(c) PROVE TypeOK'
  <2>1. CASE StopNothing(c)
    BY <2>1 DEF StopNothing
  <2>2. CASE StopFlag(c)
    <3>1. lrun' \in BOOLEAN
      BY <2>2, Zenon DEF StopFlag
    <3> QED
      BY <2>2, <3>1 DEF StopFlag
  <2>3. CASE Unblock(c)
    BY <2>3 DEF Unblock
  <2>4. CASE UnblockClear(c)
    BY <2>4 DEF UnblockClear
  <2>5. CASE Join(c)
    BY <2>5 DEF Join
  <2>6. CASE Close(c)
    BY <2>6 DEF Close
  <2> QED
    BY <1>2, <2>1, <2>2, <2>3, <2>4, <2>5, <2>6 DEF LinkStop
<1>3. CASE Supervisor
  <2>1. CASE SupDown
    BY <2>1 DEF SupDown
  <2>2. CASE SupConnecting
    BY <2>2 DEF SupConnecting
  <2>3. CASE Socket
    BY <2>3 DEF Socket
  <2>4. CASE Bind
    BY <2>4 DEF Bind
  <2>5. CASE BindFails
    BY <2>5 DEF BindFails
  <2>6. CASE BindUndone
    BY <2>6 DEF BindUndone
  <2>7. CASE Spawn
    BY <2>7 DEF Spawn
  <2> QED
    BY <1>3, <2>1, <2>2, <2>3, <2>4, <2>5, <2>6, <2>7 DEF Supervisor
<1>4. CASE RxThread
  <2>1. CASE RxLoop
    BY <2>1 DEF RxLoop
  <2>2. CASE RxPoll
    BY <2>2 DEF RxPoll
  <2>3. CASE RxLoad
    BY <2>3 DEF RxLoad
  <2>4. CASE RxFrame
    BY <2>4 DEF RxFrame, Origin
  <2>5. CASE RxFails
    BY <2>5 DEF RxFails
  <2>6. CASE RxError
    BY <2>6 DEF RxError
  <2>7. CASE RxDrop
    <3>1. lrun' \in BOOLEAN
      BY <2>7, Zenon DEF RxDrop
    <3> QED
      BY <2>7, <3>1 DEF RxDrop
  <2> QED
    BY <1>4, <2>1, <2>2, <2>3, <2>4, <2>5, <2>6, <2>7 DEF RxThread
<1>5. CASE Deliver \/ ExtError \/ ExtFails \/ OtherOpens \/ OtherCloses \/ Interface
  <2>1. CASE Deliver
    BY <2>1 DEF Deliver
  <2>2. CASE ExtError
    BY <2>2 DEF ExtError
  <2>3. CASE ExtFails
    BY <2>3 DEF ExtFails
  <2>4. CASE OtherOpens
    BY <2>4 DEF OtherOpens
  <2>5. CASE OtherCloses
    BY <2>5 DEF OtherCloses
  <2>6. CASE Interface
    BY <2>6 DEF Interface
  <2> QED
    BY <1>5, <2>1, <2>2, <2>3, <2>4, <2>5, <2>6
<1>6. ASSUME NEW t \in Reporter, LedWrite(t) PROVE TypeOK'
  BY <1>6 DEF LedWrite
<1> QED
  BY <1>1, <1>2, <1>3, <1>4, <1>5, <1>6 DEF Next, Owner

\* A link that was never started.
LEMMA InitIInv == Init => IInv
<1> SUFFICES ASSUME Init PROVE IInv
  OBVIOUS
<1> USE FdsAssumption DEF Init, Caller, Reporter, Closed
<1>1. TypeOK
  <2>1. lrun \in BOOLEAN /\ reconnect \in BOOLEAN /\ strayed \in BOOLEAN
    BY Zenon
  <2>2. led \in [{"on", "off"} -> Times]
    BY DEF Delays, Times
  <2> QED
    BY <2>1, <2>2 DEF TypeOK
<1>2. ControlInv
  BY DEF ControlInv
<1>3. FdInv /\ SessionInv
  BY DEF FdInv, SessionInv, Clearing, Between, Stopped, StopPhase, StartPhase
<1>4. FrameInv /\ BoardInv /\ LedInv
  BY DEF FrameInv, BoardInv, LedInv, Working
<1> QED
  BY <1>1, <1>2, <1>3, <1>4 DEF IInv

\* No step of any thread, of the interface or of other descriptors breaks the invariant.
LEMMA NextIInv == IInv /\ [Next]_vars => IInv'
<1> SUFFICES ASSUME IInv, [Next]_vars PROVE IInv'
  OBVIOUS
<1>1. CASE Next
  BY <1>1, TypeStep, ControlStep, FdStep, SessionStep, FrameStep, BoardStep, LedStep DEF IInv
<1>2. CASE UNCHANGED vars
  <2> USE <1>2 DEF vars, socketVars, showVars, IInv
  <2>1. TypeOK' /\ ControlInv'
    BY DEF TypeOK, ControlInv
  <2>2. FdInv' /\ SessionInv' /\ FrameInv'
    BY DEF FdInv, SessionInv, FrameInv, Clearing, Between, Stopped
  <2>3. BoardInv' /\ LedInv'
    BY DEF BoardInv, LedInv, Working, LedOfConnected
  <2> QED
    BY <2>1, <2>2, <2>3
<1> QED
  BY <1>1, <1>2

-----------------------------------------------------------------------------
(* The theorems *)

\* The invariant holds of a link on either bus, whatever the descriptor table.
THEOREM InductiveInvariant == Spec => []IInv
BY InitIInv, NextIInv, PTL DEF Spec

\* The link never closes, reads or writes a descriptor that somebody else has opened, except
\* in the moment between ::close and the assignment of -1.
THEOREM OwnDescriptor == Spec => []DescriptorOwned
<1>1. IInv => DescriptorOwned
  BY DEF IInv, FdInv, DescriptorOwned
<1> QED
  BY <1>1, InductiveInvariant, PTL

\* What the RX thread reads from a number that has changed hands is never delivered.
THEOREM OwnFramesOnly == Spec => []NoForeignFrame
<1>1. IInv => NoForeignFrame
  BY DEF IInv, FrameInv, NoForeignFrame
<1> QED
  BY <1>1, InductiveInvariant, PTL

\* A link that is up and works is shown as CONNECTED, and so is its LED on the system bus.
THEOREM WorkingLinkShown == Spec => []HealthyIsShown
<1>1. IInv => HealthyIsShown
  <2> SUFFICES ASSUME IInv, Healthy PROVE HealthyIsShown
    BY DEF HealthyIsShown
  <2>1. Working /\ pend["sup"] = <<>>
    BY DEF Healthy, Working, Idle, Reporter
  <2>2. bus = "system" => LedOfConnected
    BY <2>1 DEF IInv, LedInv
  <2>3. LedOfConnected => led = Delays(1500, 1500)
    BY <2>1 DEF LedOfConnected, Connected, SetTimer
  <2>4. Pattern("CONNECTED") = <<1500, 1500>>
    BY DEF Healthy, Pattern
  <2> QED
    BY <2>1, <2>2, <2>3, <2>4 DEF IInv, BoardInv, HealthyIsShown
<1> QED
  BY <1>1, InductiveInvariant, PTL

-----------------------------------------------------------------------------
(* The refinement of BusLink *)

Dead == rx \in {"error", "error2", "drop", "exit"}

\* The four states of the link, from its socket, m_running and its RX thread.
LEMMA LinkStates ==
    ASSUME IInv
    PROVE  /\ sock \in {"none", "unbound"} => linkState = "down"
           /\ sock \in {"bound", "stale"} /\ (~lrun \/ Dead) => linkState = "failing"
           /\ sock = "bound" /\ lrun /\ ~Dead => linkState = "up"
           /\ sock = "stale" /\ lrun /\ ~Dead => linkState = "stale"
BY DEF linkState, Dead

\* The same of the state after a step.
LEMMA LinkStatesPrime ==
    ASSUME IInv'
    PROVE  /\ sock' \in {"none", "unbound"} => linkState' = "down"
           /\ sock' \in {"bound", "stale"} /\ (~lrun' \/ Dead') => linkState' = "failing"
           /\ sock' = "bound" /\ lrun' /\ ~Dead' => linkState' = "up"
           /\ sock' = "stale" /\ lrun' /\ ~Dead' => linkState' = "stale"
BY DEF linkState, Dead

\* Every step of the link is a step of BusLink or leaves what BusLink sees alone.
LEMMA LinkStep ==
    ASSUME IInv, IInv', [Next]_vars
    PROVE  [BusLink!LinkNext]_(BusLink!linkVars)
<1> USE DEF BusLink!LinkNext, BusLink!linkVars
<1>1. CASE UNCHANGED vars
  BY <1>1 DEF vars, socketVars, linkState
<1>2. CASE OwnerStart \/ OwnerStop
  <2>1. reconnect' = ~reconnect /\ UNCHANGED <<net, linkState>>
    BY <1>2 DEF OwnerStart, OwnerStop, LGoto, IInv, TypeOK, ControlInv, linkState, socketVars
  <2> QED
    BY <2>1 DEF BusLink!Switch
<1>3. CASE Bind
  BY <1>3, LinkStates, LinkStatesPrime DEF Bind, IInv, TypeOK, FdInv, SessionInv, StartPhase, LGoto,
       Dead,
     BusLink!Connect
<1>4. ASSUME NEW c \in Caller, StopFlag(c) PROVE [BusLink!LinkNext]_(BusLink!linkVars)
  <2>1. UNCHANGED <<net, reconnect, sock, rx>> /\ ~lrun'
    BY <1>4 DEF StopFlag, socketVars
  <2>2. CASE lrun
    <3>1. c = "own" /\ ~reconnect /\ sock \in {"bound", "stale"}
      BY <1>4, <2>2 DEF StopFlag, LGoto, IInv, ControlInv, SessionInv, Caller
    <3> QED
      BY <2>1, <2>2, <3>1, LinkStates, LinkStatesPrime DEF BusLink!GiveUp, Dead
  <2>3. CASE ~lrun
    BY <2>1, <2>3, LinkStates, LinkStatesPrime DEF IInv, TypeOK, Dead
  <2> QED
    BY <2>2, <2>3
<1>5. ASSUME NEW c \in Caller, Unblock(c) PROVE [BusLink!LinkNext]_(BusLink!linkVars)
  <2>1. UNCHANGED <<net, reconnect, lrun, rx>> /\ ~lrun /\ sock # "unbound"
    BY <1>5 DEF Unblock, LGoto, IInv, ControlInv, SessionInv, FdInv, StopPhase, Caller
  <2>2. sock' = sock \/ sock' = "none"
    BY <1>5 DEF Unblock
  <2> QED
    BY <2>1, <2>2, LinkStates, LinkStatesPrime DEF BusLink!Drop, IInv, TypeOK
<1>6. CASE RxFails
  <2>1. UNCHANGED <<net, reconnect, lrun, sock>> /\ rx = "read" /\ rx' = IF lrun THEN "error" ELSE "loop"
    BY <1>6 DEF RxFails, RxGoto
  <2>2. CASE lrun
    <3>1. sock = "stale" \/ (sock = "bound" /\ net # "up")
      BY <1>6, <2>2 DEF RxFails, RxGoto, IInv, FdInv, SessionInv, FrameInv, Clearing, Closed
    <3> QED
      BY <2>1, <2>2, <3>1, LinkStates, LinkStatesPrime DEF BusLink!GiveUp, Dead
  <2>3. CASE ~lrun
    BY <2>1, <2>3, LinkStates, LinkStatesPrime DEF IInv, TypeOK
  <2> QED
    BY <2>2, <2>3
<1>7. CASE Interface
  <2>1. /\ UNCHANGED <<reconnect, lrun, rx>> /\ net' \in {"none", "down", "up"}
        /\ sock' = IF sock = "bound" /\ net' = "none" THEN "stale" ELSE sock
    BY <1>7 DEF Interface, IInv, TypeOK
  <2> QED
    BY <2>1, LinkStates, LinkStatesPrime DEF BusLink!InterfaceChange, IInv, TypeOK, Dead
<1>8. CASE RxDrop
  BY <1>8, LinkStates, LinkStatesPrime DEF RxDrop, RxGoto, IInv, TypeOK, Dead, socketVars
<1>9. CASE RxLoop \/ RxPoll \/ RxLoad \/ RxFrame \/ RxError
  <2>1. UNCHANGED <<net, reconnect, lrun, sock>> /\ (lrun => (Dead' <=> Dead))
    BY <1>9 DEF RxLoop, RxPoll, RxLoad, RxFrame, RxError, RxGoto, Dead, socketVars, IInv, TypeOK,
       SessionInv, FdInv
  <2> QED
    BY <2>1, LinkStates, LinkStatesPrime DEF IInv, TypeOK
<1>10. CASE Socket \/ BindFails \/ BindUndone \/ Spawn
  <2>1. /\ UNCHANGED <<net, reconnect, lrun>>
        /\ sock' = sock \/ {sock, sock'} \subseteq {"none", "unbound"}
        /\ rx' = rx \/ (rx = "none" /\ rx' = "loop")
    BY <1>10 DEF Socket, BindFails, BindUndone, Spawn, LGoto, socketVars, IInv, FdInv, SessionInv,
         Between,
       StartPhase
  <2> QED
    BY <2>1, LinkStates, LinkStatesPrime DEF IInv, TypeOK, Dead
<1>11. ASSUME NEW c \in Caller, Join(c) PROVE [BusLink!LinkNext]_(BusLink!linkVars)
  <2>1. UNCHANGED <<net, reconnect, lrun, sock>> /\ ~lrun
    BY <1>11 DEF Join, LGoto, socketVars, IInv, SessionInv, StopPhase
  <2> QED
    BY <2>1, LinkStates, LinkStatesPrime DEF IInv, TypeOK
<1>12. ASSUME NEW c \in Caller, StopNothing(c) \/ UnblockClear(c) \/ Close(c)
       PROVE  [BusLink!LinkNext]_(BusLink!linkVars)
  <2>1. UNCHANGED <<net, reconnect, lrun, rx, sock>>
    BY <1>12 DEF StopNothing, UnblockClear, Close, socketVars
  <2> QED
    BY <2>1 DEF linkState
<1>13. CASE \/ OwnerJoinSup \/ OwnerStopExt \/ SupDown \/ SupConnecting \/ Deliver \/ ExtError \/ ExtFails
            \/ OtherOpens \/ OtherCloses \/ \E t \in Reporter : LedWrite(t)
  <2>1. UNCHANGED <<net, reconnect, lrun, rx, sock>>
    BY <1>13 DEF OwnerJoinSup, OwnerStopExt, SupDown, SupConnecting, Deliver, ExtError, ExtFails,
       OtherOpens, OtherCloses, LedWrite, socketVars
  <2> QED
    BY <2>1 DEF linkState
<1> QED
  BY <1>1, <1>2, <1>3, <1>4, <1>5, <1>6, <1>7, <1>8, <1>9, <1>10, <1>11, <1>12, <1>13
     DEF Next, Owner, LinkStop, Supervisor, RxThread

\* The detailed link, with its threads, its descriptor and its supervisor, implements the
\* abstract one: it is given up only because its interface failed or its owner stops it.
THEOREM LinkImplementsBusLink == Spec => ImplementsBusLink
<1>1. Init => BusLink!LinkInit
  BY DEF Init, BusLink!LinkInit, linkState
<1> QED
  BY <1>1, LinkStep, InductiveInvariant, PTL DEF Spec, ImplementsBusLink, BusLink!LinkSpec
=============================================================================
