------------------------ MODULE CommunicationObjProofs ------------------------
(***************************************************************************)
(* The life cycle of a CommunicationObj: nothing is alive once the owner's  *)
(* stop has returned, start() never finds a thread of the session before,   *)
(* and the worker never sleeps while frames wait, for every size of ring.   *)
(***************************************************************************)
EXTENDS CommunicationObj, TLAPS

-----------------------------------------------------------------------------
(* The inductive invariant *)

Holding == {"connected", "spawnRx", "spawnWorker"}

\* Who may be where.  The supervisor exists while the owner is up or waits for it, and only
\* then; so at most one of the two is inside start() or stop().
ControlInv ==
    /\ pc["owner"] \in {"idle", "up", "joinSup"} \cup Starting \cup Stopping
    /\ pc["sup"] \in {"none", "loop", "checkMode", "exit"} \cup Starting \cup Stopping
    /\ pc["sup"] # "none" <=> supervised /\ pc["owner"] \in {"up", "joinSup"}
    /\ pc["owner"] \in Starting => ~supervised
    /\ pc["owner"] = "joinSup" => supervised
    /\ reconnect <=> supervised /\ pc["owner"] = "up"
    /\ \A c \in Caller : mutex = c <=> pc[c] \in Holding

\* A session is whole or gone, except for the steps that set it up and take it down.
Whole == rxJoinable /\ wkJoinable /\ opened
Gone == ~running /\ ~rxJoinable /\ ~wkJoinable /\ ~opened

SessionInv ==
    /\ pc["owner"] = "idle" => Gone
    /\ (\A c \in Caller : pc[c] \notin Holding \cup {"joinWorker", "close"}) => Whole \/ Gone
    /\ \A c \in Caller :
          /\ pc[c] \in {"start", "checkMode"} => Gone
          /\ pc[c] \in {"connected", "spawnRx"} => opened /\ ~rxJoinable /\ ~wkJoinable
          /\ pc[c] = "spawnWorker" => opened /\ rxJoinable /\ ~wkJoinable
          /\ pc[c] \in Stopping \ {"stop"} => ~running
          /\ pc[c] \in {"stopStatus", "stopNotify", "stopUnblock", "joinRx"} => Whole
          /\ pc[c] = "joinWorker" => ~rxJoinable
          /\ pc[c] = "close" => ~rxJoinable /\ ~wkJoinable

\* A thread that is not there to be joined has ended, and one that has found the ring
\* empty and is about to sleep still finds it empty.
ThreadInv ==
    /\ ~rxJoinable => RxGone
    /\ ~wkJoinable => WorkerGone
    /\ wkpc \in {"test", "asleep"} => queued = 0

IInv == TypeOK /\ ControlInv /\ SessionInv /\ ThreadInv

-----------------------------------------------------------------------------

\* A CommunicationObj that was never started.
LEMMA InitIInv == Init => IInv
<1> SUFFICES ASSUME Init PROVE IInv
  OBVIOUS
<1> USE CommAssumption DEF Init, Caller
<1>1. TypeOK
  <2>1. /\ running \in BOOLEAN /\ reconnect \in BOOLEAN /\ opened \in BOOLEAN /\ unblocked \in BOOLEAN
        /\ rxJoinable \in BOOLEAN /\ wkJoinable \in BOOLEAN /\ missed \in BOOLEAN
        /\ was \in [Caller -> BOOLEAN]
    BY Zenon
  <2> QED
    BY <2>1 DEF TypeOK
<1>2. ControlInv
  BY DEF ControlInv, Starting, Stopping, Holding
<1>3. SessionInv
  BY DEF SessionInv, Gone, Holding, Stopping
<1>4. ThreadInv
  BY DEF ThreadInv, RxGone, WorkerGone
<1> QED
  BY <1>1, <1>2, <1>3, <1>4 DEF IInv

\* The steps of start(), whoever calls it, keep the invariant.
LEMMA StartStep ==
    ASSUME IInv, NEW c \in Caller, Start(c)
    PROVE  IInv'
<1> USE CommAssumption DEF IInv, TypeOK, ControlInv, SessionInv, ThreadInv, Caller, Starting, Stopping,
        Holding, Whole, Gone, RxGone, WorkerGone, Goto, AfterStart, flags, socketVars, threads
<1>1. CASE StartRefused(c)
  BY <1>1 DEF StartRefused
<1>2. CASE StartOpen(c)
  BY <1>2 DEF StartOpen
<1>3. CASE StartConnected(c)
  BY <1>3 DEF StartConnected
<1>4. CASE SpawnRx(c)
  BY <1>4 DEF SpawnRx
<1>5. CASE SpawnWorker(c)
  <2>1. TypeOK'
    <3>1. pc' \in [Caller -> Stopping \cup Starting
                     \cup {"idle", "up", "joinSup", "none", "loop", "checkMode", "exit"}]
      BY <1>5 DEF SpawnWorker
    <3> HIDE DEF ControlInv, SessionInv, ThreadInv, Goto, AfterStart, Starting, Stopping, Caller
    <3>2. wkJoinable' \in BOOLEAN
      BY <1>5, Zenon DEF SpawnWorker
    <3> QED
      BY <1>5, <3>1, <3>2 DEF SpawnWorker
  <2>2. ControlInv'
    BY <1>5 DEF SpawnWorker
  <2>3. SessionInv'
    BY <1>5 DEF SpawnWorker
  <2>4. ThreadInv'
    BY <1>5 DEF SpawnWorker
  <2> QED
    BY <2>1, <2>2, <2>3, <2>4
<1> QED
  BY <1>1, <1>2, <1>3, <1>4, <1>5 DEF Start

\* The steps of stop(), whoever calls it, keep the invariant.
LEMMA StopStep ==
    ASSUME IInv, NEW c \in Caller, Stop(c)
    PROVE  IInv'
<1> USE CommAssumption DEF IInv, TypeOK, ControlInv, SessionInv, ThreadInv, Caller, Starting, Stopping,
        Holding, Whole, Gone, RxGone, WorkerGone, Goto, AfterStop, flags, socketVars, threads
<1>1. CASE StopNothing(c)
  BY <1>1 DEF StopNothing
<1>2. CASE StopRunning(c)
  <2>1. TypeOK'
    <3>1. running' \in BOOLEAN
      BY <1>2, Zenon DEF StopRunning
    <3> QED
      BY <1>2, <3>1 DEF StopRunning
  <2>2. ControlInv'
    BY <1>2 DEF StopRunning
  <2>3. SessionInv'
    BY <1>2 DEF StopRunning
  <2>4. ThreadInv'
    BY <1>2 DEF StopRunning
  <2> QED
    BY <2>1, <2>2, <2>3, <2>4
<1>3. CASE StopStatus(c)
  BY <1>3 DEF StopStatus
<1>4. CASE StopNotify(c)
  BY <1>4 DEF StopNotify
<1>5. CASE StopUnblock(c)
  BY <1>5 DEF StopUnblock
<1>6. CASE JoinRx(c)
  <2>1. TypeOK'
    <3>1. rxJoinable' \in BOOLEAN
      BY <1>6, Zenon DEF JoinRx
    <3> QED
      BY <1>6, <3>1 DEF JoinRx
  <2>2. ControlInv'
    BY <1>6 DEF JoinRx
  <2>3. SessionInv'
    BY <1>6 DEF JoinRx
  <2>4. ThreadInv'
    BY <1>6 DEF JoinRx
  <2> QED
    BY <2>1, <2>2, <2>3, <2>4
<1>7. CASE JoinWorker(c)
  <2>1. TypeOK'
    <3>1. wkJoinable' \in BOOLEAN
      BY <1>7, Zenon DEF JoinWorker
    <3> QED
      BY <1>7, <3>1 DEF JoinWorker
  <2>2. ControlInv'
    BY <1>7 DEF JoinWorker
  <2>3. SessionInv'
    BY <1>7 DEF JoinWorker
  <2>4. ThreadInv'
    BY <1>7 DEF JoinWorker
  <2> QED
    BY <2>1, <2>2, <2>3, <2>4
<1>8. CASE StopClose(c)
  <2>1. TypeOK'
    <3>1. opened' \in BOOLEAN
      BY <1>8, Zenon DEF StopClose
    <3> QED
      BY <1>8, <3>1 DEF StopClose
  <2>2. ControlInv'
    BY <1>8 DEF StopClose
  <2>3. SessionInv'
    BY <1>8 DEF StopClose
  <2>4. ThreadInv'
    BY <1>8 DEF StopClose
  <2> QED
    BY <2>1, <2>2, <2>3, <2>4
<1> QED
  BY <1>1, <1>2, <1>3, <1>4, <1>5, <1>6, <1>7, <1>8 DEF Stop

\* The owner and the supervisor, outside start() and stop(), keep the invariant.
LEMMA ControlStep ==
    ASSUME IInv, OwnerStart \/ OwnerStop \/ OwnerJoinSup \/ Supervisor
    PROVE  IInv'
<1> USE CommAssumption DEF IInv, TypeOK, ControlInv, SessionInv, ThreadInv, Caller, Starting, Stopping,
        Holding, Whole, Gone, RxGone, WorkerGone, Goto, flags, socketVars, threads
<1>1. CASE OwnerStart
  BY <1>1 DEF OwnerStart
<1>2. CASE OwnerStop
  <2>1. TypeOK'
    <3>1. reconnect' \in BOOLEAN
      BY <1>2, Zenon DEF OwnerStop
    <3> QED
      BY <1>2, <3>1 DEF OwnerStop
  <2>2. ControlInv'
    BY <1>2 DEF OwnerStop
  <2>3. SessionInv'
    BY <1>2 DEF OwnerStop
  <2>4. ThreadInv'
    BY <1>2 DEF OwnerStop
  <2> QED
    BY <2>1, <2>2, <2>3, <2>4
<1>3. CASE OwnerJoinSup
  BY <1>3 DEF OwnerJoinSup
<1>4. CASE SupDown
  BY <1>4 DEF SupDown
<1>5. CASE SupConnecting
  BY <1>5 DEF SupConnecting
<1>6. CASE SupExit
  BY <1>6 DEF SupExit
<1> QED
  BY <1>1, <1>2, <1>3, <1>4, <1>5, <1>6 DEF Supervisor

\* The RX thread keeps the invariant: it lowers m_running and touches nothing else of the
\* session.
LEMMA RxStep ==
    ASSUME IInv, Rx
    PROVE  IInv'
<1> USE CommAssumption DEF IInv, TypeOK, ControlInv, SessionInv, ThreadInv, Caller, Starting, Stopping,
        Holding, Whole, Gone, RxGone, WorkerGone, flags, socketVars
<1>1. CASE RxLoop
  BY <1>1 DEF RxLoop
<1>2. CASE RxFrame
  BY <1>2 DEF RxFrame, InHand
<1>3. CASE RxNothing
  BY <1>3 DEF RxNothing
<1>4. CASE RxFail
  BY <1>4 DEF RxFail
<1>5. CASE RxError
  BY <1>5 DEF RxError
<1>6. CASE RxDrop
  <2>1. TypeOK'
    <3>1. running' \in BOOLEAN
      BY <1>6, Zenon DEF RxDrop
    <3> QED
      BY <1>6, <3>1 DEF RxDrop
  <2>2. ControlInv'
    BY <1>6 DEF RxDrop
  <2>3. SessionInv'
    BY <1>6 DEF RxDrop
  <2>4. ThreadInv'
    BY <1>6 DEF RxDrop
  <2> QED
    BY <2>1, <2>2, <2>3, <2>4
<1> QED
  BY <1>1, <1>2, <1>3, <1>4, <1>5, <1>6 DEF Rx, RxReturns

\* The worker keeps the invariant; it decides to sleep on an empty ring only.
LEMMA WorkerStep ==
    ASSUME IInv, Worker \/ WorkerSpurious
    PROVE  IInv'
<1> USE CommAssumption DEF IInv, TypeOK, ControlInv, SessionInv, ThreadInv, Caller, Starting, Stopping,
        Holding, Whole, Gone, RxGone, WorkerGone, flags, socketVars
<1>1. CASE WorkerLoop
  BY <1>1 DEF WorkerLoop
<1>2. CASE WorkerTest
  BY <1>2 DEF WorkerTest
<1>3. CASE WorkerSleep
  BY <1>3 DEF WorkerSleep
<1>4. CASE WorkerSpurious
  BY <1>4 DEF WorkerSpurious
<1>5. CASE WorkerTaken
  BY <1>5 DEF WorkerTaken
<1>6. CASE WorkerReturns
  BY <1>6 DEF WorkerReturns
<1> QED
  BY <1>1, <1>2, <1>3, <1>4, <1>5, <1>6 DEF Worker

\* No step of any of the four threads breaks it.
LEMMA NextIInv == IInv /\ [Next]_vars => IInv'
<1> SUFFICES ASSUME IInv, [Next]_vars PROVE IInv'
  OBVIOUS
<1>1. CASE Next
  BY <1>1, StartStep, StopStep, ControlStep, RxStep, WorkerStep DEF Next
<1>2. CASE UNCHANGED vars
  BY <1>2 DEF vars, flags, socketVars, threads, IInv, TypeOK, ControlInv, SessionInv, ThreadInv,
     Whole, Gone, RxGone, WorkerGone
<1> QED
  BY <1>1, <1>2

-----------------------------------------------------------------------------
(* The theorems *)

\* The invariant holds of every CommunicationObj, CAN or UDP, supervised or not.
THEOREM InductiveInvariant == Spec => []IInv
BY InitIInv, NextIInv, PTL DEF Spec

\* Once stop(), or stop_reconnectable_mode(), has returned to the owner there is no thread
\* that could call the listener, no supervisor and no socket.
THEOREM NothingAliveAfterStop == Spec => []QuietAfterStop
<1>1. IInv => QuietAfterStop
  BY DEF IInv, ControlInv, SessionInv, ThreadInv, QuietAfterStop, Gone, Caller
<1> QED
  BY <1>1, InductiveInvariant, PTL

\* start() replaces the ring and the two std::thread members only when both threads of the
\* session before are gone and joined.
THEOREM NoThreadAtStart == Spec => []StartFindsNoThread
<1>1. IInv => StartFindsNoThread
  BY DEF IInv, SessionInv, ThreadInv, StartFindsNoThread
<1> QED
  BY <1>1, InductiveInvariant, PTL

\* The worker sleeps on an empty ring only: push() cannot come between its test and its sleep.
THEOREM WorkerIsWoken == Spec => []NoSleepOnData
<1>1. IInv => NoSleepOnData
  BY DEF IInv, ThreadInv, NoSleepOnData
<1> QED
  BY <1>1, InductiveInvariant, PTL

-----------------------------------------------------------------------------
(* The contract with the listener *)

\* Only the worker begins and ends a call of the listener, and then neither the owner nor the
\* supervisor moves.
LEMMA CallStep ==
    ASSUME IInv, [Next]_vars
    PROVE  UNCHANGED pc \/ (wkpc' = "callback" <=> wkpc = "callback")
<1>0. TypeOK /\ SessionInv /\ ThreadInv
  BY DEF IInv
<1>1. CASE \E c \in Caller : Start(c)
  BY <1>0, <1>1 DEF Start, StartRefused, StartOpen, StartConnected, SpawnRx, SpawnWorker, SessionInv, ThreadInv,
                    WorkerGone, threads
<1>2. CASE \E c \in Caller : Stop(c)
  BY <1>2 DEF Stop, StopNothing, StopRunning, StopStatus, StopNotify, StopUnblock, JoinRx, JoinWorker, StopClose,
              threads
<1>3. CASE OwnerStart \/ OwnerStop \/ OwnerJoinSup \/ Supervisor
  BY <1>3 DEF OwnerStart, OwnerStop, OwnerJoinSup, Supervisor, SupDown, SupConnecting, SupExit, threads
<1>4. CASE Rx \/ Worker \/ WorkerSpurious
  BY <1>4 DEF Rx, RxLoop, RxFrame, RxReturns, RxNothing, RxFail, RxError, RxDrop, Worker, WorkerLoop, WorkerTest,
              WorkerSleep, WorkerTaken, WorkerReturns, WorkerSpurious
<1> QED
  BY <1>1, <1>2, <1>3, <1>4 DEF Next, vars

\* CommunicationObj: whatever fails and however often the supervisor restarts it, the worker
\* calls the listener for one frame at a time, after the owner's start and before the return
\* of its stop.  This is the contract that the modules of its owners are written against.
THEOREM KeepsContract == Spec => ImplementsContract
<1>1. Init => Contract!Init
  BY DEF Init, Contract!Init, Caller
<1>2. IInv => (wkpc = "callback" => pc["owner"] # "idle")
  BY DEF IInv, SessionInv, ThreadInv, Gone, WorkerGone
<1>3. ASSUME IInv, [Next]_vars
      PROVE  [Contract!Next]_(Contract!vars)
  <2>1. IInv'
    BY <1>3, NextIInv
  <2>2. (wkpc' = "callback" => pc'["owner"] # "idle")
    BY <2>1 DEF IInv, SessionInv, ThreadInv, Gone, WorkerGone
  <2> QED
    BY <1>2, <1>3, <2>2, CallStep
       DEF Contract!Next, Contract!vars, Contract!Open, Contract!Call, Contract!Return, Contract!Close
<1> QED
  BY <1>1, <1>3, InductiveInvariant, PTL DEF Spec, ImplementsContract, Contract!Spec

-----------------------------------------------------------------------------
(* What stop() waits for *)

\* stop() has notified the worker and waits, or is about to.
StopWaits == \E c \in Caller : pc[c] \in {"stopUnblock", "joinRx", "joinWorker"}

\* The steps each thread has at most before it, once m_running is lowered.
RxLeft == IF RxGone THEN 0 ELSE IF rxpc \in {"loop", "drop"} THEN 1 ELSE 2
WorkerLeft == IF WorkerGone THEN 0 ELSE IF wkpc \in {"loop", "awake"} THEN 1 ELSE 2

\* While stop() waits, the flag both threads look at is down; the worker is about to sleep or
\* sleeps only if the notification was missed; and the socket that the RX thread may be
\* reading has been shut down before stop() waits for that thread.
WaitInv ==
    /\ StopWaits => ~running /\ (wkpc \in {"test", "asleep"} => missed)
    /\ \A c \in Caller : pc[c] = "joinRx" => unblocked

\* No step takes either thread further from its end, and each of their own takes it closer.
WaitShrinks ==
    [][StopWaits /\ ~missed =>
          /\ RxLeft' <= RxLeft /\ WorkerLeft' <= WorkerLeft
          /\ Rx => RxLeft' < RxLeft
          /\ Worker => WorkerLeft' < WorkerLeft]_vars

\* The owner and the supervisor are never both inside start() or stop().
LEMMA Alone ==
    ASSUME IInv, NEW c \in Caller, NEW d \in Caller, pc[c] \in Starting \cup Stopping, pc[d] \in Starting \cup Stopping
    PROVE  c = d
BY DEF IInv, ControlInv, Caller, Starting, Stopping

\* While one caller waits in stop() nobody starts, notifies or unblocks.
LEMMA WaiterAlone ==
    ASSUME IInv, StopWaits, NEW c \in Caller, Start(c) \/ Stop(c)
    PROVE  StopUnblock(c) \/ JoinRx(c) \/ JoinWorker(c)
<1>1. PICK d \in Caller : pc[d] \in {"stopUnblock", "joinRx", "joinWorker"}
  BY DEF StopWaits
<1>2. pc[c] \in Starting \cup Stopping
  BY DEF Start, StartRefused, StartOpen, StartConnected, SpawnRx, SpawnWorker, Stop, StopNothing, StopRunning,
         StopStatus, StopNotify, StopUnblock, JoinRx, JoinWorker, StopClose, Starting, Stopping
<1>3. pc[c] \in {"stopUnblock", "joinRx", "joinWorker"}
  BY <1>1, <1>2, Alone DEF Stopping
<1> QED
  BY <1>3 DEF Start, StartRefused, StartOpen, StartConnected, SpawnRx, SpawnWorker, Stop, StopNothing, StopRunning,
              StopStatus, StopNotify, StopUnblock, JoinRx, JoinWorker, StopClose

\* stop() waits only after its notification and the shutdown of the socket.
LEMMA WaitStep ==
    ASSUME IInv, WaitInv, [Next]_vars
    PROVE  WaitInv'
<1>0. TypeOK /\ SessionInv /\ (StopWaits' => ~running')
  BY NextIInv DEF IInv, SessionInv, StopWaits, Stopping
<1> USE DEF WaitInv
<1>1. CASE \E c \in Caller : Start(c) \/ Stop(c)
  <2> PICK c \in Caller : Start(c) \/ Stop(c)
    BY <1>1
  <2>1. CASE StopWaits
    <3>1. StopUnblock(c) \/ JoinRx(c) \/ JoinWorker(c)
      BY <2>1, WaiterAlone
    <3>2. UNCHANGED <<wkpc, missed>>
      BY <3>1 DEF StopUnblock, JoinRx, JoinWorker, threads
    <3>3. \A d \in Caller : pc'[d] = "joinRx" => unblocked'
      BY <1>0, <3>1 DEF StopUnblock, JoinRx, JoinWorker, Goto, TypeOK, socketVars
    <3> QED
      BY <1>0, <2>1, <3>2, <3>3
  <2>2. CASE ~StopWaits
    <3>1. CASE StopNotify(c)
      <4>1. wkpc' \in {"test", "asleep"} => missed'
        BY <3>1 DEF StopNotify
      <4>2. \A d \in Caller : pc'[d] # "joinRx"
        BY <1>0, <2>2, <3>1 DEF StopNotify, StopWaits, Goto, TypeOK
      <4> QED
        BY <1>0, <4>1, <4>2
    <3>2. CASE ~StopNotify(c)
      <4>1. ~StopWaits'
        BY <1>0, <2>2, <3>2 DEF StopWaits, Goto, AfterStart, AfterStop, TypeOK, Caller, Start, StartRefused, StartOpen,
           StartConnected, SpawnRx, SpawnWorker, Stop, StopNothing, StopRunning, StopStatus, StopUnblock, JoinRx,
           JoinWorker, StopClose
      <4> QED
        BY <4>1 DEF StopWaits
    <3> QED
      BY <3>1, <3>2
  <2> QED
    BY <2>1, <2>2
<1>2. CASE OwnerStart \/ OwnerStop \/ OwnerJoinSup \/ Supervisor
  <2>1. UNCHANGED <<wkpc, missed, unblocked>>
    BY <1>2 DEF OwnerStart, OwnerStop, OwnerJoinSup, Supervisor, SupDown, SupConnecting, SupExit, threads, socketVars
  <2>2. \A d \in Caller : pc'[d] \in {"stopUnblock", "joinRx", "joinWorker"} => pc'[d] = pc[d]
    BY <1>0, <1>2 DEF OwnerStart, OwnerStop, OwnerJoinSup, Supervisor, SupDown, SupConnecting, SupExit, Goto, TypeOK, Caller
  <2> QED
    BY <1>0, <2>1, <2>2 DEF StopWaits
<1>3. CASE Rx
  <2>1. UNCHANGED <<pc, missed, unblocked>> /\ (wkpc' \in {"test", "asleep"} => wkpc' = wkpc)
    BY <1>3 DEF Rx, RxLoop, RxFrame, RxReturns, RxNothing, RxFail, RxError, RxDrop, socketVars
  <2> QED
    BY <1>0, <2>1 DEF StopWaits
<1>4. CASE Worker \/ WorkerSpurious
  <2>1. UNCHANGED <<pc, missed, unblocked>>
    BY <1>4 DEF Worker, WorkerLoop, WorkerTest, WorkerSleep, WorkerTaken, WorkerReturns, WorkerSpurious, socketVars
  <2>2. ~running /\ wkpc' \in {"test", "asleep"} => wkpc = "test"
    BY <1>4 DEF Worker, WorkerLoop, WorkerTest, WorkerSleep, WorkerTaken, WorkerReturns, WorkerSpurious
  <2> QED
    BY <1>0, <2>1, <2>2 DEF StopWaits
<1>5. CASE UNCHANGED vars
  BY <1>5 DEF vars, flags, socketVars, threads, StopWaits
<1> QED
  BY <1>1, <1>2, <1>3, <1>4, <1>5 DEF Next

\* stop() can wait for a sleeping worker only if its notification fell between the worker's
\* test and its sleep: there is no other way for it to hang on the worker, and the RX
\* thread it waits for is never left in a read of a socket that is still open.
THEOREM HangsOnlyIfMissed == Spec => []WaitInv
<1>1. Init => WaitInv
  BY DEF Init, WaitInv, StopWaits, Caller
<1> QED
  BY <1>1, WaitStep, InductiveInvariant, PTL DEF Spec

\* As long as the notification was not missed, each step of a thread that stop() waits for
\* takes it closer to its end and nothing takes it away again: at most two steps of each,
\* so a stop() whose threads are scheduled returns.
THEOREM WaitComesToAnEnd == Spec => WaitShrinks
<1> DEFINE Step == StopWaits /\ ~missed =>
               /\ RxLeft' <= RxLeft /\ WorkerLeft' <= WorkerLeft
               /\ Rx => RxLeft' < RxLeft
               /\ Worker => WorkerLeft' < WorkerLeft
<1>1. ASSUME IInv, WaitInv, Next PROVE Step
  <2> SUFFICES ASSUME StopWaits, ~missed
               PROVE  /\ RxLeft' <= RxLeft /\ WorkerLeft' <= WorkerLeft
                      /\ Rx => RxLeft' < RxLeft
                      /\ Worker => WorkerLeft' < WorkerLeft
    OBVIOUS
  <2>0. ~running /\ wkpc \notin {"test", "asleep"} /\ TypeOK
    BY <1>1 DEF WaitInv, IInv
  <2> USE DEF RxLeft, WorkerLeft, RxGone, WorkerGone
  <2>1. Rx => RxLeft' < RxLeft /\ UNCHANGED wkpc
    BY <2>0 DEF Rx, RxLoop, RxFrame, RxReturns, RxNothing, RxFail, RxError, RxDrop
  <2>2. Worker => WorkerLeft' < WorkerLeft /\ UNCHANGED rxpc
    BY <2>0 DEF Worker, WorkerLoop, WorkerTest, WorkerSleep, WorkerTaken, WorkerReturns
  <2>3. Rx \/ Worker \/ UNCHANGED <<rxpc, wkpc>>
    <3>1. CASE \E c \in Caller : Start(c) \/ Stop(c)
      BY <1>1, <3>1, WaiterAlone DEF StopUnblock, JoinRx, JoinWorker, threads
    <3>2. CASE OwnerStart \/ OwnerStop \/ OwnerJoinSup \/ Supervisor
      BY <3>2 DEF OwnerStart, OwnerStop, OwnerJoinSup, Supervisor, SupDown, SupConnecting, SupExit, threads
    <3>3. ~WorkerSpurious
      BY <2>0 DEF WorkerSpurious
    <3> QED
      BY <1>1, <3>1, <3>2, <3>3 DEF Next
  <2> QED
    BY <2>1, <2>2, <2>3
<1>2. IInv /\ WaitInv /\ [Next]_vars => [Step]_vars
  BY <1>1
<1> QED
  BY <1>2, InductiveInvariant, HangsOnlyIfMissed, PTL DEF Spec, WaitShrinks

-----------------------------------------------------------------------------
(* The ring, counted *)

\* CommunicationObj moves its count of frames as the ring does, frame by frame, and start()
\* replaces the ring only when the worker has none of its blocks in hand.
THEOREM CountIsThatOfARing == Spec => CountsAsRing
<1>1. Init => Ring!Init
  BY DEF Init, Ring!Init
<1>2. ASSUME IInv, [Next]_vars
      PROVE  [Ring!Next \/ Ring!Renew]_(Ring!vars)
  <2>0. TypeOK /\ SessionInv /\ ThreadInv
    BY <1>2 DEF IInv
  <2> USE DEF Ring!Next, Ring!Push, Ring!Take, Ring!GiveBack, Ring!Renew, Ring!vars
  <2>1. CASE \E c \in Caller : StartOpen(c)
    <3>1. WorkerGone /\ queued' = 0 /\ wkpc' = wkpc
      BY <2>0, <2>1 DEF StartOpen, SessionInv, ThreadInv, Gone, threads
    <3> QED
      BY <3>1 DEF WorkerGone
  <2>8. CASE \E c \in Caller : SpawnWorker(c)
    <3>1. WorkerGone /\ queued' = queued /\ wkpc' = "loop"
      BY <2>0, <2>8 DEF SpawnWorker, SessionInv, ThreadInv
    <3> QED
      BY <3>1 DEF WorkerGone
  <2>9. CASE \E c \in Caller : StartRefused(c) \/ StartConnected(c) \/ SpawnRx(c)
    BY <2>9 DEF StartRefused, StartConnected, SpawnRx, threads
  <2>2. CASE \E c \in Caller : Stop(c)
    BY <2>2 DEF Stop, StopNothing, StopRunning, StopStatus, StopNotify, StopUnblock, JoinRx, JoinWorker, StopClose,
                threads
  <2>3. CASE OwnerStart \/ OwnerStop \/ OwnerJoinSup \/ Supervisor \/ UNCHANGED vars
    BY <2>3 DEF OwnerStart, OwnerStop, OwnerJoinSup, Supervisor, SupDown, SupConnecting, SupExit, threads, vars
  <2>4. CASE RxFrame
    BY <2>4 DEF RxFrame, InHand
  <2>5. CASE RxLoop \/ RxReturns \/ RxError \/ RxDrop
    BY <2>5 DEF RxLoop, RxReturns, RxNothing, RxFail, RxError, RxDrop
  <2>6. CASE WorkerTest
    BY <2>0, <2>6 DEF WorkerTest, TypeOK
  <2>7. CASE WorkerLoop \/ WorkerSleep \/ WorkerTaken \/ WorkerReturns \/ WorkerSpurious
    BY <2>7 DEF WorkerLoop, WorkerSleep, WorkerTaken, WorkerReturns, WorkerSpurious
  <2> QED
    BY <1>2, <2>1, <2>2, <2>3, <2>4, <2>5, <2>6, <2>7, <2>8, <2>9 DEF Next, Rx, Worker, Start
<1> QED
  BY <1>1, <1>2, InductiveInvariant, PTL DEF Spec, CountsAsRing, Ring!RenewedSpec
================================================================================
