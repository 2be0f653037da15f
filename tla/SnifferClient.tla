---------------------------- MODULE SnifferClient ----------------------------
(***************************************************************************)
(* The client SDK of the external servers (sniffer_client.cpp) against the  *)
(* Sniffer at the other end of a UDP network that loses and reorders.  The  *)
(* SDK's threads are the application that calls it, the keep-alive thread,  *)
(* and the worker of its UDP link that calls back.  Its atomics are used     *)
(* without a lock around them, so every load and every store another thread *)
(* can get between is a step.  What is received is put aside for the reader *)
(* and is not followed further.                                             *)
(*                                                                          *)
(* Time is counted in ticks, as the age of the two time stamps.  The        *)
(* keep-alive thread reads the clock before it loads them; lag is the time  *)
(* that has gone by since, and a stamp younger than lag makes the unsigned  *)
(* difference wrap.  An age stops counting where no test tells it from a    *)
(* greater one.                                                             *)
(***************************************************************************)
EXTENDS Naturals, FiniteSets

CONSTANTS Interval,  \* m_keepAliveInterval, in ticks; 0 for no keep-alives
          MaxLag,    \* bound: ticks between reading the clock and loading the stamps
          MaxNet     \* bound: datagrams under way to the Sniffer

ASSUME ClientAssumption == Interval \in Nat /\ MaxLag \in Nat /\ MaxNet \in Nat

Limit == 3 * Interval
MaxRecvAge == Limit + 1 + MaxLag
MaxSentAge == Interval + MaxLag

\* Both kinds tell the Sniffer whether to log; a keep-alive is answered as well.
Datagram == [op : {"KEEP_ALIVE", "LOGGING"}, arg : BOOLEAN]

VARIABLES
    running,           \* m_running
    udp,               \* m_udp is started
    connected,         \* m_isConnected
    desired,           \* m_desiredLoggingState
    sentAge, recvAge,  \* ticks since m_lastSentTime and m_lastRecvTime
    apppc,             \* the application: idle, in sendRawCommand or in stop()
    kapc, lag, overdue, due, nap, payload,  \* keepAliveLoop and its locals
    rxpc,              \* onCommandReceived, onDataReceived
    net, answer,       \* datagrams to the Sniffer; a keep-alive answer under way
    power, logging     \* the Sniffer: it runs; its m_externalServiceLogging

ages == <<sentAge, recvAge>>
ka == <<kapc, lag, overdue, due, nap, payload>>
peer == <<net, answer, power, logging>>
vars == <<running, udp, connected, desired, ages, apppc, ka, rxpc, peer>>

TypeOK ==
    /\ running \in BOOLEAN /\ udp \in BOOLEAN /\ connected \in BOOLEAN /\ desired \in BOOLEAN
    /\ sentAge \in 0 .. MaxSentAge /\ recvAge \in 0 .. MaxRecvAge
    /\ apppc \in {"idle", "command", "stopUdp", "joinUdp", "stopJoin"}
    /\ kapc \in {"none", "loop", "load", "loadRecv", "test", "lost", "wish", "send", "exit"}
    /\ lag \in 0 .. MaxLag /\ nap \in 0 .. Interval
    /\ overdue \in BOOLEAN /\ due \in BOOLEAN /\ payload \in BOOLEAN
    /\ rxpc \in {"idle", "mark", "stamp"}
    /\ net \in SUBSET Datagram /\ Cardinality(net) <= MaxNet
    /\ answer \in BOOLEAN /\ power \in BOOLEAN /\ logging \in BOOLEAN

\* Both stamps start at 0 of a clock that counts from boot.
Init ==
    /\ running = FALSE /\ udp = FALSE /\ connected = FALSE /\ desired = FALSE
    /\ sentAge = Interval /\ recvAge = Limit + 1
    /\ apppc = "idle"
    /\ kapc = "none" /\ lag = 0 /\ overdue = FALSE /\ due = FALSE /\ nap = 0 /\ payload = FALSE
    /\ rxpc = "idle"
    /\ net = {} /\ answer = FALSE /\ power = TRUE /\ logging = FALSE

\* m_udp->send() on a link that is not started fails unnoticed.  A datagram beyond MaxNet is
\* one the network loses at once.
Send(d) == net' = IF udp /\ Cardinality(net) < MaxNet THEN net \cup {d} ELSE net

-----------------------------------------------------------------------------
(* The application *)

\* A start() whose link cannot bind its port returns -1 and changes nothing.  An interval of 0
\* disables the keep-alive thread.
Start ==
    /\ apppc = "idle" /\ ~running
    /\ running' = TRUE /\ udp' = TRUE
    /\ kapc' = IF Interval > 0 THEN "loop" ELSE "none"
    /\ UNCHANGED <<connected, desired, ages, apppc, lag, overdue, due, nap, payload, rxpc, peer>>

StopFlag ==
    /\ apppc = "idle" /\ running
    /\ running' = FALSE
    /\ apppc' = "stopUdp"
    /\ UNCHANGED <<udp, connected, desired, ages, ka, rxpc, peer>>

\* m_udp->stop(): no callback begins any more, and the one under way is waited for.
StopUdp ==
    /\ apppc = "stopUdp"
    /\ udp' = FALSE
    /\ apppc' = "joinUdp"
    /\ UNCHANGED <<running, connected, desired, ages, ka, rxpc, peer>>

\* Mutant: the callback under way is not waited for.
JoinUdpSkipped ==
    /\ apppc = "joinUdp"
    /\ apppc' = "stopJoin"
    /\ UNCHANGED <<running, udp, connected, desired, ages, ka, rxpc, peer>>

JoinUdp ==
    /\ apppc = "joinUdp" /\ rxpc = "idle"
    /\ apppc' = "stopJoin"
    /\ UNCHANGED <<running, udp, connected, desired, ages, ka, rxpc, peer>>

StopJoin ==
    /\ apppc = "stopJoin" /\ kapc \in {"exit", "none"}
    /\ kapc' = "none"
    /\ apppc' = "idle"
    /\ UNCHANGED <<running, udp, connected, desired, ages, lag, overdue, due, nap, payload, rxpc, peer>>

\* setLoggingEnabled(): the wish is stored, then sent.
SetLogging ==
    /\ apppc = "idle"
    /\ desired' \in BOOLEAN
    /\ apppc' = "command"
    /\ UNCHANGED <<running, udp, connected, ages, ka, rxpc, peer>>

\* sendRawCommand() ends with updateLastSentTime().
SendLogging ==
    /\ apppc = "command"
    /\ Send([op |-> "LOGGING", arg |-> desired])
    /\ sentAge' = 0
    /\ apppc' = "idle"
    /\ UNCHANGED <<running, udp, connected, desired, recvAge, ka, rxpc, answer, power, logging>>

\* Filters, injections and raw commands: none changes the Sniffer's logging or is answered,
\* but for a request of the parameters, whose answer is left out.  Only the stamp matters.
SendOther ==
    /\ apppc = "idle"
    /\ sentAge' = 0
    /\ UNCHANGED <<running, udp, connected, desired, recvAge, apppc, ka, rxpc, peer>>

AppGoesOn == StopUdp \/ JoinUdp \/ StopJoin \/ SendLogging

-----------------------------------------------------------------------------
(* keepAliveLoop *)

\* The sleep is over; now = getCurrentTimeMs()
KaLoop ==
    /\ kapc = "loop" /\ nap = 0
    /\ kapc' = IF running THEN "load" ELSE "exit"
    /\ lag' = 0
    /\ UNCHANGED <<running, udp, connected, desired, ages, apppc, overdue, due, nap, payload, rxpc, peer>>

\* now - stamp in 64 unsigned bits: a stamp later than now gives almost 2^64
Elapsed(age) == IF age < lag THEN MaxRecvAge ELSE age - lag

\* m_lastSentTime is loaded: of it only the difference is kept, and how long to sleep.
KaLoad ==
    /\ kapc = "load"
    /\ due' = (Elapsed(sentAge) >= Interval)
    /\ nap' = IF due' THEN Interval ELSE Interval - Elapsed(sentAge)
    /\ kapc' = "loadRecv"
    /\ UNCHANGED <<running, udp, connected, desired, ages, apppc, lag, overdue, payload, rxpc, peer>>

\* Mutant: the silence is measured from the last datagram sent.
KaLoadRecvSwapped ==
    /\ kapc = "loadRecv"
    /\ overdue' = (Elapsed(sentAge) > Limit)
    /\ lag' = 0
    /\ kapc' = "test"
    /\ UNCHANGED <<running, udp, connected, desired, ages, apppc, due, nap, payload, rxpc, peer>>

\* m_lastRecvTime is loaded; the test below uses only what is kept here.
KaLoadRecv ==
    /\ kapc = "loadRecv"
    /\ overdue' = (Elapsed(recvAge) > Limit)
    /\ lag' = 0
    /\ kapc' = "test"
    /\ UNCHANGED <<running, udp, connected, desired, ages, apppc, due, nap, payload, rxpc, peer>>

KaTest ==
    /\ kapc = "test"
    /\ kapc' = IF connected /\ overdue THEN "lost" ELSE "wish"
    /\ overdue' = FALSE
    /\ UNCHANGED <<running, udp, connected, desired, ages, apppc, lag, due, nap, payload, rxpc, peer>>

KaLost ==
    /\ kapc = "lost"
    /\ connected' = FALSE
    /\ kapc' = "wish"
    /\ UNCHANGED <<running, udp, desired, ages, apppc, lag, overdue, due, nap, payload, rxpc, peer>>

\* Mutant: the keep-alive carries no wish.
KaWishForgotten ==
    /\ kapc = "wish"
    /\ payload' = FALSE
    /\ kapc' = IF due THEN "send" ELSE "loop"
    /\ due' = FALSE
    /\ UNCHANGED <<running, udp, connected, desired, ages, apppc, lag, overdue, nap, rxpc, peer>>

\* Mutant: keep-alives are sent to a connected Sniffer only.
KaWishConnected ==
    /\ kapc = "wish"
    /\ payload' = (due /\ connected /\ desired)
    /\ kapc' = IF due /\ connected THEN "send" ELSE "loop"
    /\ due' = FALSE
    /\ UNCHANGED <<running, udp, connected, desired, ages, apppc, lag, overdue, nap, rxpc, peer>>

\* With no other traffic for an interval the keep-alive takes up the wish; else it sleeps.
KaWish ==
    /\ kapc = "wish"
    /\ payload' = (due /\ desired)
    /\ kapc' = IF due THEN "send" ELSE "loop"
    /\ due' = FALSE
    /\ UNCHANGED <<running, udp, connected, desired, ages, apppc, lag, overdue, nap, rxpc, peer>>

KaSend ==
    /\ kapc = "send"
    /\ Send([op |-> "KEEP_ALIVE", arg |-> payload])
    /\ sentAge' = 0
    /\ payload' = FALSE
    /\ kapc' = "loop"
    /\ UNCHANGED <<running, udp, connected, desired, recvAge, apppc, lag, overdue, due, nap, rxpc, answer, power, logging>>

KeepAlive == KaLoop \/ KaLoad \/ KaLoadRecv \/ KaTest \/ KaLost \/ KaWish \/ KaSend

-----------------------------------------------------------------------------
(* onCommandReceived and onDataReceived, on the worker of the UDP link *)

RxStatus ==
    /\ udp /\ rxpc = "idle" /\ answer
    /\ answer' = FALSE
    /\ rxpc' = "mark"
    /\ UNCHANGED <<running, udp, connected, desired, ages, apppc, ka, net, power, logging>>

\* A frame of the log stream, which the reader will find in m_queue.
RxFrame ==
    /\ udp /\ rxpc = "idle" /\ power /\ logging
    /\ rxpc' = "mark"
    /\ UNCHANGED <<running, udp, connected, desired, ages, apppc, ka, peer>>

\* updateLastRecvTime(): first the flag, then the stamp
RxMark ==
    /\ rxpc = "mark"
    /\ connected' = TRUE
    /\ rxpc' = "stamp"
    /\ UNCHANGED <<running, udp, desired, ages, apppc, ka, peer>>

RxStamp ==
    /\ rxpc = "stamp"
    /\ recvAge' = 0
    /\ rxpc' = "idle"
    /\ UNCHANGED <<running, udp, connected, desired, sentAge, apppc, ka, peer>>

Receive == RxMark \/ RxStamp

-----------------------------------------------------------------------------
(* The Sniffer, as far as its client can tell, and the network *)

\* onCommandReceived of the Sniffer
SnifferHandles ==
    /\ power
    /\ \E d \in net :
          /\ net' = net \ {d}
          /\ logging' = d.arg
          /\ answer' = (answer \/ d.op = "KEEP_ALIVE")
    /\ UNCHANGED <<running, udp, connected, desired, ages, apppc, ka, rxpc, power>>

\* Its watchdog loses patience, or MainService restarts it: logging is off.
SnifferResets ==
    /\ power /\ logging
    /\ logging' = FALSE
    /\ UNCHANGED <<running, udp, connected, desired, ages, apppc, ka, rxpc, net, answer, power>>

\* It goes away, or comes back as it was constructed.
SnifferPower ==
    /\ power' = ~power
    /\ logging' = FALSE
    /\ UNCHANGED <<running, udp, connected, desired, ages, apppc, ka, rxpc, net, answer>>

Lose ==
    /\ \/ \E d \in net : net' = net \ {d} /\ answer' = answer
       \/ answer /\ answer' = FALSE /\ net' = net
    /\ UNCHANGED <<running, udp, connected, desired, ages, apppc, ka, rxpc, power, logging>>

\* No test tells an age of max from a greater one; max grows with lag, which the tests subtract.
Older(age, max) == IF age < max THEN age + 1 ELSE max

Tick ==
    /\ kapc \in {"load", "loadRecv"} => lag < MaxLag
    /\ lag' = IF kapc \in {"load", "loadRecv"} THEN lag + 1 ELSE lag
    /\ nap' = IF kapc = "loop" /\ nap > 0 THEN nap - 1 ELSE nap
    /\ sentAge' = Older(sentAge, Interval + lag') /\ recvAge' = Older(recvAge, Limit + 1 + lag')
    /\ UNCHANGED <<running, udp, connected, desired, apppc, kapc, overdue, due, payload, rxpc, peer>>

Next ==
    \/ Start \/ StopFlag \/ SetLogging \/ SendOther \/ AppGoesOn
    \/ KeepAlive
    \/ RxStatus \/ RxFrame \/ Receive
    \/ SnifferHandles \/ SnifferResets \/ SnifferPower \/ Lose
    \/ Tick

Spec == Init /\ [][Next]_vars

\* The clock runs and threads are scheduled.  The network is lossy and not cut: of
\* datagrams sent again and again some arrive, in both directions.
FairSpec ==
    /\ Spec
    /\ WF_vars(Tick) /\ WF_vars(KeepAlive) /\ WF_vars(Receive) /\ WF_vars(AppGoesOn)
    /\ SF_vars(SnifferHandles) /\ SF_vars(RxStatus)

-----------------------------------------------------------------------------
(* Properties. *)

\* client_stop() has returned: no callback is under way and the keep-alive thread is gone,
\* so the application may destroy the client.
QuietWhenStopped ==
    /\ TypeOK
    /\ (apppc \in {"idle", "command"} /\ ~running) => (rxpc = "idle" /\ kapc = "none" /\ ~udp)

\* From some moment on the application sends nothing, so its wish is settled, and it has not
\* disabled the keep-alives.  One that sends within every interval keeps the keep-alive thread
\* from sending, and nothing else is answered.
QuietApplication == Interval > 0 /\ <>[][~SendOther /\ ~SendLogging]_vars

\* The application's wish reaches the Sniffer although the command that carried it, or any
\* keep-alive, may be lost or overtaken by an older one, and again after the Sniffer forgot
\* it or was restarted, once the application sends nothing else.
WishReachesSniffer ==
    (QuietApplication /\ <>[](running /\ power)) => []<>(logging = desired)

\* A client that the keep-alive thread gave up comes back when the Sniffer is there, the
\* needless give-ups of LostOnlyAfterSilence included.
ReachableIsConnected ==
    (QuietApplication /\ <>[](running /\ power)) => []<>connected

\* When the Sniffer is gone client_is_connected() says so in the end, whatever was still
\* under way and however often the application sends, unless keep-alives are disabled: then
\* nothing ever lowers the flag.
GoneIsDisconnected ==
    (Interval > 0 /\ <>[](running /\ ~power)) => <>[]~connected

\* "Checks if the client is currently connected (receiving data)": the keep-alive thread
\* gives the Sniffer up only when nothing was received for three intervals.
LostOnlyAfterSilence == [][connected /\ ~connected' => recvAge > Limit]_vars
=============================================================================
