--------------------------- MODULE ExternalService ---------------------------
(***************************************************************************)
(* The UDP service of the Sniffer: UdpCommunication's socket and the sender *)
(* it remembers, UdpCanbusCommunication's reading of a datagram, the ring   *)
(* between the two threads, and the two kinds of writer that use the        *)
(* remembered address without a lock: the worker that answers a command and *)
(* a CAN worker that logs a frame.                                          *)
(*                                                                          *)
(* The network may lose, repeat, delay and reorder, so a read returns any   *)
(* datagram of any client.  Lengths are in units that keep the order of the *)
(* code's sizes.                                                            *)
(***************************************************************************)
EXTENDS Naturals, Sequences

CONSTANTS Clients,      \* programs that send to the service's port, each from an address of its own
          Datagrams,    \* what they send: [magic, length, data_size, command]
          RemotePorts,  \* configured external_client_port; 0: answer to the port that asked
          Magic,        \* 4 bytes
          Header,       \* calculateExternalMessageV1Size(0)
          MaxData,      \* sizeof(ExternalMessageV1::data)
          Canfd,        \* sizeof(ExternalCanfdMessage)
          MaxFrame,     \* getMaxFrameSize(), what one read can hold
          Capacity      \* datagrams the ring can hold, the one in the worker's hand included

ASSUME ExternalAssumption ==
    /\ Datagrams \subseteq [magic : {"v1.00", "canf", "other"}, length : Nat, data_size : Nat,
                            command : {"keep-alive", "canbus data"}]
    /\ {Magic, Header, MaxData, Canfd, MaxFrame, Capacity} \subseteq Nat \ {0}
    /\ RemotePorts \subseteq Nat /\ Clients \cap {"nobody"} = {}

VARIABLES
    remotePort,  \* m_remotePort
    owner,       \* the Sniffer: down, up (m_running), stopping
    fd,          \* m_socketFd: closed, open, shut down
    running,     \* the service's m_running
    rx,          \* the RX thread: off, on, or the datagram it has read
    store,       \* what read() has still to store: of "addr", "port", "has"
    addr,        \* m_lastSender.sin_addr, named by its client
    port,        \* m_lastSender.sin_port, likewise
    has,         \* m_hasLastSender
    ring,        \* received datagrams, each with the clients heard since
    job,         \* the one the worker handles
    wpc,         \* write() of each writer: idle, start, or the address it has read
    logging,     \* m_externalServiceLogging
    heard,       \* clients the service has read something from
    lone         \* the client that alone goes on to send, and only asks

Writers == {"worker", "logger"}
Listeners == {"command", "data"}
Nobody == "nobody"
Off == [at |-> "off"]
On == [at |-> "on"]
Idle == [at |-> "idle"]

socket == <<remotePort, fd, running, owner>>
sender == <<store, addr, port, has>>
clients == <<heard, lone>>
vars == <<socket, rx, sender, ring, job, wpc, logging, clients>>

\* A datagram as it was read: what was sent, the bytes of it that fit, and (for the
\* properties) who has been heard since.
Received == [msg : Datagrams, length : 0..MaxFrame, since : SUBSET Clients]

TypeOK ==
    /\ remotePort \in RemotePorts /\ owner \in {"down", "up", "stopping"}
    /\ fd \in {"closed", "open", "shut"} /\ running \in BOOLEAN
    /\ rx \in {Off, On} \cup [at : {"read"}, from : Clients, got : Received]
    /\ store \subseteq {"addr", "port", "has"} /\ {addr, port} \subseteq Clients \cup {Nobody} /\ has \in BOOLEAN
    /\ ring \in Seq(Received) /\ Len(ring) <= Capacity
    /\ job \in {Idle} \cup [at : {"work"}, got : Received]
                       \cup [at : {"told"}, got : Received, to : SUBSET Listeners]
    /\ wpc \in [Writers -> {Idle, [at |-> "start"]} \cup [at : {"addr"}, addr : Clients \cup {Nobody}]]
    /\ logging \in BOOLEAN /\ heard \subseteq Clients /\ lone \in Clients \cup {Nobody}

Init ==
    /\ remotePort \in RemotePorts /\ owner = "down"
    /\ fd = "closed" /\ running = FALSE /\ rx = Off
    /\ store = {} /\ addr = Nobody /\ port = Nobody /\ has = FALSE
    /\ ring = <<>> /\ job = Idle /\ wpc = [w \in Writers |-> Idle] /\ logging = FALSE
    /\ heard = {} /\ lone = Nobody

-----------------------------------------------------------------------------
(* start() and stop() *)

\* bind() succeeds
Start ==
    /\ owner = "down"
    /\ owner' = "up" /\ fd' = "open" /\ running' = TRUE /\ rx' = On
    /\ UNCHANGED <<remotePort, sender, ring, job, wpc, logging, clients>>

\* bind() fails: Sniffer::start goes on without the service
StartFails ==
    /\ owner = "down"
    /\ owner' = "up"
    /\ UNCHANGED <<remotePort, fd, running, rx, sender, ring, job, wpc, logging, clients>>

\* Sniffer::stop has joined the CAN workers; stop() clears m_running and unblock() shuts
\* the socket down.
StopUnblock ==
    /\ owner = "up" /\ wpc["logger"] = Idle
    /\ owner' = "stopping" /\ running' = FALSE
    /\ fd' = IF fd = "open" THEN "shut" ELSE fd
    /\ UNCHANGED <<remotePort, rx, sender, ring, job, wpc, logging, clients>>

\* Both threads have ended: close(), and the owner deletes the object and builds another,
\* perhaps with a new port.
StopClose ==
    /\ owner = "stopping" /\ rx = Off /\ job = Idle
    /\ owner' = "down" /\ remotePort' \in RemotePorts
    /\ fd' = "closed"
    /\ addr' = Nobody /\ port' = Nobody /\ has' = FALSE
    /\ ring' = <<>> /\ logging' = FALSE
    /\ UNCHANGED <<running, rx, store, job, wpc, clients>>

-----------------------------------------------------------------------------
(* rxThreadLoop and read() *)

\* recvfrom cuts what does not fit
BytesRead(d) == IF d.length <= MaxFrame THEN d.length ELSE MaxFrame

\* Every received datagram makes its sender the latest one.
Hear(c) ==
    /\ heard' = heard \cup {c}
    /\ ring' = [i \in DOMAIN ring |-> [ring[i] EXCEPT !.since = @ \cup {c}]]
    /\ job' = IF job = Idle THEN Idle ELSE [job EXCEPT !.got.since = @ \cup {c}]

\* The stores of read() that change what another thread can see.
Stores(c) ==
    {f \in {"addr", "port", "has"} : CASE f = "addr" -> addr # c [] f = "port" -> port # c [] f = "has" -> ~has}

\* A whole keep-alive that one read can hold.
Ask(d) == d.magic = "v1.00" /\ d.command = "keep-alive" /\ d.length = Header + d.data_size /\ d.length <= MaxFrame

\* recvfrom returns a datagram, after a shutdown too if one had arrived; an empty one is
\* read without a trace
RxRead(c, d) ==
    /\ rx = On /\ d.length > 0
    /\ lone = Nobody \/ (lone = c /\ Ask(d))
    /\ rx' = [at |-> "read", from |-> c, got |-> [msg |-> d, length |-> BytesRead(d), since |-> {c}]]
    /\ store' = Stores(c)
    /\ Hear(c)
    /\ UNCHANGED <<socket, addr, port, has, wpc, logging, lone>>

\* Mutant: only the first sender is remembered.
RxStoreFirst(f) ==
    /\ rx.at = "read" /\ f \in store
    /\ store' = store \ {f}
    /\ addr' = IF f = "addr" /\ addr = Nobody THEN rx.from ELSE addr
    /\ port' = IF f = "port" THEN rx.from ELSE port
    /\ has' = (has \/ f = "has")
    /\ UNCHANGED <<socket, rx, ring, job, wpc, logging, clients>>

\* The sender is remembered without a lock: another thread may see the three stores in any
\* order.
RxStore(f) ==
    /\ rx.at = "read" /\ f \in store
    /\ store' = store \ {f}
    /\ addr' = IF f = "addr" THEN rx.from ELSE addr
    /\ port' = IF f = "port" THEN rx.from ELSE port
    /\ has' = (has \/ f = "has")
    /\ UNCHANGED <<socket, rx, ring, job, wpc, logging, clients>>

\* push(), as CacheRing.tla has it: a full ring loses its oldest datagram, or the new one
\* while the block in front of the head is the one in the worker's hand.
Pushed(got) ==
    LET room == Len(ring) + (IF job = Idle THEN 0 ELSE 1) < Capacity
    IN  IF room THEN Append(ring, got)
        ELSE IF job = Idle THEN Append(Tail(ring), got) ELSE ring

\* Mutant: the datagram is handed over before its sender is remembered.
RxPushEarly ==
    /\ rx.at = "read"
    /\ ring' = Pushed(rx.got)
    /\ rx' = IF store # {} THEN rx ELSE IF running THEN On ELSE Off
    /\ UNCHANGED <<socket, sender, job, wpc, logging, clients>>

\* push() takes the ring's lock, which orders the stores before it.
RxPush ==
    /\ rx.at = "read" /\ store = {}
    /\ ring' = Pushed(rx.got)
    /\ rx' = IF running THEN On ELSE Off
    /\ UNCHANGED <<socket, sender, job, wpc, logging, clients>>

\* after shutdown recvfrom returns 0 when nothing is left
RxExit ==
    /\ rx = On /\ ~running
    /\ rx' = Off
    /\ UNCHANGED <<socket, sender, ring, job, wpc, logging, clients>>

\* recvfrom fails: the thread ends, and with it the service; nothing starts it again
RxError ==
    /\ rx = On /\ running
    /\ rx' = Off /\ running' = FALSE
    /\ UNCHANGED <<remotePort, fd, owner, sender, ring, job, wpc, logging, clients>>

-----------------------------------------------------------------------------
(* The worker: processPacket and Sniffer::onCommandReceived *)

\* Mutant: the length that arrived is not compared with the length that is declared.
IsCommandUnmeasured(r) ==
    /\ r.length >= Magic /\ r.msg.magic = "v1.00"
    /\ r.length <= Header + MaxData /\ r.length >= Header
    /\ r.msg.data_size <= MaxData

\* Mutant: a message that ends where it says is refused.
IsCommandOffByOne(r) ==
    /\ r.length >= Magic /\ r.msg.magic = "v1.00"
    /\ r.length <= Header + MaxData /\ r.length >= Header
    /\ r.msg.data_size <= MaxData /\ r.length > Header + r.msg.data_size

IsCommand(r) ==
    /\ r.length >= Magic /\ r.msg.magic = "v1.00"
    /\ r.length <= Header + MaxData /\ r.length >= Header
    /\ r.msg.data_size <= MaxData /\ r.length >= Header + r.msg.data_size

\* A frame of the short protocol, or a command that carries data, goes to the data listener,
\* which only notes the time.
IsData(r) ==
    \/ r.msg.magic = "canf" /\ r.length >= Magic /\ r.length >= Canfd
    \/ IsCommand(r) /\ r.msg.command = "canbus data"

WorkerPop ==
    /\ running /\ job = Idle /\ ring # <<>>
    /\ job' = [at |-> "work", got |-> Head(ring)]
    /\ ring' = Tail(ring)
    /\ UNCHANGED <<socket, rx, sender, wpc, logging, clients>>

\* The listeners are told; a keep-alive, while the Sniffer runs, sets logging as requested
\* and is answered
WorkerTell ==
    LET r == job.got
        to == {x \in Listeners : IF x = "command" THEN IsCommand(r) ELSE IsData(r)}
        answer == "command" \in to /\ r.msg.command = "keep-alive" /\ owner = "up"
    IN  /\ job.at = "work"
        /\ job' = [at |-> "told", got |-> r, to |-> to]
        /\ IF answer THEN logging' \in BOOLEAN ELSE UNCHANGED logging
        /\ wpc' = [wpc EXCEPT !["worker"] = IF answer THEN [at |-> "start"] ELSE Idle]
        /\ UNCHANGED <<socket, rx, sender, ring, clients>>

\* The block is given back: the listeners have returned, or were not called because the
\* service has been stopped, or has failed, since the datagram was taken.
WorkerDone ==
    /\ \/ job.at = "told" /\ wpc["worker"] = Idle
       \/ job.at = "work" /\ ~running
    /\ job' = Idle
    /\ UNCHANGED <<socket, rx, sender, ring, wpc, logging, clients>>

\* handleCanData of a CAN worker logs a frame
LogFrame ==
    /\ owner = "up" /\ logging /\ wpc["logger"] = Idle
    /\ wpc' = [wpc EXCEPT !["logger"] = [at |-> "start"]]
    /\ UNCHANGED <<socket, rx, sender, ring, job, logging, clients>>

\* Sniffer::watchdogLoop gives the client up
LoggingTimesOut ==
    /\ logging /\ owner = "up"
    /\ logging' = FALSE
    /\ UNCHANGED <<socket, rx, sender, ring, job, wpc, clients>>

-----------------------------------------------------------------------------
(* write() *)

Written(w) == wpc' = [wpc EXCEPT ![w] = Idle]

\* Without a socket, or if nobody has talked yet, nothing is sent ("0.0.0.0" is no address to
\* send to).
WriteAddr(w) ==
    /\ wpc[w].at = "start"
    /\ wpc' = [wpc EXCEPT ![w] = IF fd # "closed" /\ has THEN [at |-> "addr", addr |-> addr] ELSE Idle]
    /\ UNCHANGED <<socket, rx, sender, ring, job, logging, clients>>

\* Where the datagram goes: the port is read after the address.
Destination(w) == [addr |-> wpc[w].addr, port |-> IF remotePort # 0 THEN "fixed" ELSE port]

\* sendto to Destination(w); after a shutdown it fails unnoticed
WriteSend(w) ==
    /\ wpc[w].at = "addr"
    /\ Written(w)
    /\ UNCHANGED <<socket, rx, sender, ring, job, logging, clients>>

-----------------------------------------------------------------------------
\* From now on only this client sends, and what it sends are whole keep-alives.
Settle(c) ==
    /\ lone = Nobody
    /\ lone' = c
    /\ UNCHANGED <<socket, rx, sender, ring, job, wpc, logging, heard>>

Rx == RxPush \/ RxExit \/ \E f \in {"addr", "port", "has"} : RxStore(f)
Worker == WorkerPop \/ WorkerTell \/ WorkerDone
Write(w) == WriteAddr(w) \/ WriteSend(w)

Next ==
    \/ Start \/ StartFails \/ StopUnblock \/ StopClose
    \/ Rx \/ RxError \/ \E c \in Clients, d \in Datagrams : RxRead(c, d)
    \/ Worker \/ LogFrame \/ LoggingTimesOut
    \/ \E w \in Writers : Write(w)
    \/ \E c \in Clients : Settle(c)

Spec == Init /\ [][Next]_vars

\* The threads go on, and a client that asks does so again and again, as the SDK does every
\* 300 ms.
FairSpec ==
    /\ Spec
    /\ WF_vars(Rx) /\ WF_vars(Worker) /\ WF_vars(StopClose)
    /\ \A w \in Writers : WF_vars(Write(w))
    /\ \A c \in Clients : SF_vars(\E d \in Datagrams : Ask(d) /\ RxRead(c, d))

-----------------------------------------------------------------------------
(* Properties. *)

\* Behind a read that silently cuts a long datagram: what a listener is given is whole.  A
\* command has all the data it declares, so one that ends where it says and is longer
\* than a read can hold has no effect at all; a CAN FD frame has all its bytes.
WholeMessagesOnly ==
    /\ TypeOK
    /\ job.at = "told" /\ job.to # {} =>
           LET m == job.got.msg
               end == IF m.magic = "canf" THEN Canfd ELSE Header + m.data_size
           IN  end <= m.length /\ end <= MaxFrame

\* Although the remembered sender is shared without a lock, nothing is ever sent to an
\* address or to a port nobody has talked from; so as long as a single client has talked,
\* what the service sends goes to that client.
SendsOnlyToSenders ==
    \A w \in Writers : wpc[w].at = "addr" =>
        /\ Destination(w).addr \in heard
        /\ Destination(w).port \in heard \cup {"fixed"}

\* An answer goes to the client that asked, or to one the service has heard after it, also
\* when the clients change while the answer is written.
AnswersTheAsker == wpc["worker"].at = "addr" => Destination("worker").addr \in job.got.since

\* From some time on a single client asks and the service is up: it is answered again and
\* again, and nothing goes to another client any more.
LoneClientIsServed ==
    \A c \in Clients :
        <>[](lone = c /\ running) =>
            /\ []<>(wpc["worker"].at = "addr")
            /\ <>[](\A w \in Writers : wpc[w].at = "addr" => Destination(w).addr = c)
=============================================================================
