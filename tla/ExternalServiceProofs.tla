------------------------ MODULE ExternalServiceProofs ------------------------
(***************************************************************************)
(* The UDP service for any clients and datagrams, any sizes and any ring:   *)
(* listeners are given whole messages only, and although the remembered     *)
(* sender is shared without a lock, what the service sends goes to clients  *)
(* that have talked to it, and an answer to the one that asked or to one    *)
(* heard after it.                                                          *)
(***************************************************************************)
EXTENDS ExternalService, SequenceTheorems, TLAPS

-----------------------------------------------------------------------------
(* The inductive invariant *)

\* What recvfrom left of a datagram.
Fits(r) == r.length = BytesRead(r.msg)

\* The writers: a CAN worker logs only while the Sniffer is up, and the worker writes only
\* for the datagram it has handled.
WriterInv ==
    /\ owner # "up" => wpc["logger"] = Idle
    /\ job.at # "told" => wpc["worker"] = Idle

\* What was read is handed on as it was read, and told to a listener that accepted it.
WholeInv ==
    /\ rx.at = "read" => Fits(rx.got)
    /\ \A i \in 1 .. Len(ring) : Fits(ring[i])
    /\ job # Idle => Fits(job.got)
    /\ job.at = "told" /\ job.to # {} => IsCommand(job.got) \/ IsData(job.got)

\* Somebody will send, or may: a datagram is on its way, or frames are logged.
Busy == ring # <<>> \/ job # Idle \/ logging \/ \E w \in Writers : wpc[w] # Idle

\* The sender of a datagram is remembered before anybody can act on the datagram.
SenderInv ==
    /\ rx.at = "read" =>
           /\ rx.from \in heard /\ rx.got.since = {rx.from}
           /\ "addr" \in store \/ addr = rx.from
           /\ "port" \in store \/ port = rx.from
    /\ Busy => addr \in heard /\ port \in heard
    /\ \A w \in Writers : wpc[w].at = "addr" => wpc[w].addr \in heard

\* The address remembered, and the one about to be, belong to clients heard since each
\* datagram that is still to be answered.
AskerInv ==
    /\ \A i \in 1 .. Len(ring) : addr \in ring[i].since /\ (rx.at = "read" => rx.from \in ring[i].since)
    /\ job # Idle => addr \in job.got.since /\ (rx.at = "read" => rx.from \in job.got.since)
    /\ wpc["worker"].at = "addr" => wpc["worker"].addr \in job.got.since

IInv == TypeOK /\ WriterInv /\ WholeInv /\ SenderInv /\ AskerInv

-----------------------------------------------------------------------------
(* The shapes of the state *)

\* The sizes are numbers.
LEMMA Sizes ==
    /\ {Magic, Header, MaxData, Canfd, MaxFrame, Capacity} \subseteq Nat
    /\ \A d \in Datagrams : d.length \in Nat /\ d.data_size \in Nat /\ d.magic \in {"v1.00", "canf", "other"}
BY ExternalAssumption

\* The parts of rx, job and wpc, by the step each is at.
LEMMA Shapes ==
    ASSUME TypeOK
    PROVE  /\ rx = Off \/ rx = On \/ rx.at = "read"
           /\ rx.at = "read" => rx # Off /\ rx # On /\ rx.from \in Clients /\ rx.got \in Received
           /\ job # Idle => job.at \in {"work", "told"} /\ job.got \in Received
           /\ job.at = "idle" <=> job = Idle
           /\ \A w \in Writers : wpc[w] = Idle \/ wpc[w].at \in {"start", "addr"}
           /\ \A w \in Writers : wpc[w].at = "idle" <=> wpc[w] = Idle
           /\ Len(ring) \in Nat /\ \A i \in 1 .. Len(ring) : ring[i] \in Received
<1>1. /\ rx = Off \/ rx = On \/ rx.at = "read"
      /\ rx.at = "read" => rx # Off /\ rx # On /\ rx.from \in Clients /\ rx.got \in Received
  BY DEF TypeOK, Off, On
<1>2. /\ job # Idle => job.at \in {"work", "told"} /\ job.got \in Received
      /\ job.at = "idle" <=> job = Idle
  BY DEF TypeOK, Idle
<1>3. /\ \A w \in Writers : wpc[w] = Idle \/ wpc[w].at \in {"start", "addr"}
      /\ \A w \in Writers : wpc[w].at = "idle" <=> wpc[w] = Idle
  BY DEF TypeOK, Idle
<1>4. Len(ring) \in Nat /\ \A i \in 1 .. Len(ring) : ring[i] \in Received
  BY LenProperties DEF TypeOK
<1> QED
  BY <1>1, <1>2, <1>3, <1>4

\* A read adds its sender to what every waiting datagram has seen, and changes nothing else.
LEMMA HearShapes ==
    ASSUME TypeOK, NEW c \in Clients, Hear(c)
    PROVE  /\ ring' \in Seq(Received) /\ Len(ring') = Len(ring)
           /\ \A i \in 1 .. Len(ring) : /\ ring'[i].msg = ring[i].msg /\ ring'[i].length = ring[i].length
                                        /\ ring'[i].since = ring[i].since \cup {c}
           /\ job = Idle <=> job' = Idle
           /\ job'.at = job.at
           /\ job # Idle => /\ job'.got.msg = job.got.msg /\ job'.got.length = job.got.length
                            /\ job'.got.since = job.got.since \cup {c} /\ job'.to = job.to
           /\ job' \in {Idle} \cup [at : {"work"}, got : Received]
                              \cup [at : {"told"}, got : Received, to : SUBSET Listeners]
<1>1. Len(ring) \in Nat /\ DOMAIN ring = 1 .. Len(ring) /\ \A i \in 1 .. Len(ring) : ring[i] \in Received
  BY LenProperties DEF TypeOK
<1>2. \A i \in 1 .. Len(ring) : /\ ring'[i] \in Received
                                /\ ring'[i].msg = ring[i].msg /\ ring'[i].length = ring[i].length
                                /\ ring'[i].since = ring[i].since \cup {c}
  BY <1>1 DEF Hear, Received
<1>3. ring' \in [1 .. Len(ring) -> Received]
  BY <1>1, <1>2 DEF Hear
<1>4. ring' \in Seq(Received)
  BY <1>1, <1>3, SeqDef
<1>5. Len(ring') = Len(ring)
  BY <1>1, <1>3, <1>4, LenProperties
<1>6. CASE job = Idle
  BY <1>2, <1>4, <1>5, <1>6 DEF Hear
<1>7. CASE job \in [at : {"work"}, got : Received]
  BY <1>2, <1>4, <1>5, <1>7 DEF Hear, Idle, Received
<1>8. CASE job \in [at : {"told"}, got : Received, to : SUBSET Listeners]
  BY <1>2, <1>4, <1>5, <1>8 DEF Hear, Idle, Received
<1> QED
  BY <1>6, <1>7, <1>8 DEF TypeOK

\* What push() leaves in the ring was there before or is the datagram that was read.
LEMMA PushShapes ==
    ASSUME TypeOK, RxPush
    PROVE  /\ ring' \in Seq(Received) /\ Len(ring') <= Capacity
           /\ \A i \in 1 .. Len(ring') : ring'[i] = rx.got \/ \E j \in 1 .. Len(ring) : ring'[i] = ring[j]
<1>1. rx.got \in Received /\ ring \in Seq(Received) /\ Len(ring) \in Nat /\ Len(ring) <= Capacity
  BY Shapes DEF RxPush, TypeOK
<1>2. CASE ring' = Append(ring, rx.got) /\ Len(ring) < Capacity
  BY <1>1, <1>2, AppendProperties, Sizes
<1>3. CASE ring' = Append(Tail(ring), rx.got) /\ ~(Len(ring) < Capacity)
  <2>1. Len(ring) # 0 /\ ring # <<>>
    <3>1. Capacity \in Nat \ {0}
      BY ExternalAssumption
    <3>2. Len(ring) # 0
      BY <1>1, <1>3, <3>1
    <3> QED
      BY <1>1, <3>2, EmptySeq
  <2>2. /\ Tail(ring) \in Seq(Received) /\ Len(Tail(ring)) = Len(ring) - 1
        /\ \A i \in 1 .. Len(Tail(ring)) : Tail(ring)[i] = ring[i + 1]
    BY <1>1, <2>1, HeadTailProperties
  <2>3. /\ ring' \in Seq(Received) /\ Len(ring') = Len(ring)
        /\ \A i \in 1 .. Len(Tail(ring)) : ring'[i] = Tail(ring)[i]
        /\ ring'[Len(ring)] = rx.got
    BY <1>1, <1>3, <2>1, <2>2, AppendProperties
  <2>4. \A i \in 1 .. Len(ring) - 1 : i + 1 \in 1 .. Len(ring) /\ ring'[i] = ring[i + 1]
    BY <1>1, <2>2, <2>3
  <2> QED
    BY <1>1, <2>3, <2>4
<1>4. CASE ring' = ring
  BY <1>1, <1>4
<1>5. \/ ring' = Append(ring, rx.got) /\ Len(ring) < Capacity
      \/ ring' = Append(Tail(ring), rx.got) /\ ~(Len(ring) < Capacity)
      \/ ring' = ring
  BY <1>1, Sizes DEF RxPush, Pushed
<1> QED
  BY <1>2, <1>3, <1>4, <1>5

\* The worker takes the oldest datagram and leaves the others.
LEMMA PopShapes ==
    ASSUME TypeOK, WorkerPop
    PROVE  /\ 1 \in 1 .. Len(ring) /\ Head(ring) = ring[1]
           /\ ring' \in Seq(Received) /\ Len(ring') <= Capacity
           /\ \A i \in 1 .. Len(ring') : i + 1 \in 1 .. Len(ring) /\ ring'[i] = ring[i + 1]
<1>1. ring \in Seq(Received) /\ ring # <<>> /\ Len(ring) \in Nat /\ Len(ring) <= Capacity /\ ring' = Tail(ring)
  BY Shapes DEF WorkerPop, TypeOK
<1>2. Len(ring) # 0
  BY <1>1, EmptySeq
<1> QED
  BY <1>1, <1>2, HeadTailProperties, Sizes

-----------------------------------------------------------------------------
(* The invariant is inductive *)

\* The invariant holds when nothing has started.
LEMMA InitIInv == Init => IInv
<1> SUFFICES ASSUME Init PROVE IInv
  OBVIOUS
<1>1. TypeOK
  <2>1. <<>> \in Seq(Received) /\ Len(<<>>) <= Capacity
    BY Sizes
  <2>2. running \in BOOLEAN /\ has \in BOOLEAN /\ logging \in BOOLEAN
    BY Zenon DEF Init
  <2> QED
    BY <2>1, <2>2 DEF Init, TypeOK
<1>2. WriterInv /\ WholeInv /\ SenderInv /\ AskerInv
  BY DEF Init, WriterInv, WholeInv, SenderInv, AskerInv, Busy, Off, Idle, Writers
<1> QED
  BY <1>1, <1>2 DEF IInv

\* Every step keeps the types.
LEMMA TypeStep ==
    ASSUME IInv, [Next]_vars
    PROVE  TypeOK'
<1>0. TypeOK /\ WriterInv /\ WholeInv /\ SenderInv /\ AskerInv
  BY DEF IInv
<1>1. CASE Start \/ StartFails \/ StopUnblock
  BY <1>0, <1>1 DEF Start, TypeOK, socket, sender, clients, StartFails, StopUnblock
<1>2. CASE StopClose
  <2>1. ring' \in Seq(Received) /\ Len(ring') <= Capacity
    BY <1>2, Sizes DEF StopClose
  <2>2. has' \in BOOLEAN /\ logging' \in BOOLEAN
    BY <1>2, Zenon DEF StopClose
  <2> QED
    BY <1>0, <1>2, <2>1, <2>2 DEF StopClose, TypeOK, clients
<1>3. CASE RxExit \/ RxError
  BY <1>0, <1>3 DEF RxExit, TypeOK, socket, sender, clients, RxError
<1>4. ASSUME NEW f \in {"addr", "port", "has"}, RxStore(f) PROVE TypeOK'
  <2>1. has' \in BOOLEAN
    BY <1>4, Zenon DEF RxStore
  <2> QED
    BY <1>0, <1>4, <2>1, Shapes DEF RxStore, TypeOK, socket, clients
<1>5. CASE RxPush
  BY <1>0, <1>5, PushShapes DEF RxPush, TypeOK, socket, sender, clients
<1>6. ASSUME NEW c \in Clients, NEW d \in Datagrams, RxRead(c, d) PROVE TypeOK'
  <2>1. BytesRead(d) \in 0 .. MaxFrame
    BY Sizes DEF BytesRead
  <2>2. rx' \in [at : {"read"}, from : Clients, got : Received]
    BY <1>6, <2>1 DEF RxRead, Received
  <2>3. store' \subseteq {"addr", "port", "has"}
    BY <1>6, Zenon DEF RxRead, Stores
  <2> QED
    BY <1>0, <1>6, <2>2, <2>3, HearShapes DEF RxRead, Hear, TypeOK, socket
<1>7. CASE WorkerDone \/ LogFrame \/ LoggingTimesOut
  BY <1>0, <1>7 DEF WorkerDone, TypeOK, socket, sender, clients, LogFrame, LoggingTimesOut
<1>8. CASE WorkerPop
  BY <1>0, <1>8, PopShapes, Shapes DEF WorkerPop, TypeOK, socket, sender, clients
<1>9. CASE WorkerTell
  BY <1>0, <1>9, Shapes DEF WorkerTell, TypeOK, Writers, socket, sender, clients
<1>10. CASE (\E c \in Clients : Settle(c))
  BY <1>0, <1>10 DEF Settle, TypeOK, socket, sender, clients
<1>11. ASSUME NEW w \in Writers, WriteAddr(w) PROVE TypeOK'
  BY <1>0, <1>11 DEF WriteAddr, TypeOK, socket, sender, clients
<1>12. ASSUME NEW w \in Writers, WriteSend(w) PROVE TypeOK'
  BY <1>0, <1>12 DEF WriteSend, TypeOK, Written, socket, sender, clients
<1>13. CASE UNCHANGED vars
  BY <1>0, <1>13 DEF vars, TypeOK, socket, sender, clients
<1> QED
  BY <1>1, <1>2, <1>3, <1>4, <1>5, <1>6, <1>7, <1>8, <1>9, <1>10, <1>11, <1>12, <1>13 DEF Next, Rx, Worker, Write

\* A writer ends before its owner.
LEMMA WriterStep ==
    ASSUME IInv, [Next]_vars
    PROVE  WriterInv'
<1>0. TypeOK /\ WriterInv /\ WholeInv /\ SenderInv /\ AskerInv
  BY DEF IInv
<1>1. CASE Start \/ StartFails \/ StopUnblock \/ StopClose
  BY <1>0, <1>1, Shapes DEF Start, WriterInv, Idle, Writers, socket, sender, clients, StartFails, StopUnblock, StopClose
<1>2. CASE \E f \in {"addr", "port", "has"} : RxStore(f) \/ RxPush \/ RxExit \/ RxError
  BY <1>0, <1>2, Shapes DEF RxStore, WriterInv, Idle, Writers, socket, sender, clients, RxPush, RxExit, RxError
<1>3. ASSUME NEW c \in Clients, NEW d \in Datagrams, RxRead(c, d) PROVE WriterInv'
  BY <1>0, <1>3, Shapes, HearShapes DEF RxRead, WriterInv, Idle, Writers, socket, sender, clients
<1>4. CASE LoggingTimesOut
  BY <1>0, <1>4, Shapes DEF LoggingTimesOut, WriterInv, Idle, Writers, socket, sender, clients
<1>5. CASE WorkerPop
  BY <1>0, <1>5, Shapes DEF WorkerPop, WriterInv, Idle, Writers, socket, sender, clients
<1>6. CASE WorkerTell
  BY <1>0, <1>6, Shapes DEF WorkerTell, WriterInv, Idle, Writers, socket, sender, clients
<1>7. CASE WorkerDone
  BY <1>0, <1>7, Shapes DEF WorkerDone, WriterInv, Idle, Writers, socket, sender, clients
<1>8. CASE LogFrame
  BY <1>0, <1>8, Shapes DEF LogFrame, WriterInv, Idle, Writers, socket, sender, clients
<1>9. CASE (\E c \in Clients : Settle(c))
  BY <1>0, <1>9, Shapes DEF Settle, WriterInv, Idle, Writers, socket, sender, clients
<1>10. ASSUME NEW w \in Writers, WriteAddr(w) PROVE WriterInv'
  BY <1>0, <1>10, Shapes DEF WriteAddr, WriterInv, Idle, Writers, socket, sender, clients
<1>11. ASSUME NEW w \in Writers, WriteSend(w) PROVE WriterInv'
  BY <1>0, <1>11, Shapes DEF WriteSend, WriterInv, Idle, Writers, Written, socket, sender, clients
<1>12. CASE UNCHANGED vars
  BY <1>0, <1>12 DEF vars, WriterInv, Idle, Writers, socket, sender, clients
<1> QED
  BY <1>1, <1>2, <1>3, <1>4, <1>5, <1>6, <1>7, <1>8, <1>9, <1>10, <1>11, <1>12 DEF Next, Rx, Worker, Write

\* A datagram is handed on as it was read.
LEMMA WholeStep ==
    ASSUME IInv, [Next]_vars
    PROVE  WholeInv'
<1>0. TypeOK /\ WriterInv /\ WholeInv /\ SenderInv /\ AskerInv
  BY DEF IInv
<1>1. CASE Start \/ StartFails \/ StopUnblock \/ StopClose
  BY <1>0, <1>1, Shapes DEF Start, WholeInv, On, Off, Idle, socket, sender, clients, StartFails, StopUnblock, StopClose
<1>2. CASE \E f \in {"addr", "port", "has"} : RxStore(f) \/ RxExit \/ RxError
  BY <1>0, <1>2, Shapes DEF RxStore, WholeInv, On, Off, Idle, socket, sender, clients, RxExit, RxError
<1>3. CASE RxPush
  BY <1>0, <1>3, Shapes, PushShapes DEF RxPush, WholeInv, On, Off, Idle, socket, sender, clients
<1>4. ASSUME NEW c \in Clients, NEW d \in Datagrams, RxRead(c, d) PROVE WholeInv'
  <2>0. Hear(c)
    BY <1>4 DEF RxRead
  <2>1. Fits(rx'.got)
    BY <1>4 DEF RxRead, Fits
  <2>2. \A i \in 1 .. Len(ring') : Fits(ring'[i])
    BY <1>0, <2>0, HearShapes DEF WholeInv, Fits
  <2>3. job' # Idle => job # Idle /\ Fits(job'.got)
    BY <1>0, <2>0, HearShapes DEF WholeInv, Fits
  <2>4. job'.at = "told" /\ job'.to # {} => IsCommand(job'.got) \/ IsData(job'.got)
    <3>1. SUFFICES ASSUME job'.at = "told", job'.to # {} PROVE IsCommand(job'.got) \/ IsData(job'.got)
      OBVIOUS
    <3>2. job # Idle /\ job.at = "told"
      BY <1>0, <2>0, <3>1, HearShapes DEF Idle
    <3>3. job'.got.msg = job.got.msg /\ job'.got.length = job.got.length /\ job'.to = job.to
      BY <1>0, <2>0, <3>2, HearShapes
    <3>4. IsCommand(job.got) \/ IsData(job.got)
      BY <1>0, <3>1, <3>2, <3>3 DEF WholeInv
    <3> QED
      BY <3>3, <3>4, Zenon DEF IsCommand, IsData
  <2> QED
    BY <2>1, <2>2, <2>3, <2>4 DEF WholeInv
<1>5. CASE WorkerDone \/ LogFrame \/ LoggingTimesOut
  BY <1>0, <1>5, Shapes DEF WorkerDone, WholeInv, On, Off, Idle, socket, sender, clients, LogFrame, LoggingTimesOut
<1>6. CASE WorkerPop
  BY <1>0, <1>6, Shapes, PopShapes DEF WorkerPop, WholeInv, On, Off, Idle, socket, sender, clients
<1>7. CASE WorkerTell
  BY <1>0, <1>7, Shapes DEF WorkerTell, WholeInv, On, Off, Idle, socket, sender, clients
<1>8. CASE (\E w \in Writers : WriteAddr(w)) \/ (\E w \in Writers : WriteSend(w)) \/ (\E c \in Clients : Settle(c))
  BY <1>0, <1>8, Shapes DEF WriteAddr, WholeInv, On, Off, Idle, socket, sender, clients, WriteSend, Written, Settle
<1>9. CASE UNCHANGED vars
  BY <1>0, <1>9 DEF vars, WholeInv, On, Off, Idle, socket, sender, clients
<1> QED
  BY <1>1, <1>2, <1>3, <1>4, <1>5, <1>6, <1>7, <1>8, <1>9 DEF Next, Rx, Worker, Write

\* The remembered sender has talked.
LEMMA SenderStep ==
    ASSUME IInv, [Next]_vars
    PROVE  SenderInv'
<1>0. TypeOK /\ WriterInv /\ WholeInv /\ SenderInv /\ AskerInv
  BY DEF IInv
<1>1. CASE Start \/ StartFails \/ StopUnblock
  BY <1>0, <1>1, Shapes DEF Start, SenderInv, Busy, On, Off, Idle, Writers, socket, sender, clients, StartFails, StopUnblock
<1>2. CASE StopClose
  BY <1>0, <1>2, Shapes DEF StopClose, SenderInv, Busy, On, Off, Idle, Writers, WriterInv, socket, sender, clients
<1>3. CASE RxExit \/ RxError
  BY <1>0, <1>3, Shapes DEF RxExit, SenderInv, Busy, On, Off, Idle, Writers, socket, sender, clients, RxError
<1>4. ASSUME NEW f \in {"addr", "port", "has"}, RxStore(f) PROVE SenderInv'
  BY <1>0, <1>4, Shapes DEF RxStore, SenderInv, Busy, On, Off, Idle, Writers, socket, sender, clients
<1>5. CASE RxPush
  BY <1>0, <1>5, Shapes DEF RxPush, SenderInv, Busy, On, Off, Idle, Writers, socket, sender, clients
<1>6. ASSUME NEW c \in Clients, NEW d \in Datagrams, RxRead(c, d) PROVE SenderInv'
  <2>1. ("addr" \in store' \/ addr = c) /\ ("port" \in store' \/ port = c)
    BY <1>6 DEF RxRead, Stores
  <2>2. heard' = heard \cup {c}
    BY <1>6 DEF RxRead, Hear
  <2>3. ring' # <<>> => ring # <<>>
    BY <1>0, <1>6, HearShapes, EmptySeq DEF RxRead, TypeOK
  <2> QED
    BY <1>0, <1>6, <2>1, <2>2, <2>3, HearShapes DEF RxRead, SenderInv, Busy
<1>7. CASE LoggingTimesOut
  BY <1>0, <1>7, Shapes DEF LoggingTimesOut, SenderInv, Busy, On, Off, Idle, Writers, socket, sender, clients
<1>8. CASE WorkerPop
  BY <1>0, <1>8, Shapes DEF WorkerPop, SenderInv, Busy, On, Off, Idle, Writers, socket, sender, clients
<1>9. CASE WorkerTell
  BY <1>0, <1>9, Shapes DEF WorkerTell, SenderInv, Busy, On, Off, Idle, Writers, socket, sender, clients
<1>10. CASE WorkerDone
  BY <1>0, <1>10, Shapes DEF WorkerDone, SenderInv, Busy, On, Off, Idle, Writers, socket, sender, clients
<1>11. CASE LogFrame
  BY <1>0, <1>11, Shapes DEF LogFrame, SenderInv, Busy, On, Off, Idle, Writers, socket, sender, clients
<1>12. CASE (\E c \in Clients : Settle(c))
  BY <1>0, <1>12, Shapes DEF Settle, SenderInv, Busy, On, Off, Idle, Writers, socket, sender, clients
<1>13. ASSUME NEW w \in Writers, WriteAddr(w) PROVE SenderInv'
  BY <1>0, <1>13, Shapes DEF WriteAddr, SenderInv, Busy, On, Off, Idle, Writers, socket, sender, clients
<1>14. ASSUME NEW w \in Writers, WriteSend(w) PROVE SenderInv'
  BY <1>0, <1>14, Shapes DEF WriteSend, SenderInv, Busy, On, Off, Idle, Writers, Written, socket, sender, clients
<1>15. CASE UNCHANGED vars
  BY <1>0, <1>15 DEF vars, SenderInv, Busy, On, Off, Idle, Writers, socket, sender, clients
<1> QED
  BY <1>1, <1>2, <1>3, <1>4, <1>5, <1>6, <1>7, <1>8, <1>9, <1>10, <1>11, <1>12, <1>13, <1>14, <1>15 DEF Next, Rx, Worker, Write

\* The remembered sender is the asker or was heard after it.
LEMMA AskerStep ==
    ASSUME IInv, [Next]_vars
    PROVE  AskerInv'
<1>0. TypeOK /\ WriterInv /\ WholeInv /\ SenderInv /\ AskerInv
  BY DEF IInv
<1>1. CASE Start \/ StartFails \/ StopUnblock
  BY <1>0, <1>1, Shapes DEF Start, AskerInv, On, Off, Idle, Writers, socket, sender, clients, StartFails, StopUnblock
<1>2. CASE StopClose
  BY <1>0, <1>2, Shapes DEF StopClose, AskerInv, On, Off, Idle, Writers, socket, sender, clients
<1>3. CASE RxExit \/ RxError
  BY <1>0, <1>3, Shapes DEF RxExit, AskerInv, On, Off, Idle, Writers, socket, sender, clients, RxError
<1>4. ASSUME NEW f \in {"addr", "port", "has"}, RxStore(f) PROVE AskerInv'
  BY <1>0, <1>4, Shapes DEF RxStore, AskerInv, On, Off, Idle, Writers, socket, sender, clients
<1>5. CASE RxPush
  BY <1>0, <1>5, Shapes, PushShapes DEF RxPush, AskerInv, On, Off, Idle, Writers, SenderInv, socket, sender, clients
<1>6. ASSUME NEW c \in Clients, NEW d \in Datagrams, RxRead(c, d) PROVE AskerInv'
  BY <1>0, <1>6, Shapes, HearShapes DEF RxRead, AskerInv, On, Off, Idle, Writers, socket, sender, clients
<1>7. CASE LoggingTimesOut
  BY <1>0, <1>7, Shapes DEF LoggingTimesOut, AskerInv, On, Off, Idle, Writers, socket, sender, clients
<1>8. CASE WorkerPop
  BY <1>0, <1>8, Shapes, PopShapes DEF WorkerPop, AskerInv, On, Off, Idle, Writers, WriterInv, socket, sender, clients
<1>9. CASE WorkerTell
  BY <1>0, <1>9, Shapes DEF WorkerTell, AskerInv, On, Off, Idle, Writers, socket, sender, clients
<1>10. CASE WorkerDone
  BY <1>0, <1>10, Shapes DEF WorkerDone, AskerInv, WriterInv, On, Off, Idle, Writers, socket, sender, clients
<1>11. CASE LogFrame
  BY <1>0, <1>11, Shapes DEF LogFrame, AskerInv, On, Off, Idle, Writers, socket, sender, clients
<1>12. CASE (\E c \in Clients : Settle(c))
  BY <1>0, <1>12, Shapes DEF Settle, AskerInv, On, Off, Idle, Writers, socket, sender, clients
<1>13. ASSUME NEW w \in Writers, WriteAddr(w) PROVE AskerInv'
  BY <1>0, <1>13, Shapes DEF WriteAddr, AskerInv, On, Off, Idle, Writers, WriterInv, socket, sender, clients
<1>14. ASSUME NEW w \in Writers, WriteSend(w) PROVE AskerInv'
  BY <1>0, <1>14, Shapes DEF WriteSend, AskerInv, On, Off, Idle, Writers, Written, socket, sender, clients
<1>15. CASE UNCHANGED vars
  BY <1>0, <1>15 DEF vars, AskerInv, On, Off, Idle, Writers, socket, sender, clients
<1> QED
  BY <1>1, <1>2, <1>3, <1>4, <1>5, <1>6, <1>7, <1>8, <1>9, <1>10, <1>11, <1>12, <1>13, <1>14, <1>15 DEF Next, Rx, Worker, Write

-----------------------------------------------------------------------------
(* Theorems *)

\* The invariant holds in every reachable state.
THEOREM InductiveInvariant == Spec => []IInv
<1>1. IInv /\ [Next]_vars => IInv'
  BY TypeStep, WriterStep, WholeStep, SenderStep, AskerStep DEF IInv
<1> QED
  BY InitIInv, <1>1, PTL DEF Spec

\* processPacket behind a read that cuts: whatever arrives, in whatever order, a listener is
\* given only messages whose declared bytes have all arrived and fit one read.
THEOREM ListenersGetWholeMessages == Spec => []WholeMessagesOnly
<1>1. ASSUME IInv PROVE WholeMessagesOnly
  <2>1. TypeOK
    BY <1>1 DEF IInv
  <2> SUFFICES ASSUME job.at = "told", job.to # {}
               PROVE  LET m == job.got.msg
                          end == IF m.magic = "canf" THEN Canfd ELSE Header + m.data_size
                      IN  end <= m.length /\ end <= MaxFrame
    BY <2>1 DEF WholeMessagesOnly
  <2>2. job.got.msg \in Datagrams /\ job.got.length \in 0 .. MaxFrame /\ job # Idle
    BY <2>1, Shapes DEF Received, Idle
  <2>3. job.got.length = BytesRead(job.got.msg) /\ (IsCommand(job.got) \/ IsData(job.got))
    BY <1>1, <2>2 DEF IInv, WholeInv, Fits
  <2>4. job.got.length <= job.got.msg.length /\ job.got.length <= MaxFrame
    BY <2>2, <2>3, Sizes DEF BytesRead
  <2>5. {Canfd, Header, MaxFrame} \subseteq Nat /\ job.got.msg.length \in Nat /\ job.got.msg.data_size \in Nat
    BY <2>2, Sizes
  <2>6. CASE IsCommand(job.got)
    <3>1. job.got.msg.magic # "canf" /\ job.got.length >= Header + job.got.msg.data_size
      BY <2>6 DEF IsCommand
    <3> QED
      BY <2>2, <2>4, <2>5, <3>1
  <2>7. CASE job.got.msg.magic = "canf" /\ job.got.length >= Canfd
    BY <2>2, <2>4, <2>5, <2>7
  <2> QED
    BY <2>3, <2>6, <2>7 DEF IsData
<1> QED
  BY InductiveInvariant, <1>1, PTL

\* write() against read(), which share m_lastSender without a lock: nothing is sent to an
\* address or a port nobody has talked from.
THEOREM NothingToStrangers == Spec => []SendsOnlyToSenders
<1>1. ASSUME IInv PROVE SendsOnlyToSenders
  <2> SUFFICES ASSUME NEW w \in Writers, wpc[w].at = "addr"
               PROVE  Destination(w).addr \in heard /\ Destination(w).port \in heard \cup {"fixed"}
    BY DEF SendsOnlyToSenders
  <2>1. wpc[w] # Idle
    BY DEF Idle
  <2>2. wpc[w].addr \in heard /\ port \in heard
    BY <1>1, <2>1 DEF IInv, SenderInv, Busy
  <2> QED
    BY <2>2 DEF Destination
<1> QED
  BY InductiveInvariant, <1>1, PTL

\* The answer to a command, with the clients changing while it is written: it goes to the
\* client that sent the command or to one that was heard after it.
THEOREM AskerIsAnswered == Spec => []AnswersTheAsker
<1>1. IInv => AnswersTheAsker
  BY DEF IInv, AskerInv, AnswersTheAsker, Destination
<1> QED
  BY InductiveInvariant, <1>1, PTL
================================================================================
