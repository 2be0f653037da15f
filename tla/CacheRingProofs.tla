-------------------------- MODULE CacheRingProofs --------------------------
(***************************************************************************)
(* TLAPS proofs about CacheRing, for every buffer size, frame size and      *)
(* number of frames.                                                        *)
(***************************************************************************)
EXTENDS CacheRing, SequenceTheorems, TLAPS

\* The ring has at least two blocks, whatever sizes the owner asks for.
LEMMA NumBlocksType == NumBlocks \in Nat /\ NumBlocks >= 2
<1>1. BlockSize \in Nat /\ BlockSize >= 8
  BY RingAssumption DEF BlockSize
<1>2. TotalSize \div BlockSize \in Int
  BY <1>1, RingAssumption
<1> QED
  BY <1>2 DEF NumBlocks

\* (i + 1) % m_numBlocks without the remainder.
LEMMA SuccValue ==
    \A i \in Blocks : /\ Succ(i) \in Blocks
                      /\ Succ(i) = IF i = NumBlocks - 1 THEN 0 ELSE i + 1
<1>1. ASSUME NEW n \in Nat, n >= 2, NEW i \in 0 .. n - 1
      PROVE (i + 1) % n = IF i = n - 1 THEN 0 ELSE i + 1
  <2>1. CASE i = n - 1
    BY <2>1, SMT
  <2>2. CASE i # n - 1
    BY <2>2, SMT
  <2> QED
    BY <2>1, <2>2
<1> QED
  BY <1>1, NumBlocksType DEF Succ, Blocks

\* Going round the ring: a block is not its own successor, and two blocks have
\* different successors.
LEMMA SuccInjective ==
    \A i, j \in Blocks : Succ(i) # i /\ (Succ(i) = Succ(j) => i = j)
<1> SUFFICES ASSUME NEW i \in Blocks, NEW j \in Blocks
             PROVE  Succ(i) # i /\ (Succ(i) = Succ(j) => i = j)
  OBVIOUS
<1>1. /\ Succ(i) = IF i = NumBlocks - 1 THEN 0 ELSE i + 1
      /\ Succ(j) = IF j = NumBlocks - 1 THEN 0 ELSE j + 1
  BY SuccValue
<1> QED
  BY <1>1, NumBlocksType DEF Blocks

\* A distance is a number below NumBlocks, and 0 from a block to itself.
LEMMA DistanceType ==
    \A t, i \in Blocks : /\ Distance(t, i) \in 0 .. NumBlocks - 1
                         /\ Distance(t, i) = 0 <=> t = i
BY NumBlocksType DEF Distance, Blocks

\* Blocks at the same distance are the same block.
LEMMA DistanceInjective ==
    \A t, i, j \in Blocks : Distance(t, i) = Distance(t, j) => i = j
BY NumBlocksType DEF Distance, Blocks

\* Advancing the far end: all distances but the one that wraps grow by one.
LEMMA DistanceHead ==
    \A t, h \in Blocks : Succ(h) # t => Distance(t, Succ(h)) = Distance(t, h) + 1
<1> SUFFICES ASSUME NEW t \in Blocks, NEW h \in Blocks, Succ(h) # t
             PROVE  Distance(t, Succ(h)) = Distance(t, h) + 1
  OBVIOUS
<1>1. Succ(h) = IF h = NumBlocks - 1 THEN 0 ELSE h + 1
  BY SuccValue
<1> QED
  BY <1>1, NumBlocksType DEF Distance, Blocks

\* Advancing the near end: every other block comes one closer.
LEMMA DistanceTail ==
    \A t, i \in Blocks : i # t => Distance(Succ(t), i) = Distance(t, i) - 1
<1> SUFFICES ASSUME NEW t \in Blocks, NEW i \in Blocks, i # t
             PROVE  Distance(Succ(t), i) = Distance(t, i) - 1
  OBVIOUS
<1>1. Succ(t) = IF t = NumBlocks - 1 THEN 0 ELSE t + 1
  BY SuccValue
<1> QED
  BY <1>1, NumBlocksType DEF Distance, Blocks

\* Taking the oldest block off a non-empty queue leaves the others, in the same order.
LEMMA BetweenTail ==
    ASSUME NEW t \in Blocks, NEW h \in Blocks, t # h
    PROVE  /\ t \in Between(t, h)
           /\ Between(Succ(t), h) \subseteq Between(t, h) \ {t}
           /\ \A i, j \in Between(Succ(t), h) :
                 Distance(Succ(t), i) < Distance(Succ(t), j)
                    => Distance(t, i) < Distance(t, j)
<1>1. Distance(t, h) > 0 /\ Distance(t, t) = 0
  BY DistanceType, NumBlocksType
<1>2. Distance(Succ(t), h) = Distance(t, h) - 1
  BY DistanceTail
<1>3. t \in Between(t, h)
  BY <1>1 DEF Between
<1>4. t \notin Between(Succ(t), h)
  <2>1. Distance(Succ(t), t) = NumBlocks - 1
    <3>1. Succ(t) = IF t = NumBlocks - 1 THEN 0 ELSE t + 1
      BY SuccValue
    <3> QED
      BY <3>1, NumBlocksType DEF Distance, Blocks
  <2>2. Distance(t, h) \in 0 .. NumBlocks - 1
    BY DistanceType
  <2> QED
    BY <1>2, <2>1, <2>2, NumBlocksType DEF Between
<1>5. ASSUME NEW i \in Between(Succ(t), h)
      PROVE  i \in Blocks /\ i # t /\ Distance(Succ(t), i) = Distance(t, i) - 1
                /\ Distance(t, i) \in Nat
  BY <1>4, DistanceTail, DistanceType, NumBlocksType DEF Between
<1>6. Distance(t, h) \in Nat
  BY DistanceType, NumBlocksType
<1>7. Between(Succ(t), h) \subseteq Between(t, h)
  BY <1>2, <1>5, <1>6 DEF Between
<1> QED
  BY <1>3, <1>4, <1>5, <1>7

\* Publishing a block behind the newest one adds that block, as the newest.
LEMMA BetweenHead ==
    ASSUME NEW t \in Blocks, NEW h \in Blocks, Succ(h) # t
    PROVE  /\ Between(t, Succ(h)) = Between(t, h) \cup {h}
           /\ \A i \in Between(t, h) : Distance(t, i) < Distance(t, h)
<1>1. Distance(t, Succ(h)) = Distance(t, h) + 1
  BY DistanceHead
<1>2. ASSUME NEW i \in Blocks
      PROVE  i \in Between(t, Succ(h)) <=> i \in Between(t, h) \cup {h}
  <2>1. Distance(t, i) \in Nat /\ Distance(t, h) \in Nat
    BY DistanceType, NumBlocksType
  <2>2. Distance(t, i) = Distance(t, h) => i = h
    BY DistanceInjective
  <2> QED
    BY <1>1, <2>1, <2>2 DEF Between
<1> QED
  BY <1>2 DEF Between

\* Elements of a sequence over R are in R.
LEMMA SeqElement ==
    ASSUME NEW R, NEW s \in Seq(R) PROVE \A i \in DOMAIN s : s[i] \in R
OBVIOUS

\* Every delivered record has natural numbers for its length and its payload.
LEMMA DeliveredType ==
    TypeOK => \A i \in DOMAIN delivered : delivered[i] \in [len : Nat, data : Nat]
BY SeqElement DEF TypeOK

-----------------------------------------------------------------------------

\* The constructor's empty ring satisfies the invariant.
LEMMA InitIInv == Init => IInv
<1> SUFFICES ASSUME Init PROVE IInv
  OBVIOUS
<1> USE DEF Init
<1>1. TypeOK
  BY NumBlocksType DEF TypeOK, Blocks
<1>2. Queued = {}
  BY NumBlocksType, DistanceType DEF Queued, Between, Blocks
<1>3. WorkerInv /\ HeadInv /\ WriteInv
  BY DEF WorkerInv, HeadInv, WriteInv, InBlock, Writing
<1>4. QueueInv /\ TakenInv /\ DeliveredInv /\ DeliveredInOrder
  BY <1>2 DEF QueueInv, TakenInv, DeliveredInv, DeliveredInOrder, InBlock, Writing
<1> QED
  BY <1>1, <1>3, <1>4 DEF IInv

\* Steps that touch neither a block nor an index: the invariant's parts are unchanged
\* or get weaker.
LEMMA QuietStep ==
    ASSUME IInv, UNCHANGED <<ring, frame, taken, delivered>>,
           TypeOK',
           Writing' => Writing,
           rxpc' = rxpc \/ rxpc' \in {"loop", "done"},
           wpc' = wpc \/ (~InBlock /\ ~InBlock'),
           UNCHANGED <<currentIndex, len>>
    PROVE  IInv'
<1>1. UNCHANGED <<head, tail, processing, block>>
  BY DEF ring
<1>2. Queued' = Queued /\ Queued \subseteq Blocks
  BY <1>1 DEF Queued, Between, Distance
<1>3. WorkerInv'
  BY <1>1 DEF IInv, WorkerInv, InBlock, Succ
<1>4. HeadInv' /\ WriteInv'
  BY <1>1 DEF IInv, HeadInv, WriteInv, Writing, Succ
<1>5. QueueInv'
  BY <1>1, <1>2 DEF IInv, QueueInv, Writing, Distance
<1>6. TakenInv'
  BY <1>1 DEF IInv, TakenInv, InBlock, Writing
<1>7. DeliveredInv' /\ DeliveredInOrder'
  BY DEF IInv, DeliveredInv, DeliveredInOrder, InBlock
<1> QED
  BY <1>3, <1>4, <1>5, <1>6, <1>7 DEF IInv

\* RxExit, PushRefuse, WorkerLoop, WorkerBreak and StopRunning are such quiet steps.
LEMMA QuietSteps ==
    IInv /\ (PushRefuse \/ RxExit \/ WorkerLoop \/ WorkerBreak \/ StopRunning) => IInv'
<1> USE DEF rxVars, workerVars, ring, Writing, InBlock
<1>1. ASSUME IInv, PushRefuse PROVE IInv'
  <2>1. TypeOK'
    BY <1>1 DEF IInv, TypeOK, PushRefuse
  <2> QED
    BY <1>1, <2>1, QuietStep DEF PushRefuse
<1>2. ASSUME IInv, RxExit PROVE IInv'
  <2>1. TypeOK'
    BY <1>2 DEF IInv, TypeOK, RxExit
  <2> QED
    BY <1>2, <2>1, QuietStep DEF RxExit
<1>3. ASSUME IInv, WorkerLoop PROVE IInv'
  <2>1. TypeOK'
    BY <1>3 DEF IInv, TypeOK, WorkerLoop
  <2> QED
    BY <1>3, <2>1, QuietStep DEF WorkerLoop
<1>4. ASSUME IInv, WorkerBreak PROVE IInv'
  <2>1. TypeOK'
    BY <1>4 DEF IInv, TypeOK, WorkerBreak
  <2> QED
    BY <1>4, <2>1, QuietStep DEF WorkerBreak
<1>5. ASSUME IInv, StopRunning PROVE IInv'
  <2>1. TypeOK'
    BY <1>5 DEF IInv, TypeOK, StopRunning
  <2> QED
    BY <1>5, <2>1, QuietStep DEF StopRunning
<1> QED
  BY <1>1, <1>2, <1>3, <1>4, <1>5

\* read() brings a frame newer than everything in the ring.
LEMMA RxReadStep == IInv /\ RxRead => IInv'
<1> SUFFICES ASSUME IInv, RxRead PROVE IInv'
  OBVIOUS
<1> USE DEF RxRead, ring, workerVars, IInv
<1>1. TypeOK'
  BY DEF TypeOK
<1>2. WorkerInv' /\ HeadInv' /\ WriteInv'
  BY DEF WorkerInv, HeadInv, WriteInv, InBlock, Writing, Succ
<1>3. QueueInv'
  BY DEF QueueInv, Writing, Queued, Between, Distance, TypeOK
<1>4. TakenInv' /\ DeliveredInv' /\ DeliveredInOrder'
  BY DEF TakenInv, DeliveredInv, DeliveredInOrder, InBlock, Writing, TypeOK
<1> QED
  BY <1>1, <1>2, <1>3, <1>4

\* Check 2 of push() drops the oldest queued frame at most, and leaves room at the head.
LEMMA PushBeginStep == IInv /\ PushBegin => IInv'
<1> SUFFICES ASSUME IInv, PushBegin PROVE IInv'
  OBVIOUS
<1> USE DEF PushBegin, workerVars, IInv
<1>1. TypeOK'
  BY SuccValue DEF TypeOK
<1>2. InBlock => Succ(head) # tail
  BY SuccInjective DEF TypeOK, WorkerInv, HeadInv
<1>3. WorkerInv'
  BY <1>2 DEF WorkerInv, InBlock, Succ
<1>4. HeadInv'
  <2>1. Succ(head) # tail'
    BY SuccInjective DEF TypeOK
  <2> QED
    BY <2>1 DEF HeadInv, Writing, Succ
<1>5. WriteInv'
  BY DEF WriteInv
<1>6. head # tail \/ tail' = tail
  BY SuccInjective DEF TypeOK
<1>7. /\ Queued' \subseteq Queued
      /\ \A i, j \in Queued' :
            Distance(tail', i) < Distance(tail', j)
                => Distance(tail, i) < Distance(tail, j)
  <2>1. Queued' = Between(tail', head)
    BY DEF Queued, Between, Distance
  <2>2. CASE tail' = tail
    BY <2>1, <2>2 DEF Queued
  <2>3. CASE head # tail /\ tail' = Succ(tail)
    BY <2>1, <2>3, BetweenTail DEF Queued, TypeOK
  <2> QED
    BY <1>6, <2>2, <2>3
<1>8. QueueInv'
  BY <1>7 DEF QueueInv, Writing, Distance
<1>9. TakenInv' /\ DeliveredInv' /\ DeliveredInOrder'
  BY DEF TakenInv, DeliveredInv, DeliveredInOrder, InBlock, Writing
<1> QED
  BY <1>1, <1>3, <1>4, <1>5, <1>8, <1>9

\* push() writes the block at the head, which is neither queued nor in use.
LEMMA PushWriteStep == IInv /\ (PushWriteLen \/ PushWriteData) => IInv'
<1> SUFFICES ASSUME IInv, PushWriteLen \/ PushWriteData PROVE IInv'
  OBVIOUS
<1> USE DEF PushWriteLen, PushWriteData, workerVars, IInv
<1>1. TypeOK'
  BY DEF TypeOK
<1>2. WorkerInv' /\ HeadInv'
  BY DEF WorkerInv, HeadInv, InBlock, Writing, Succ
<1>3. WriteInv'
  BY DEF WriteInv, TypeOK
<1>4. head \notin Queued /\ Queued \subseteq Blocks
  BY DistanceType DEF Queued, Between, TypeOK
<1>5. \A i \in Blocks : i # head => block'[i] = block[i]
  BY DEF TypeOK
<1>6. Queued' = Queued
  BY DEF Queued, Between, Distance
<1>7. QueueInv'
  BY <1>4, <1>5, <1>6 DEF QueueInv, Writing, Distance
<1>8. InBlock => currentIndex # head
  BY DEF WorkerInv, HeadInv
<1>9. TakenInv' /\ DeliveredInv' /\ DeliveredInOrder'
  BY <1>5, <1>8 DEF TakenInv, DeliveredInv, DeliveredInOrder, InBlock, Writing, TypeOK
<1> QED
  BY <1>1, <1>2, <1>3, <1>7, <1>9

\* m_head = nextHead adds a whole block as the newest of the queue.
LEMMA PushPublishStep == IInv /\ PushPublish => IInv'
<1> SUFFICES ASSUME IInv, PushPublish PROVE IInv'
  OBVIOUS
<1> USE DEF PushPublish, workerVars, IInv
<1>1. TypeOK'
  BY SuccValue DEF TypeOK
<1>2. WorkerInv' /\ HeadInv' /\ WriteInv'
  BY DEF WorkerInv, HeadInv, WriteInv, InBlock, Writing, Succ
<1>3. /\ Queued' = Queued \cup {head}
      /\ \A i \in Queued : i \in Blocks /\ Distance(tail, i) < Distance(tail, head)
  <2>1. Queued' = Between(tail, Succ(head))
    BY DEF Queued, Between, Distance
  <2>2. Succ(head) # tail
    BY DEF HeadInv, Writing
  <2> QED
    BY <2>1, <2>2, BetweenHead DEF Queued, Between, TypeOK
<1>4. QueueInv'
  <2>1. \A i \in Queued' : /\ block'[i].len = block'[i].data
                          /\ taken' < block'[i].data
                          /\ block'[i].data <= frame'
    BY <1>3 DEF QueueInv, WriteInv, TakenInv, Writing, TypeOK
  <2>2. ASSUME NEW i \in Queued', NEW j \in Queued',
               Distance(tail, i) < Distance(tail, j)
        PROVE  block'[i].data < block'[j].data
    <3>1. i \in Queued
      <4>1. Distance(tail, head) \in Int
        BY DistanceType, NumBlocksType DEF TypeOK
      <4>2. ASSUME i = head PROVE FALSE
        <5>1. CASE j = head
          BY <2>2, <4>1, <4>2, <5>1
        <5>2. CASE j \in Queued
          <6>1. j \in Blocks /\ Distance(tail, j) < Distance(tail, head)
            BY <1>3, <5>2
          <6>2. Distance(tail, j) \in Int
            BY <6>1, DistanceType, NumBlocksType DEF TypeOK
          <6> QED
            BY <2>2, <4>1, <4>2, <6>1, <6>2
        <5> QED
          BY <1>3, <5>1, <5>2
      <4> QED
        BY <4>2, <1>3
    <3>2. CASE j = head
      BY <3>1, <3>2 DEF QueueInv, WriteInv, Writing, TypeOK
    <3>3. CASE j \in Queued
      BY <3>1, <3>3, <2>2 DEF QueueInv
    <3> QED
      BY <3>2, <3>3, <1>3
  <2> QED
    BY <2>1, <2>2 DEF QueueInv, Writing, Distance
<1>5. TakenInv' /\ DeliveredInv' /\ DeliveredInOrder'
  BY DEF TakenInv, DeliveredInv, DeliveredInOrder, InBlock, Writing, TypeOK
<1> QED
  BY <1>1, <1>2, <1>4, <1>5

\* process() takes the oldest block: it is whole and newer than all that was taken before.
LEMMA TakeStep == IInv /\ Take => IInv'
<1> SUFFICES ASSUME IInv, Take PROVE IInv'
  OBVIOUS
<1> USE DEF Take, rxVars, IInv
<1>1. TypeOK'
  BY SuccValue DEF TypeOK
<1>2. WorkerInv'
  BY DEF WorkerInv, InBlock, TypeOK, Blocks, Succ
<1>3. HeadInv' /\ WriteInv'
  BY DEF HeadInv, WriteInv, Writing, MutexFree
<1>4. /\ tail \in Queued
      /\ Queued' \subseteq Queued \ {tail}
      /\ \A i, j \in Queued' :
            Distance(tail', i) < Distance(tail', j)
                => Distance(tail, i) < Distance(tail, j)
  <2>1. Queued' = Between(Succ(tail), head)
    BY DEF Queued, Between, Distance
  <2> QED
    BY <2>1, BetweenTail DEF Queued, TypeOK
<1>5. \A i \in Queued' : block[tail].data < block[i].data
  <2>1. ASSUME NEW i \in Queued'
        PROVE  Distance(tail, tail) < Distance(tail, i)
    <3>1. tail \in Blocks /\ i \in Blocks /\ i # tail
      BY <1>4 DEF TypeOK, Queued, Between
    <3>2. Distance(tail, tail) = 0 /\ Distance(tail, i) \in Nat /\ Distance(tail, i) # 0
      BY <3>1, DistanceType, NumBlocksType
    <3> QED
      BY <3>2
  <2> QED
    BY <1>4, <2>1 DEF QueueInv
<1>6. QueueInv'
  BY <1>4, <1>5 DEF QueueInv, Writing, Distance
<1>7. block[tail] = [len |-> block[tail].data, data |-> block[tail].data]
  BY <1>4 DEF QueueInv, TypeOK
<1>8. TakenInv'
  <2>1. /\ taken' <= frame'
        /\ rxpc' = "push" \/ Writing' => taken' < frame'
    BY <1>4 DEF QueueInv, Writing
  <2> QED
    BY <1>7, <2>1 DEF TakenInv, InBlock, TypeOK
<1>9. DeliveredInv' /\ DeliveredInOrder'
  <2>1. /\ taken < block[tail].data /\ block[tail].data \in Nat
        /\ taken \in Nat /\ taken' = block[tail].data
    BY <1>4 DEF QueueInv, TypeOK
  <2>2. \A i \in DOMAIN delivered : delivered[i].data \in Nat
    BY DeliveredType
  <2>3. \A i \in DOMAIN delivered : delivered[i].data < taken'
    BY <2>1, <2>2 DEF DeliveredInv
  <2> QED
    BY <2>1, <2>2, <2>3 DEF DeliveredInv, DeliveredInOrder
<1> QED
  BY <1>1, <1>2, <1>3, <1>6, <1>8, <1>9

\* The length that process() reads belongs to the frame it took.
LEMMA ReadHeaderStep == IInv /\ ReadHeader => IInv'
<1> SUFFICES ASSUME IInv, ReadHeader PROVE IInv'
  OBVIOUS
<1> USE DEF ReadHeader, ring, rxVars, IInv
<1>1. TypeOK'
  BY DEF TypeOK
<1>2. WorkerInv' /\ HeadInv' /\ WriteInv'
  BY DEF WorkerInv, HeadInv, WriteInv, InBlock, Writing, Succ
<1>3. QueueInv'
  BY DEF QueueInv, Writing, Queued, Between, Distance
<1>4. TakenInv' /\ DeliveredInv' /\ DeliveredInOrder'
  BY DEF TakenInv, DeliveredInv, DeliveredInOrder, InBlock, Writing, TypeOK
<1> QED
  BY <1>1, <1>2, <1>3, <1>4

\* onDataReceived is given the frame that was taken, which is newer than all it has seen.
LEMMA CallbackStep == IInv /\ Callback => IInv'
<1> SUFFICES ASSUME IInv, Callback PROVE IInv'
  OBVIOUS
<1> USE DEF Callback, ring, rxVars, IInv
<1>1. TypeOK'
  BY DEF TypeOK
<1>2. WorkerInv' /\ HeadInv' /\ WriteInv'
  BY DEF WorkerInv, HeadInv, WriteInv, InBlock, Writing, Succ
<1>3. QueueInv'
  BY DEF QueueInv, Writing, Queued, Between, Distance
<1>4. delivered' = Append(delivered, [len |-> taken, data |-> taken])
  BY DEF TakenInv, InBlock
<1>5. /\ DOMAIN delivered' = 1 .. Len(delivered) + 1
      /\ DOMAIN delivered = 1 .. Len(delivered) /\ Len(delivered) \in Nat
      /\ \A i \in DOMAIN delivered : delivered'[i] = delivered[i]
      /\ delivered'[Len(delivered) + 1] = [len |-> taken, data |-> taken]
  <2> DEFINE e == [len |-> taken, data |-> taken]
  <2>1. delivered \in Seq([len : Nat, data : Nat]) /\ e \in [len : Nat, data : Nat]
    BY DEF TypeOK
  <2> HIDE DEF e
  <2> QED
    BY <1>4, <2>1, AppendProperties, LenProperties DEF e
<1>6. \A i \in DOMAIN delivered : delivered[i].data < taken
  BY DEF DeliveredInv
<1>7. TakenInv'
  BY DEF TakenInv, InBlock, Writing
<1>8. DeliveredInv'
  <2>1. taken \in Nat /\ \A i \in DOMAIN delivered : delivered[i].data \in Nat
    BY DeliveredType DEF TypeOK
  <2> QED
    BY <1>5, <1>6, <2>1 DEF DeliveredInv
<1>9. DeliveredInOrder'
  BY <1>5, <1>6 DEF DeliveredInOrder
<1> QED
  BY <1>1, <1>2, <1>3, <1>7, <1>8, <1>9

\* m_processingIndex = -1 gives the block back.
LEMMA ReleaseStep == IInv /\ Release => IInv'
<1> SUFFICES ASSUME IInv, Release PROVE IInv'
  OBVIOUS
<1> USE DEF Release, rxVars, IInv
<1>1. TypeOK'
  BY DEF TypeOK
<1>2. WorkerInv' /\ HeadInv' /\ WriteInv'
  BY DEF WorkerInv, HeadInv, WriteInv, InBlock, Writing, MutexFree, TypeOK, Blocks
<1>3. QueueInv'
  BY DEF QueueInv, Writing, Queued, Between, Distance
<1>4. TakenInv' /\ DeliveredInv' /\ DeliveredInOrder'
  BY DEF TakenInv, DeliveredInv, DeliveredInOrder, InBlock, Writing
<1> QED
  BY <1>1, <1>2, <1>3, <1>4

\* A stuttering step changes nothing.
LEMMA StutterStep == IInv /\ UNCHANGED vars => IInv'
BY QuietStep DEF vars, ring, rxVars, workerVars, IInv, TypeOK, Writing, InBlock

\* Every step of the two threads preserves the invariant.
LEMMA NextIInv == IInv /\ [Next]_vars => IInv'
BY QuietSteps, RxReadStep, PushBeginStep, PushWriteStep, PushPublishStep, TakeStep,
   ReadHeaderStep, CallbackStep, ReleaseStep, StutterStep
   DEF Next, Rx, Worker

\* Every reachable state of the ring satisfies the inductive invariant, for all sizes.
THEOREM InductiveInvariant == Spec => []IInv
BY InitIInv, NextIInv, PTL DEF Spec

\* No index leaves the ring, and CacheManager::push never touches the block that
\* onDataReceived is reading in place.
THEOREM ZeroCopy == Spec => []ZeroCopySafe
<1>1. IInv => ZeroCopySafe
  BY DEF IInv, TakenInv, ZeroCopySafe
<1> QED
  BY <1>1, InductiveInvariant, PTL

\* push() and the lock-free reads of process() are never on the same block.
THEOREM RaceFree == Spec => []NoBlockRace
<1>1. IInv => NoBlockRace
  BY DEF IInv, WorkerInv, HeadInv, NoBlockRace
<1> QED
  BY <1>1, InductiveInvariant, PTL

\* The listener's calls come in the order of arrival, without duplicates and whole.
THEOREM OrderedDelivery == Spec => []DeliveredInOrder
<1>1. IInv => DeliveredInOrder
  BY DEF IInv
<1> QED
  BY <1>1, InductiveInvariant, PTL

\* push() loses a frame only when NumBlocks - 1 frames are in the ring.
THEOREM NoEarlyLoss == Spec => LostOnlyWhenFull
<1>1. ASSUME IInv, PushRefuse PROVE QueueLen + InUse = NumBlocks - 1
  <2>1. /\ head \in Blocks /\ tail \in Blocks /\ processing \in Blocks
        /\ InUse = 1
        /\ Succ(head) = processing /\ tail = Succ(processing)
    <3>1. head \in Blocks /\ tail \in Blocks /\ Succ(head) = processing
      BY <1>1 DEF IInv, TypeOK, PushRefuse
    <3>2. processing \in Blocks /\ processing # -1
      BY <3>1, SuccValue DEF Blocks
    <3> QED
      BY <1>1, <3>1, <3>2 DEF IInv, WorkerInv, InUse
  <2>2. Distance(tail, head) = NumBlocks - 2
    <3>1. /\ Succ(head) = IF head = NumBlocks - 1 THEN 0 ELSE head + 1
          /\ Succ(processing) = IF processing = NumBlocks - 1 THEN 0 ELSE processing + 1
      BY <2>1, SuccValue
    <3> QED
      BY <2>1, <3>1, NumBlocksType DEF Distance, Blocks
  <2> QED
    BY <2>1, <2>2, NumBlocksType DEF QueueLen
<1>2. ASSUME IInv, PushBegin, tail' # tail PROVE QueueLen + InUse = NumBlocks - 1
  <2>1. /\ head \in Blocks /\ tail \in Blocks /\ Succ(head) = tail
    BY <1>2 DEF IInv, TypeOK, PushBegin
  <2>2. InUse = 0
    BY <1>2, <2>1, SuccInjective DEF IInv, TypeOK, WorkerInv, HeadInv, InUse, PushBegin
  <2>3. Distance(tail, head) = NumBlocks - 1
    <3>1. Succ(head) = IF head = NumBlocks - 1 THEN 0 ELSE head + 1
      BY <2>1, SuccValue
    <3> QED
      BY <2>1, <3>1, NumBlocksType DEF Distance, Blocks
  <2> QED
    BY <2>2, <2>3, NumBlocksType DEF QueueLen
<1>3. [Next]_vars /\ Writing' /\ ~Writing => PushBegin
  BY DEF Next, Rx, Worker, Writing, RxRead, PushRefuse, PushWriteLen, PushWriteData,
         PushPublish, RxExit, WorkerLoop, WorkerBreak, Take, ReadHeader, Callback,
         Release, StopRunning, vars, rxVars
<1>4. IInv /\ [Next]_vars =>
        [(PushRefuse \/ (Writing' /\ ~Writing /\ tail' # tail))
            => QueueLen + InUse = NumBlocks - 1]_vars
  BY <1>1, <1>2, <1>3
<1> QED
  BY <1>4, InductiveInvariant, PTL DEF Spec, LostOnlyWhenFull

-----------------------------------------------------------------------------
(* The ring implements the queue that drops *)

\* The block k places behind block t.
LEMMA RoundTheRing ==
    ASSUME NEW t \in Blocks, NEW k \in 0 .. NumBlocks - 1
    PROVE  /\ (t + k) % NumBlocks \in Blocks
           /\ (t + k) % NumBlocks = IF t + k < NumBlocks THEN t + k ELSE t + k - NumBlocks
<1>1. ASSUME NEW n \in Nat, n >= 2, NEW i \in 0 .. n - 1, NEW j \in 0 .. n - 1
      PROVE  (i + j) % n = IF i + j < n THEN i + j ELSE i + j - n
  <2>1. CASE i + j < n
    BY <2>1, SMT
  <2>2. CASE ~(i + j < n)
    BY <2>2, SMT
  <2> QED
    BY <2>1, <2>2
<1>2. (t + k) % NumBlocks = IF t + k < NumBlocks THEN t + k ELSE t + k - NumBlocks
  BY <1>1, NumBlocksType DEF Blocks
<1> QED
  BY <1>2, NumBlocksType DEF Blocks

\* The frames between two blocks are a sequence, read block by block.
LEMMA FramesShape ==
    ASSUME NEW t \in Blocks, NEW h \in Blocks, NEW b \in [Blocks -> [len : Nat, data : Nat]]
    PROVE  /\ FramesBetween(t, h, b) \in Seq(Nat)
           /\ Len(FramesBetween(t, h, b)) = Distance(t, h) /\ Distance(t, h) \in 0 .. NumBlocks - 1
           /\ \A k \in 1 .. Distance(t, h) :
                 /\ FramesBetween(t, h, b)[k] = b[(t + k - 1) % NumBlocks].data
                 /\ (t + k - 1) % NumBlocks \in Blocks
                 /\ (t + k - 1) % NumBlocks = IF t + k - 1 < NumBlocks THEN t + k - 1 ELSE t + k - 1 - NumBlocks
<1> DEFINE n == Distance(t, h)
           f == FramesBetween(t, h, b)
<1>1. n \in 0 .. NumBlocks - 1
  BY DistanceType
<1> HIDE DEF n
<1>2. ASSUME NEW k \in 1 .. n
      PROVE  /\ (t + k - 1) % NumBlocks \in Blocks
             /\ (t + k - 1) % NumBlocks = IF t + k - 1 < NumBlocks THEN t + k - 1 ELSE t + k - 1 - NumBlocks
  <2>1. k - 1 \in 0 .. NumBlocks - 1 /\ t + (k - 1) = t + k - 1
    BY <1>1, NumBlocksType DEF Blocks
  <2> QED
    BY <2>1, RoundTheRing
<1>3. f \in [1 .. n -> Nat] /\ \A k \in 1 .. n : f[k] = b[(t + k - 1) % NumBlocks].data
  BY <1>2 DEF FramesBetween, n
<1>4. n \in Nat /\ f \in Seq(Nat)
  BY <1>1, <1>3, SeqDef, NumBlocksType
<1>5. Len(f) = n
  BY <1>3, <1>4, LenProperties
<1> QED
  BY <1>1, <1>2, <1>3, <1>4, <1>5 DEF n

\* Taking the oldest frame.
LEMMA FramesTake ==
    ASSUME NEW t \in Blocks, NEW h \in Blocks, t # h, NEW b \in [Blocks -> [len : Nat, data : Nat]]
    PROVE  /\ FramesBetween(t, h, b) # <<>> /\ Head(FramesBetween(t, h, b)) = b[t].data
           /\ Tail(FramesBetween(t, h, b)) = FramesBetween(Succ(t), h, b)
<1> DEFINE f == FramesBetween(t, h, b)
           g == FramesBetween(Succ(t), h, b)
           n == Distance(t, h)
<1>1. n \in 1 .. NumBlocks - 1 /\ Succ(t) \in Blocks /\ Distance(Succ(t), h) = n - 1
  BY DistanceType, DistanceTail, SuccValue
<1>2. f \in Seq(Nat) /\ Len(f) = n /\ g \in Seq(Nat) /\ Len(g) = n - 1
  BY <1>1, FramesShape
<1>3. f # <<>>
  BY <1>1, <1>2
<1>4. Tail(f) \in Seq(Nat) /\ Len(Tail(f)) = n - 1 /\ Head(f) = f[1] /\ \A k \in 1 .. n - 1 : Tail(f)[k] = f[k + 1]
  BY <1>1, <1>2, <1>3, HeadTailProperties, NumBlocksType
<1>5. Head(f) = b[t].data
  <2>1. f[1] = b[(t + 1 - 1) % NumBlocks].data
        /\ (t + 1 - 1) % NumBlocks = IF t + 1 - 1 < NumBlocks THEN t + 1 - 1 ELSE t + 1 - 1 - NumBlocks
    BY <1>1, FramesShape
  <2>2. (t + 1 - 1) % NumBlocks = t
    BY <2>1, NumBlocksType DEF Blocks
  <2> QED
    BY <1>4, <2>1, <2>2
<1>6. ASSUME NEW k \in 1 .. n - 1 PROVE Tail(f)[k] = g[k]
  <2>1. k + 1 \in 1 .. n /\ k \in 1 .. Distance(Succ(t), h)
    BY <1>1, NumBlocksType
  <2>2. /\ f[k + 1] = b[(t + (k + 1) - 1) % NumBlocks].data
        /\ (t + (k + 1) - 1) % NumBlocks = IF t + (k + 1) - 1 < NumBlocks THEN t + (k + 1) - 1 ELSE t + (k + 1) - 1 - NumBlocks
    BY <2>1, FramesShape
  <2>3. /\ g[k] = b[(Succ(t) + k - 1) % NumBlocks].data
        /\ (Succ(t) + k - 1) % NumBlocks = IF Succ(t) + k - 1 < NumBlocks THEN Succ(t) + k - 1 ELSE Succ(t) + k - 1 - NumBlocks
    BY <1>1, <2>1, FramesShape
  <2>4. Succ(t) = IF t = NumBlocks - 1 THEN 0 ELSE t + 1
    BY SuccValue
  <2>5. (t + (k + 1) - 1) % NumBlocks = (Succ(t) + k - 1) % NumBlocks
    <3> DEFINE x == (t + (k + 1) - 1) % NumBlocks
               y == (Succ(t) + k - 1) % NumBlocks
    <3>1. /\ x = IF t + (k + 1) - 1 < NumBlocks THEN t + (k + 1) - 1 ELSE t + (k + 1) - 1 - NumBlocks
          /\ y = IF Succ(t) + k - 1 < NumBlocks THEN Succ(t) + k - 1 ELSE Succ(t) + k - 1 - NumBlocks
      BY <2>2, <2>3
    <3>2. t \in 0 .. NumBlocks - 1 /\ NumBlocks \in Nat
      BY NumBlocksType DEF Blocks
    <3> HIDE DEF x, y, f, g, n
    <3>3. k \in 1 .. NumBlocks - 2
      BY <1>1, <3>2
    <3>4. x = y
      BY <2>4, <3>1, <3>2, <3>3
    <3> QED
      BY <3>4 DEF x, y
  <2> QED
    BY <1>4, <2>2, <2>3, <2>5
<1> HIDE DEF f, g, n
<1>7. Tail(f) = g
  BY <1>2, <1>4, <1>6, SeqEqual
<1> QED
  BY <1>3, <1>5, <1>7 DEF f, g

\* Publishing a block.
LEMMA FramesPublish ==
    ASSUME NEW t \in Blocks, NEW h \in Blocks, Succ(h) # t, NEW b \in [Blocks -> [len : Nat, data : Nat]]
    PROVE  FramesBetween(t, Succ(h), b) = Append(FramesBetween(t, h, b), b[h].data)
<1> DEFINE f == FramesBetween(t, h, b)
           g == FramesBetween(t, Succ(h), b)
           n == Distance(t, h)
<1>1. n \in 0 .. NumBlocks - 1 /\ Succ(h) \in Blocks /\ Distance(t, Succ(h)) = n + 1 /\ n + 1 \in 0 .. NumBlocks - 1
  BY DistanceType, DistanceHead, SuccValue
<1>2. f \in Seq(Nat) /\ Len(f) = n /\ g \in Seq(Nat) /\ Len(g) = n + 1 /\ b[h].data \in Nat
  BY <1>1, FramesShape
<1>3. /\ Append(f, b[h].data) \in Seq(Nat) /\ Len(Append(f, b[h].data)) = n + 1
      /\ \A k \in 1 .. n : Append(f, b[h].data)[k] = f[k]
      /\ Append(f, b[h].data)[n + 1] = b[h].data
  BY <1>2, AppendProperties
<1>4. ASSUME NEW k \in 1 .. n PROVE g[k] = f[k]
  <2>1. k \in 1 .. Distance(t, Succ(h))
    BY <1>1
  <2> QED
    BY <1>1, <2>1, FramesShape
<1>5. g[n + 1] = b[h].data
  <2>1. n + 1 \in 1 .. Distance(t, Succ(h))
    BY <1>1
  <2>2. /\ g[n + 1] = b[(t + (n + 1) - 1) % NumBlocks].data
        /\ (t + (n + 1) - 1) % NumBlocks = IF t + (n + 1) - 1 < NumBlocks THEN t + (n + 1) - 1 ELSE t + (n + 1) - 1 - NumBlocks
    BY <1>1, <2>1, FramesShape
  <2>3. (t + (n + 1) - 1) % NumBlocks = h
    BY <2>2, NumBlocksType DEF Distance, Blocks
  <2> QED
    BY <2>2, <2>3
<1> HIDE DEF f, g, n
<1>6. \A k \in 1 .. n + 1 : g[k] = Append(f, b[h].data)[k]
  BY <1>1, <1>3, <1>4, <1>5
<1>7. g = Append(f, b[h].data)
  BY <1>2, <1>3, <1>6, SeqEqual
<1> QED
  BY <1>7 DEF f, g

\* Writing the block at the head, which is in no frame's way.
LEMMA FramesWrite ==
    ASSUME NEW t \in Blocks, NEW h \in Blocks, NEW b \in [Blocks -> [len : Nat, data : Nat]],
           NEW c \in [Blocks -> [len : Nat, data : Nat]], \A i \in Blocks : i # h => c[i] = b[i]
    PROVE  FramesBetween(t, h, c) = FramesBetween(t, h, b)
<1>1. ASSUME NEW k \in 1 .. Distance(t, h)
      PROVE  b[(t + k - 1) % NumBlocks].data = c[(t + k - 1) % NumBlocks].data
  <2>1. /\ (t + k - 1) % NumBlocks \in Blocks
        /\ (t + k - 1) % NumBlocks = IF t + k - 1 < NumBlocks THEN t + k - 1 ELSE t + k - 1 - NumBlocks
    BY FramesShape
  <2>2. (t + k - 1) % NumBlocks # h
    <3> DEFINE x == (t + k - 1) % NumBlocks
    <3>1. x = IF t + k - 1 < NumBlocks THEN t + k - 1 ELSE t + k - 1 - NumBlocks
      BY <2>1
    <3>2. t \in 0 .. NumBlocks - 1 /\ h \in 0 .. NumBlocks - 1 /\ NumBlocks \in Nat
      BY NumBlocksType DEF Blocks
    <3> HIDE DEF x
    <3>3. x # h
      BY <3>1, <3>2 DEF Distance
    <3> QED
      BY <3>3 DEF x
  <2> QED
    BY <2>1, <2>2
<1> QED
  BY <1>1 DEF FramesBetween

\* A frame in the listener's hand has a number, and no more frames arrive than there are.
HandInv == (InBlock => taken # 0) /\ frame <= MaxFrames

\* Every step keeps HandInv.
LEMMA HandStep == IInv /\ HandInv /\ [Next]_vars => HandInv'
<1> SUFFICES ASSUME IInv, HandInv, [Next]_vars PROVE HandInv'
  OBVIOUS
<1>0. TypeOK /\ QueueInv /\ MaxFrames \in Nat
  BY RingAssumption DEF IInv
<1>1. CASE RxRead
  BY <1>0, <1>1 DEF RxRead, HandInv, TypeOK, workerVars, InBlock
<1>2. CASE Take
  <2>1. tail \in Queued
    BY <1>0, <1>2, DistanceType DEF Take, TypeOK, Queued, Between
  <2>2. taken' > taken
    BY <1>0, <1>2, <2>1 DEF Take, TypeOK, QueueInv, Queued, Between
  <2> QED
    BY <1>0, <1>2, <2>2 DEF Take, HandInv, TypeOK, rxVars
<1>3. CASE PushRefuse \/ PushBegin \/ PushWriteLen \/ PushWriteData \/ PushPublish \/ RxExit
  BY <1>3 DEF PushRefuse, PushBegin, PushWriteLen, PushWriteData, PushPublish, RxExit, HandInv, workerVars, InBlock
<1>4. CASE WorkerLoop \/ WorkerBreak \/ ReadHeader \/ Callback \/ Release \/ StopRunning \/ UNCHANGED vars
  BY <1>4 DEF WorkerLoop, WorkerBreak, ReadHeader, Callback, Release, StopRunning, vars, HandInv, rxVars,
              workerVars, InBlock
<1> QED
  BY <1>1, <1>2, <1>3, <1>4 DEF Next, Rx, Worker

\* The abstract state that only some steps change.
LEMMA QueueUnchanged ==
    ASSUME UNCHANGED <<head, tail, block, frame>>, Writing' = Writing
    PROVE  WaitingFrames' = WaitingFrames
BY DEF WaitingFrames, FramesBetween, Distance

\* A frame is accepted, or displaces the oldest one.
LEMMA PushBeginRefines ==
    ASSUME IInv, HandInv, PushBegin
    PROVE  Abstract!Accept \/ Abstract!Displace
<1> DEFINE q == FramesBetween(tail, head, block)
<1>1. /\ head \in Blocks /\ tail \in Blocks /\ block \in [Blocks -> [len : Nat, data : Nat]]
      /\ processing \in Blocks \cup {-1} /\ frame \in Nat /\ MaxFrames \in Nat
  BY RingAssumption DEF IInv, TypeOK
<1>2. /\ rxpc = "push" /\ ~Writing /\ Writing' /\ Succ(head) # processing
      /\ frame' = frame /\ head' = head /\ block' = block /\ rxpc' = "writeLen"
      /\ UNCHANGED workerVars
  BY DEF PushBegin, Writing
<1>3. /\ ArrivedFrames = frame - 1 /\ ArrivedFrames' = frame /\ frame - 1 < MaxFrames
      /\ FrameInHand' = FrameInHand /\ DeliveredFrames' = DeliveredFrames
  BY <1>1, <1>2 DEF ArrivedFrames, FrameInHand, DeliveredFrames, HandInv, workerVars, InBlock
<1>4. /\ WaitingFrames = q /\ WaitingFrames' = Append(FramesBetween(tail', head, block), frame)
      /\ Len(q) = Distance(tail, head) /\ Distance(tail, head) \in 0 .. NumBlocks - 1
  BY <1>1, <1>2, FramesShape DEF WaitingFrames
<1>5. /\ Succ(head) \in Blocks /\ Succ(head) = IF head = NumBlocks - 1 THEN 0 ELSE head + 1
      /\ processing # -1 => Succ(processing) = IF processing = NumBlocks - 1 THEN 0 ELSE processing + 1
  BY <1>1, SuccValue
<1>6. /\ InBlock <=> processing # -1
      /\ InBlock => tail = Succ(processing)
      /\ head # processing
  BY DEF IInv, WorkerInv, HeadInv
<1> HIDE DEF q
<1>7. CASE Succ(head) # tail
  <2>1. tail' = tail
    BY <1>7 DEF PushBegin
  <2>2. Distance(tail, head) + (IF FrameInHand = 0 THEN 0 ELSE 1) < NumBlocks - 1
    <3>1. CASE ~InBlock
      BY <1>1, <1>5, <1>7, <3>1, NumBlocksType DEF FrameInHand, Distance, Blocks
    <3>2. CASE InBlock
      <4>1. /\ head \in 0 .. NumBlocks - 1 /\ processing \in 0 .. NumBlocks - 1 /\ NumBlocks \in Nat
            /\ processing # IF head = NumBlocks - 1 THEN 0 ELSE head + 1
            /\ tail = IF processing = NumBlocks - 1 THEN 0 ELSE processing + 1
            /\ head # processing /\ tail # IF head = NumBlocks - 1 THEN 0 ELSE head + 1
        BY <1>1, <1>2, <1>5, <1>6, <1>7, <3>2, NumBlocksType DEF Blocks
      <4>2. Distance(tail, head) < NumBlocks - 2
        BY <4>1 DEF Distance
      <4> QED
        BY <1>4, <4>1, <4>2
    <3> QED
      BY <3>1, <3>2
  <2> QED
    BY <1>1, <1>3, <1>4, <2>1, <2>2 DEF Abstract!Accept, Abstract!Occupied, q
<1>8. CASE Succ(head) = tail
  <2>1. tail' = Succ(tail) /\ tail # head
    BY <1>1, <1>8, SuccInjective DEF PushBegin
  <2>2. ~InBlock
    BY <1>1, <1>6, <1>8, SuccInjective
  <2>3. Distance(tail, head) = NumBlocks - 1
    BY <1>1, <1>5, <1>8, NumBlocksType DEF Distance, Blocks
  <2>4. FramesBetween(tail', head, block) = Tail(q)
    BY <1>1, <2>1, FramesTake DEF q
  <2> QED
    BY <1>1, <1>3, <1>4, <2>2, <2>3, <2>4 DEF Abstract!Displace, FrameInHand
<1> QED
  BY <1>7, <1>8

\* Check 1 loses the new frame while the listener is busy and the ring is full.
LEMMA PushRefuseRefines ==
    ASSUME IInv, HandInv, PushRefuse
    PROVE  Abstract!Refuse
<1>1. /\ head \in Blocks /\ tail \in Blocks /\ block \in [Blocks -> [len : Nat, data : Nat]]
      /\ frame \in Nat /\ MaxFrames \in Nat /\ Succ(head) = processing
  BY RingAssumption DEF IInv, TypeOK, PushRefuse
<1>2. /\ processing \in Blocks /\ processing # -1
      /\ processing = IF head = NumBlocks - 1 THEN 0 ELSE head + 1
  <2>1. processing \in Blocks /\ processing = IF head = NumBlocks - 1 THEN 0 ELSE head + 1
    BY <1>1, SuccValue
  <2> QED
    BY <2>1 DEF Blocks
<1>3. /\ InBlock /\ tail = Succ(processing) /\ FrameInHand # 0
      /\ Succ(processing) = IF processing = NumBlocks - 1 THEN 0 ELSE processing + 1
  BY <1>2, SuccValue DEF IInv, WorkerInv, HandInv, FrameInHand
<1>4. Distance(tail, head) = NumBlocks - 2
  <2>1. /\ head \in 0 .. NumBlocks - 1 /\ NumBlocks \in Nat /\ NumBlocks >= 2
        /\ processing = IF head = NumBlocks - 1 THEN 0 ELSE head + 1
        /\ tail = IF processing = NumBlocks - 1 THEN 0 ELSE processing + 1
    BY <1>1, <1>2, <1>3, NumBlocksType DEF Blocks
  <2> QED
    BY <2>1 DEF Distance
<1>5. Len(WaitingFrames) = NumBlocks - 2
  BY <1>1, <1>4, FramesShape DEF WaitingFrames, PushRefuse, Writing
<1>6. WaitingFrames' = WaitingFrames
  BY QueueUnchanged DEF PushRefuse, Writing, ring
<1>7. /\ ArrivedFrames = frame - 1 /\ ArrivedFrames' = frame /\ frame - 1 < MaxFrames
      /\ FrameInHand' = FrameInHand /\ DeliveredFrames' = DeliveredFrames
  BY <1>1 DEF PushRefuse, ArrivedFrames, FrameInHand, DeliveredFrames, HandInv, workerVars, InBlock
<1> QED
  BY <1>1, <1>3, <1>5, <1>6, <1>7, NumBlocksType DEF Abstract!Refuse, Abstract!Occupied

\* Taking a block is taking the oldest frame.
LEMMA TakeRefines ==
    ASSUME IInv, IInv', HandInv, HandInv', Take
    PROVE  Abstract!Take
<1>1. /\ head \in Blocks /\ tail \in Blocks /\ block \in [Blocks -> [len : Nat, data : Nat]] /\ tail # head
  BY DEF IInv, TypeOK, Take
<1>2. FrameInHand = 0 /\ FrameInHand' = block[tail].data
  BY DEF Take, FrameInHand, InBlock
<1>3. ~Writing /\ ~Writing'
  BY DEF Take, MutexFree, Writing, rxVars
<1>4. /\ WaitingFrames = FramesBetween(tail, head, block)
      /\ WaitingFrames' = FramesBetween(Succ(tail), head, block)
  BY <1>3 DEF WaitingFrames, Take
<1>5. ArrivedFrames' = ArrivedFrames /\ DeliveredFrames' = DeliveredFrames
  BY DEF Take, ArrivedFrames, DeliveredFrames, rxVars
<1> QED
  BY <1>1, <1>2, <1>4, <1>5, FramesTake DEF Abstract!Take

\* The callback delivers the frame in hand, which was not delivered before.
LEMMA CallbackRefines ==
    ASSUME IInv, HandInv, Callback
    PROVE  Abstract!Deliver
<1> DEFINE R == [len : Nat, data : Nat]
           e == [len |-> len, data |-> block[currentIndex].data]
           n == Len(delivered)
<1>1. /\ delivered \in Seq(R) /\ e \in R /\ InBlock /\ InBlock' /\ taken \in Nat
      /\ block[currentIndex].data = taken
  BY DEF IInv, TypeOK, TakenInv, Callback, InBlock
<1>2. FrameInHand = taken /\ FrameInHand' = taken /\ taken # 0
  BY <1>1 DEF FrameInHand, HandInv, Callback
<1>3. ArrivedFrames' = ArrivedFrames /\ WaitingFrames' = WaitingFrames
  BY QueueUnchanged DEF Callback, ArrivedFrames, rxVars, ring, Writing
<1>4. n \in Nat /\ DOMAIN delivered = 1 .. n /\ \A i \in 1 .. n : delivered[i] \in R
  BY <1>1, LenProperties
<1>5. \A i \in 1 .. n : delivered[i].data < taken
  BY <1>4 DEF IInv, DeliveredInv, Callback
<1>6. /\ delivered' \in Seq(R) /\ Len(delivered') = n + 1 /\ delivered'[n + 1] = e
      /\ \A i \in 1 .. n : delivered'[i] = delivered[i]
  BY <1>1, AppendProperties DEF Callback
<1>7. DOMAIN delivered' = 1 .. n + 1 /\ \A i \in 1 .. n + 1 : delivered'[i] \in R
  BY <1>4, <1>6, LenProperties
<1> DEFINE f == DeliveredFrames
           g == DeliveredFrames'
<1>8. f \in [1 .. n -> Nat] /\ \A i \in 1 .. n : f[i] = delivered[i].data
  BY <1>4 DEF DeliveredFrames
<1>9. g \in [1 .. n + 1 -> Nat] /\ \A i \in 1 .. n + 1 : g[i] = delivered'[i].data
  BY <1>7 DEF DeliveredFrames
<1> HIDE DEF f, g, n, R
<1>10. f \in Seq(Nat) /\ g \in Seq(Nat)
  BY <1>4, <1>8, <1>9, SeqDef
<1>11. Len(f) = n /\ Len(g) = n + 1
  BY <1>4, <1>8, <1>9, <1>10, LenProperties
<1>12. g = Append(f, taken)
  <2>1. /\ Append(f, taken) \in Seq(Nat) /\ Len(Append(f, taken)) = n + 1
        /\ \A i \in 1 .. n : Append(f, taken)[i] = f[i]
        /\ Append(f, taken)[n + 1] = taken
    BY <1>1, <1>10, <1>11, AppendProperties
  <2>2. ASSUME NEW i \in 1 .. n PROVE g[i] = Append(f, taken)[i]
    <3>1. i \in 1 .. n + 1
      BY <1>4
    <3>2. g[i] = delivered'[i].data /\ delivered'[i] = delivered[i] /\ f[i] = delivered[i].data
      BY <1>6, <1>8, <1>9, <3>1
    <3> QED
      BY <2>1, <3>2
  <2>3. g[n + 1] = taken
    <3>1. n + 1 \in 1 .. n + 1 /\ e.data = taken
      BY <1>1, <1>4
    <3> HIDE DEF e
    <3> QED
      BY <1>6, <1>9, <3>1
  <2>4. \A i \in 1 .. n + 1 : i \in 1 .. n \/ i = n + 1
    BY <1>4
  <2> QED
    BY <1>10, <1>11, <2>1, <2>2, <2>3, <2>4, SeqEqual
<1>13. \A i \in DOMAIN f : f[i] # taken
  BY <1>1, <1>4, <1>5, <1>8
<1> QED
  BY <1>2, <1>3, <1>12, <1>13 DEF Abstract!Deliver, f, g

\* Every step of the ring is a step of the queue, or changes nothing the queue shows.
LEMMA StepRefines ==
    IInv /\ IInv' /\ HandInv /\ HandInv' /\ [Next]_vars => [Abstract!Next]_(Abstract!vars)
<1> SUFFICES ASSUME IInv, IInv', HandInv, HandInv', [Next]_vars
             PROVE  Abstract!Next \/ UNCHANGED Abstract!vars
  BY DEF Abstract!vars
<1>0. /\ head \in Blocks /\ tail \in Blocks /\ block \in [Blocks -> [len : Nat, data : Nat]] /\ frame \in Nat
      /\ block' \in [Blocks -> [len : Nat, data : Nat]]
  BY DEF IInv, TypeOK
<1>1. CASE RxRead
  <2>1. WaitingFrames' = WaitingFrames
    BY <1>1 DEF RxRead, WaitingFrames, FramesBetween, Distance, Writing, ring
  <2>2. ArrivedFrames' = ArrivedFrames
    BY <1>0, <1>1 DEF RxRead, ArrivedFrames
  <2> QED
    BY <1>1, <2>1, <2>2 DEF RxRead, Abstract!vars, FrameInHand, DeliveredFrames, InBlock, workerVars
<1>2. CASE PushRefuse
  BY <1>2, PushRefuseRefines DEF Abstract!Next
<1>3. CASE PushBegin
  BY <1>3, PushBeginRefines DEF Abstract!Next
<1>4. CASE PushWriteLen \/ PushWriteData
  <2>1. head' = head /\ tail' = tail /\ frame' = frame /\ Writing /\ Writing' /\ UNCHANGED workerVars
    BY <1>4 DEF PushWriteLen, PushWriteData, Writing
  <2>2. \A i \in Blocks : i # head => block'[i] = block[i]
    BY <1>0, <1>4 DEF PushWriteLen, PushWriteData
  <2>3. FramesBetween(tail, head, block') = FramesBetween(tail, head, block)
    BY <1>0, <2>2, FramesWrite
  <2>4. WaitingFrames' = WaitingFrames
    BY <2>1, <2>3 DEF WaitingFrames
  <2>5. ArrivedFrames' = ArrivedFrames
    BY <1>4, <2>1 DEF ArrivedFrames, PushWriteLen, PushWriteData
  <2> QED
    BY <2>1, <2>4, <2>5 DEF Abstract!vars, FrameInHand, DeliveredFrames, InBlock, workerVars
<1>5. CASE PushPublish
  <2>1. /\ Writing /\ ~Writing' /\ head' = Succ(head) /\ UNCHANGED <<tail, block, frame, workerVars>>
        /\ ArrivedFrames' = ArrivedFrames
    BY <1>5 DEF PushPublish, Writing, ArrivedFrames
  <2>2. Succ(head) # tail /\ block[head].data = frame
    BY <1>5, <2>1 DEF IInv, HeadInv, WriteInv, PushPublish
  <2>3. WaitingFrames' = WaitingFrames
    BY <1>0, <2>1, <2>2, FramesPublish DEF WaitingFrames
  <2> QED
    BY <2>1, <2>3 DEF Abstract!vars, FrameInHand, DeliveredFrames, InBlock, workerVars
<1>6. CASE Take
  BY <1>6, TakeRefines DEF Abstract!Next
<1>7. CASE Callback
  BY <1>7, CallbackRefines DEF Abstract!Next
<1>8. CASE Release
  <2>1. WaitingFrames' = WaitingFrames /\ ArrivedFrames' = ArrivedFrames /\ DeliveredFrames' = DeliveredFrames
    BY <1>8, QueueUnchanged DEF Release, Writing, rxVars, ArrivedFrames, DeliveredFrames
  <2>2. FrameInHand # 0 /\ FrameInHand' = 0
    BY <1>8 DEF Release, FrameInHand, InBlock, HandInv
  <2> QED
    BY <2>1, <2>2 DEF Abstract!Next, Abstract!Release
<1>9. CASE RxExit \/ WorkerLoop \/ WorkerBreak \/ ReadHeader \/ StopRunning \/ UNCHANGED vars
  <2>1. UNCHANGED <<head, tail, block, frame, taken, delivered>> /\ Writing' = Writing /\ InBlock' = InBlock
    BY <1>9 DEF RxExit, WorkerLoop, WorkerBreak, ReadHeader, StopRunning, vars, ring, rxVars, workerVars,
                Writing, InBlock
  <2>2. ArrivedFrames' = ArrivedFrames
    BY <1>9, <2>1 DEF RxExit, WorkerLoop, WorkerBreak, ReadHeader, StopRunning, vars, rxVars, ArrivedFrames
  <2> QED
    BY <2>1, <2>2, QueueUnchanged DEF Abstract!vars, FrameInHand, DeliveredFrames
<1> QED
  BY <1>1, <1>2, <1>3, <1>4, <1>5, <1>6, <1>7, <1>8, <1>9 DEF Next, Rx, Worker

\* The empty ring is the empty queue.
LEMMA InitRefines == Init => Abstract!Init /\ HandInv
<1> SUFFICES ASSUME Init PROVE Abstract!Init /\ HandInv
  OBVIOUS
<1>1. HandInv
  BY RingAssumption DEF Init, HandInv, InBlock
<1>2. ArrivedFrames = 0 /\ FrameInHand = 0
  BY DEF Init, ArrivedFrames, FrameInHand, InBlock
<1>3. WaitingFrames = <<>>
  <2>1. head \in Blocks /\ tail \in Blocks /\ block \in [Blocks -> [len : Nat, data : Nat]]
    BY InitIInv DEF IInv, TypeOK
  <2>2. Distance(tail, head) = 0
    BY <2>1, DistanceType DEF Init
  <2>3. FramesBetween(tail, head, block) \in Seq(Nat) /\ Len(FramesBetween(tail, head, block)) = 0
    BY <2>1, <2>2, FramesShape
  <2>4. FramesBetween(tail, head, block) = <<>>
    BY <2>3, EmptySeq
  <2> QED
    BY <2>4 DEF WaitingFrames, Init, Writing
<1>4. DeliveredFrames = <<>>
  BY DEF Init, DeliveredFrames
<1> QED
  BY <1>1, <1>2, <1>3, <1>4 DEF Abstract!Init

\* CacheManager is the bounded queue that drops its oldest frame, or the newest one while
\* the listener is busy: whatever the two threads do, and whatever the sizes.
THEOREM RingImplementsDropQueue == Spec => ImplementsDropQueue
<1>1. IInv /\ HandInv /\ [Next]_vars => HandInv'
  BY HandStep
<1> QED
  BY <1>1, InitRefines, StepRefines, InductiveInvariant, PTL DEF Spec, ImplementsDropQueue, Abstract!Spec

-----------------------------------------------------------------------------
(* The queue, counted *)

\* The frames waiting are a sequence of numbers.
LEMMA WaitingType == IInv => WaitingFrames \in Seq(Nat)
<1> SUFFICES ASSUME IInv PROVE WaitingFrames \in Seq(Nat)
  OBVIOUS
<1>1. /\ head \in Blocks /\ tail \in Blocks /\ block \in [Blocks -> [len : Nat, data : Nat]] /\ frame \in Nat
  BY DEF IInv, TypeOK
<1>2. FramesBetween(tail, head, block) \in Seq(Nat)
  BY <1>1, FramesShape
<1> QED
  BY <1>1, <1>2, AppendProperties DEF WaitingFrames

\* Frames are numbered from 1, so the oldest one waiting is not the number of no frame.
LEMMA HeadIsAFrame ==
    ASSUME IInv, WaitingFrames # <<>>
    PROVE  Head(WaitingFrames) # 0
<1> DEFINE q == FramesBetween(tail, head, block)
<1>1. /\ head \in Blocks /\ tail \in Blocks /\ block \in [Blocks -> [len : Nat, data : Nat]]
      /\ frame \in Nat /\ taken \in Nat
  BY DEF IInv, TypeOK
<1>2. q \in Seq(Nat) /\ Len(q) = Distance(tail, head)
  BY <1>1, FramesShape
<1>3. CASE tail # head
  <2>1. q # <<>> /\ Head(q) = block[tail].data
    BY <1>1, <1>3, FramesTake
  <2>2. Distance(tail, tail) = 0 /\ Distance(tail, head) \in Nat /\ Distance(tail, head) # 0
    BY <1>1, <1>3, DistanceType, DistanceInjective DEF Distance
  <2>3. tail \in Queued
    BY <1>1, <2>2 DEF Queued, Between
  <2>4. block[tail].data # 0
    BY <1>1, <2>3 DEF IInv, QueueInv
  <2>5. Head(Append(q, frame)) = Head(q)
    BY <1>1, <1>2, <2>1, AppendProperties, HeadTailProperties, EmptySeq
  <2> QED
    BY <2>1, <2>4, <2>5 DEF WaitingFrames
<1>4. CASE tail = head
  <2>1. Len(q) = 0
    BY <1>1, <1>2, <1>4 DEF Distance, Blocks
  <2>2. q = <<>>
    BY <1>2, <2>1, EmptySeq
  <2>3. Writing /\ WaitingFrames = Append(<<>>, frame)
    BY <2>2 DEF WaitingFrames
  <2>4. frame # 0
    BY <1>1, <2>3 DEF IInv, TakenInv
  <2> QED
    BY <2>3, <2>4
<1> QED
  BY <1>3, <1>4

\* A step of the queue that drops changes the number of its frames as FrameCount says.
LEMMA QueueStepCounts ==
    ASSUME IInv, WaitingFrames \in Seq(Nat), ArrivedFrames' \in Nat, Abstract!Next
    PROVE  Count!Next \/ UNCHANGED Count!vars
<1> DEFINE q == WaitingFrames
<1>0. Len(q) \in Nat /\ NumBlocks - 1 \in Nat
  BY LenProperties, NumBlocksType
<1> USE DEF Count!Next, Count!Push, Count!Take, Count!GiveBack, Count!vars
<1>1. CASE Abstract!Accept
  <2>1. Len(q') = Len(q) + 1
    BY <1>1, AppendProperties DEF Abstract!Accept
  <2>2. FrameInHand' = FrameInHand /\ Len(q) + (IF FrameInHand = 0 THEN 0 ELSE 1) < NumBlocks - 1
    BY <1>1 DEF Abstract!Accept, Abstract!Occupied
  <2> HIDE DEF q
  <2> QED
    BY <1>0, <2>1, <2>2 DEF q
<1>2. CASE Abstract!Displace
  <2>1. Len(q) = NumBlocks - 1 /\ FrameInHand = 0 /\ FrameInHand' = 0 /\ q' = Append(Tail(q), ArrivedFrames')
    BY <1>2 DEF Abstract!Displace
  <2>2. q # <<>>
    BY <2>1, NumBlocksType, EmptySeq
  <2>3. Tail(q) \in Seq(Nat) /\ Len(Tail(q)) = Len(q) - 1
    BY <2>2, HeadTailProperties
  <2>4. Len(q') = Len(q)
    BY <1>0, <2>1, <2>3, AppendProperties
  <2> QED
    BY <2>1, <2>4
<1>3. CASE Abstract!Refuse \/ Abstract!Deliver
  <2>1. q' = q /\ FrameInHand' = FrameInHand
    BY <1>3 DEF Abstract!Refuse, Abstract!Deliver
  <2> QED
    BY <2>1
<1>4. CASE Abstract!Take
  <2>1. q # <<>> /\ FrameInHand = 0 /\ FrameInHand' = Head(q) /\ q' = Tail(q)
    BY <1>4 DEF Abstract!Take
  <2>2. Len(q) > 0 /\ Len(q') = Len(q) - 1
    BY <1>0, <2>1, HeadTailProperties, EmptySeq
  <2>3. FrameInHand' # 0
    BY <2>1, HeadIsAFrame
  <2> QED
    BY <2>1, <2>2, <2>3
<1>5. CASE Abstract!Release
  <2>1. q' = q /\ FrameInHand # 0 /\ FrameInHand' = 0
    BY <1>5 DEF Abstract!Release
  <2> QED
    BY <2>1
<1> QED
  BY <1>1, <1>2, <1>3, <1>4, <1>5 DEF Abstract!Next

\* The number of frames waiting in CacheManager, the one being written included, moves as
\* the count of CommunicationObj does.
THEOREM RingCountsFrames == Spec => CountsFrames
<1>1. Init => Count!Init
  <2>1. Init => WaitingFrames = <<>> /\ FrameInHand = 0
    BY InitRefines DEF Abstract!Init
  <2> QED
    BY <2>1, EmptySeq DEF Count!Init
<1>2. ASSUME IInv, IInv', HandInv, HandInv', [Next]_vars
      PROVE  [Count!Next]_(Count!vars)
  <2>1. WaitingFrames \in Seq(Nat)
    BY <1>2, WaitingType
  <2>2. CASE UNCHANGED Abstract!vars
    <3>1. WaitingFrames' = WaitingFrames /\ FrameInHand' = FrameInHand
      BY <2>2 DEF Abstract!vars
    <3> QED
      BY <3>1 DEF Count!vars
  <2>3. CASE Abstract!Next
    <3>1. frame' \in Nat /\ taken' \in Nat /\ (rxpc' = "push" => taken' < frame')
      BY <1>2 DEF IInv, TypeOK, TakenInv
    <3>2. ArrivedFrames' = IF rxpc' = "push" THEN frame' - 1 ELSE frame'
      BY DEF ArrivedFrames
    <3>4. ArrivedFrames' \in Nat
      <4> HIDE DEF ArrivedFrames
      <4>1. CASE rxpc' = "push"
        <5>1. \A n, k \in Nat : k < n => n - 1 \in Nat
          OBVIOUS
        <5>2. frame' - 1 \in Nat
          BY <3>1, <4>1, <5>1
        <5> QED
          BY <3>2, <4>1, <5>2
      <4>2. CASE rxpc' # "push"
        BY <3>1, <3>2, <4>2
      <4> QED
        BY <4>1, <4>2
    <3>3. Count!Next \/ UNCHANGED Count!vars
      BY <1>2, <2>1, <2>3, <3>4, QueueStepCounts
    <3> QED
      BY <3>3
  <2> QED
    BY <1>2, <2>2, <2>3, StepRefines
<1>3. IInv /\ HandInv /\ [Next]_vars => HandInv'
  BY HandStep
<1>4. Init => HandInv
  BY InitRefines
<1> QED
  BY <1>1, <1>2, <1>3, <1>4, InductiveInvariant, PTL DEF Spec, CountsFrames, Count!Spec
================================================================================
