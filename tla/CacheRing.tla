------------------------------ MODULE CacheRing ------------------------------
(***************************************************************************)
(* CommunicationObj::CacheManager, the ring of blocks between the RX thread *)
(* (push) and the worker thread (process).                                  *)
(*                                                                          *)
(* push holds m_mutex from its first check to the notification, but the     *)
(* listener reads its block with no lock at all, so the writes of push are  *)
(* separate steps here: length header, payload, publication of the head.    *)
(* A block is modelled by the two things that can be torn apart: the frame  *)
(* its length header belongs to and the frame its payload belongs to.       *)
(* Frames are numbered in the order the RX thread reads them.               *)
(*                                                                          *)
(* The wait on the condition variable is one step here (the predicate holds *)
(* and the worker goes on); CommunicationObj.tla takes it apart.            *)
(***************************************************************************)
EXTENDS Integers, Sequences

CONSTANTS TotalSize,      \* bytes asked for by the owner (m_bufferSize)
          MaxFrameSize,   \* getMaxFrameSize() of the derived class
          MaxFrames       \* bound: frames read from the hardware

ASSUME RingAssumption == /\ TotalSize \in Nat
                         /\ MaxFrameSize \in Nat \ {0}
                         /\ MaxFrames \in Nat

\* (maxFrameSize + sizeof(uint32_t) + 3) & ~3
BlockSize == 4 * ((MaxFrameSize + 4 + 3) \div 4)

\* totalSize / m_blockSize, at least 2
NumBlocks == IF TotalSize \div BlockSize < 2 THEN 2 ELSE TotalSize \div BlockSize

Blocks == 0 .. NumBlocks - 1

\* (i + 1) % m_numBlocks
Succ(i) == (i + 1) % NumBlocks

VARIABLES
    head, tail,     \* m_head, m_tail
    processing,     \* m_processingIndex, -1 if none
    block,          \* m_buffer
    running,        \* CommunicationObj::m_running
    rxpc,           \* RX thread: between frames, in push's checks, writing, publishing
    frame,          \* RX thread: the frame in tempBuffer
    wpc,            \* worker thread
    currentIndex,   \* worker thread: currentIndex
    len,            \* worker thread: len, read from the block's header
    taken,          \* history: the frame that block held when it was taken
    delivered       \* history: what the listener saw, [len, data] per call

ring == <<head, tail, processing, block>>
rxVars == <<rxpc, frame>>
workerVars == <<wpc, currentIndex, len, taken, delivered>>
vars == <<ring, running, rxVars, workerVars>>

\* push keeps m_mutex over several steps; the worker's critical sections are one step.
Writing == rxpc \in {"writeLen", "writeData", "publish"}

MutexFree == ~Writing

InBlock == wpc \in {"header", "callback", "release"}

TypeOK ==
    /\ head \in Blocks /\ tail \in Blocks
    /\ processing \in Blocks \cup {-1}
    /\ block \in [Blocks -> [len : Nat, data : Nat]]
    /\ running \in BOOLEAN
    /\ rxpc \in {"loop", "push", "writeLen", "writeData", "publish", "done"}
    /\ frame \in Nat
    /\ wpc \in {"loop", "wait", "header", "callback", "release", "done"}
    /\ currentIndex \in Blocks
    /\ len \in Nat /\ taken \in Nat
    /\ delivered \in Seq([len : Nat, data : Nat])

Init ==
    /\ head = 0 /\ tail = 0 /\ processing = -1
    /\ block = [i \in Blocks |-> [len |-> 0, data |-> 0]]
    /\ running = TRUE
    /\ rxpc = "loop" /\ frame = 0
    /\ wpc = "loop" /\ currentIndex = 0 /\ len = 0 /\ taken = 0
    /\ delivered = <<>>

-----------------------------------------------------------------------------
(* The RX thread. *)

\* while (m_running) { bytesRead = read(...); if (bytesRead > 0) push(...) }
\* m_running may fall while read() blocks: the frame is pushed all the same.
RxRead ==
    /\ rxpc = "loop" /\ running
    /\ frame < MaxFrames
    /\ frame' = frame + 1
    /\ rxpc' = "push"
    /\ UNCHANGED <<ring, running, workerVars>>

\* Check 1: the next block is the one the listener is looking at: the new frame is lost.
PushRefuse ==
    /\ rxpc = "push"
    /\ Succ(head) = processing
    /\ rxpc' = "loop"
    /\ UNCHANGED <<ring, running, frame, workerVars>>

\* Mutant: no Check 1 before the block is overwritten.
PushBeginUnchecked ==
    /\ rxpc = "push"
    /\ tail' = IF Succ(head) = tail THEN Succ(tail) ELSE tail
    /\ rxpc' = "writeLen"
    /\ UNCHANGED <<head, processing, block, running, frame, workerVars>>

\* Mutant: a ring one short of full already drops its oldest frame.
PushBeginEager ==
    /\ rxpc = "push"
    /\ Succ(head) # processing
    /\ tail' = IF tail # head /\ Succ(Succ(head)) = tail THEN Succ(tail) ELSE tail
    /\ rxpc' = "writeLen"
    /\ UNCHANGED <<head, processing, block, running, frame, workerVars>>

\* Check 2: the ring is full: drop the oldest frame.  Then go on to write at head.
PushBegin ==
    /\ rxpc = "push"
    /\ Succ(head) # processing
    /\ tail' = IF Succ(head) = tail THEN Succ(tail) ELSE tail
    /\ rxpc' = "writeLen"
    /\ UNCHANGED <<head, processing, block, running, frame, workerVars>>

\* *(uint32_t*)ptr = length
PushWriteLen ==
    /\ rxpc = "writeLen"
    /\ block' = [block EXCEPT ![head].len = frame]
    /\ rxpc' = "writeData"
    /\ UNCHANGED <<head, tail, processing, running, frame, workerVars>>

\* memcpy(ptr + sizeof(uint32_t), data, length)
PushWriteData ==
    /\ rxpc = "writeData"
    /\ block' = [block EXCEPT ![head].data = frame]
    /\ rxpc' = "publish"
    /\ UNCHANGED <<head, tail, processing, running, frame, workerVars>>

\* Mutant: the head is not advanced.
PushPublishMissing ==
    /\ rxpc = "publish"
    /\ rxpc' = "loop"
    /\ UNCHANGED <<head, tail, processing, block, running, frame, workerVars>>

\* m_head = nextHead, notify_one, and the lock is released
PushPublish ==
    /\ rxpc = "publish"
    /\ head' = Succ(head)
    /\ rxpc' = "loop"
    /\ UNCHANGED <<tail, processing, block, running, frame, workerVars>>

\* The loop condition fails.
RxExit ==
    /\ rxpc = "loop" /\ ~running
    /\ rxpc' = "done"
    /\ UNCHANGED <<ring, running, frame, workerVars>>

Rx == RxRead \/ PushRefuse \/ PushBegin \/ PushWriteLen \/ PushWriteData
        \/ PushPublish \/ RxExit

-----------------------------------------------------------------------------
(* The worker thread. *)

\* while (running)
WorkerLoop ==
    /\ wpc = "loop"
    /\ wpc' = IF running THEN "wait" ELSE "done"
    /\ UNCHANGED <<ring, running, rxVars, currentIndex, len, taken, delivered>>

\* The wait returns because of !running: leave the loop.
WorkerBreak ==
    /\ wpc = "wait" /\ MutexFree
    /\ ~running
    /\ wpc' = "done"
    /\ UNCHANGED <<ring, running, rxVars, currentIndex, len, taken, delivered>>

\* Mutant: the block is handed out without being marked as in use.
TakeUnmarked ==
    /\ wpc = "wait" /\ MutexFree
    /\ running /\ head # tail
    /\ currentIndex' = tail
    /\ tail' = Succ(tail)
    /\ taken' = block[tail].data
    /\ wpc' = "header"
    /\ UNCHANGED <<head, processing, block, running, rxVars, len, delivered>>

\* The wait returns with a frame: mark its block as in use and take it off the queue.
Take ==
    /\ wpc = "wait" /\ MutexFree
    /\ running /\ head # tail
    /\ currentIndex' = tail
    /\ processing' = tail
    /\ tail' = Succ(tail)
    /\ taken' = block[tail].data
    /\ wpc' = "header"
    /\ UNCHANGED <<head, block, running, rxVars, len, delivered>>

\* len = *(uint32_t*)ptr and the second test of running, with no lock held
ReadHeader ==
    /\ wpc = "header"
    /\ len' = block[currentIndex].len
    /\ wpc' = IF running THEN "callback" ELSE "release"
    /\ UNCHANGED <<ring, running, rxVars, currentIndex, taken, delivered>>

\* listener.onDataReceived(ptr + 4, len) returns: it has read the payload in place.
Callback ==
    /\ wpc = "callback"
    /\ delivered' = Append(delivered, [len |-> len, data |-> block[currentIndex].data])
    /\ wpc' = "release"
    /\ UNCHANGED <<ring, running, rxVars, currentIndex, len, taken>>

\* m_processingIndex = -1 under the lock
Release ==
    /\ wpc = "release" /\ MutexFree
    /\ processing' = -1
    /\ wpc' = "loop"
    /\ UNCHANGED <<head, tail, block, running, rxVars, currentIndex, len, taken, delivered>>

Worker == WorkerLoop \/ WorkerBreak \/ Take \/ ReadHeader \/ Callback \/ Release

\* stop(), or the RX thread after a failed read(), lets m_running fall.
StopRunning ==
    /\ running
    /\ running' = FALSE
    /\ UNCHANGED <<ring, rxVars, workerVars>>

Next == Rx \/ Worker \/ StopRunning

Spec == Init /\ [][Next]_vars

\* The worker thread and a push() under way are scheduled, and the listener returns.
\* Nothing obliges the hardware to produce a frame.
FairSpec == /\ Spec
            /\ WF_vars(Worker)
            /\ WF_vars(PushRefuse \/ PushBegin \/ PushWriteLen \/ PushWriteData
                           \/ PushPublish)

-----------------------------------------------------------------------------
(* Properties. *)

\* How far block i lies behind block t, going round the ring.
Distance(t, i) == IF t <= i THEN i - t ELSE i + NumBlocks - t

\* The blocks from t up to, not including, h.
Between(t, h) == {i \in Blocks : Distance(t, i) < Distance(t, h)}

QueueLen == Distance(tail, head)
Queued == Between(tail, head)
InUse == IF processing = -1 THEN 0 ELSE 1

\* Zero-copy safety: indices stay inside the ring, and from the moment the worker has
\* taken a block until it gives the block back, header and payload stay those of the
\* frame it took, although push() keeps writing and the listener holds no lock.
ZeroCopySafe ==
    /\ TypeOK
    /\ InBlock => block[currentIndex] = [len |-> taken, data |-> taken]

\* No data race on a block: while push() writes a block the worker is not reading it.
NoBlockRace == Writing /\ InBlock => head # currentIndex

\* The listener sees frames in the order the hardware produced them, none of them
\* twice, and each with its own length, whatever was dropped in between.
DeliveredInOrder ==
    /\ \A i \in DOMAIN delivered : delivered[i].len = delivered[i].data
    /\ \A i, j \in DOMAIN delivered : i < j => delivered[i].data < delivered[j].data

\* A frame is lost only when every place but one is occupied: the refused frame
\* (Check 1) and the displaced one (Check 2) both find NumBlocks - 1 frames in the ring.
LostOnlyWhenFull ==
    [][(PushRefuse \/ (Writing' /\ ~Writing /\ tail' # tail))
            => QueueLen + InUse = NumBlocks - 1]_vars

\* Freshness: once push() has accepted a frame the listener is given that frame or a
\* newer one, unless the connection stops.  A burst can cost old frames, never the news.
Freshness ==
    \A f \in 1 .. MaxFrames :
        (Writing /\ frame = f)
            ~> (~running \/ \E i \in DOMAIN delivered : delivered[i].data >= f)

\* The inductive invariant behind the theorems of CacheRingProofs.

\* The block in use is the one just behind the tail, and only the worker sets it.
WorkerInv ==
    /\ InBlock <=> processing # -1
    /\ InBlock => processing = currentIndex /\ tail = Succ(processing)

\* The head is never the block in use; a push under way has room for its publication.
HeadInv ==
    /\ head # processing
    /\ Writing => Succ(head) # processing /\ Succ(head) # tail

\* How far along a push is.
WriteInv ==
    /\ rxpc = "writeData" => block[head].len = frame
    /\ rxpc = "publish" => block[head] = [len |-> frame, data |-> frame]

\* Every queued block is whole, newer than what was taken and older than what the RX
\* thread holds, and the queue is sorted.
QueueInv ==
    /\ \A i \in Queued : /\ block[i].len = block[i].data
                         /\ taken < block[i].data
                         /\ block[i].data <= frame
                         /\ rxpc = "push" \/ Writing => block[i].data < frame
    /\ \A i, j \in Queued :
            Distance(tail, i) < Distance(tail, j) => block[i].data < block[j].data

\* What the worker took.
TakenInv ==
    /\ taken <= frame
    /\ rxpc = "push" \/ Writing => taken < frame
    /\ InBlock => block[currentIndex] = [len |-> taken, data |-> taken]
    /\ wpc = "callback" => len = taken

\* What the listener has seen is no newer than what was taken, and older while the
\* frame in hand has not been delivered.
DeliveredInv ==
    \A i \in DOMAIN delivered :
        /\ delivered[i].data <= taken
        /\ wpc \in {"header", "callback"} => delivered[i].data < taken

IInv == TypeOK /\ WorkerInv /\ HeadInv /\ WriteInv /\ QueueInv /\ TakenInv
            /\ DeliveredInv /\ DeliveredInOrder

\* The frames in the blocks from t up to, not including, h, in the order of the blocks.
FramesBetween(t, h, b) == [k \in 1 .. Distance(t, h) |-> b[(t + k - 1) % NumBlocks].data]

\* The frames waiting, oldest first.  A frame counts from the moment push() has
\* decided to keep it.
WaitingFrames ==
    LET published == FramesBetween(tail, head, block)
    IN  IF Writing THEN Append(published, frame) ELSE published

ArrivedFrames == IF rxpc = "push" THEN frame - 1 ELSE frame
FrameInHand == IF InBlock THEN taken ELSE 0
DeliveredFrames == [i \in DOMAIN delivered |-> delivered[i].data]

Abstract == INSTANCE DropQueue WITH
    Capacity <- NumBlocks - 1,
    arrived <- ArrivedFrames,
    queue <- WaitingFrames,
    hand <- FrameInHand,
    delivered <- DeliveredFrames

\* The ring implements the bounded queue that drops its oldest frame, or the newest
\* one while the listener is busy.
ImplementsDropQueue == Abstract!Spec

Count == INSTANCE FrameCount
             WITH Places <- NumBlocks - 1, waiting <- Len(WaitingFrames), busy <- FrameInHand # 0

\* What the life cycle of a CommunicationObj knows of its ring.
CountsFrames == Count!Spec
=============================================================================
