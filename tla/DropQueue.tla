------------------------------ MODULE DropQueue ------------------------------
(***************************************************************************)
(* What CommunicationObj::CacheManager promises its two threads: a bounded  *)
(* queue of frames between the RX thread and the worker thread that never   *)
(* blocks the RX thread.  Frames are numbered in the order they arrive.     *)
(* The frame the listener is looking at still occupies its place.  When all *)
(* places are taken a new frame displaces the oldest queued one, unless the *)
(* listener is busy: then the new frame is the one that is lost.            *)
(***************************************************************************)
EXTENDS Naturals, Sequences

CONSTANTS Capacity,     \* places for frames, the one in hand included
          MaxFrames     \* bound: frames that arrive in one behaviour

VARIABLES arrived,      \* frames offered so far; the last one has this number
          queue,        \* frames waiting, oldest first
          hand,         \* the frame the listener is looking at, 0 if none
          delivered     \* frames the listener has been given, in order

vars == <<arrived, queue, hand, delivered>>

Occupied == Len(queue) + (IF hand = 0 THEN 0 ELSE 1)

Init == arrived = 0 /\ queue = <<>> /\ hand = 0 /\ delivered = <<>>

\* A frame arrives and finds a free place.
Accept == /\ arrived < MaxFrames
          /\ Occupied < Capacity
          /\ arrived' = arrived + 1
          /\ queue' = Append(queue, arrived')
          /\ UNCHANGED <<hand, delivered>>

\* A frame arrives, all places are taken, nobody is looking at one: the oldest goes.
Displace == /\ arrived < MaxFrames
            /\ hand = 0 /\ Len(queue) = Capacity
            /\ arrived' = arrived + 1
            /\ queue' = Append(Tail(queue), arrived')
            /\ UNCHANGED <<hand, delivered>>

\* A frame arrives, all places are taken, the listener is busy: the new one is lost.
Refuse == /\ arrived < MaxFrames
          /\ hand # 0 /\ Occupied = Capacity
          /\ arrived' = arrived + 1
          /\ UNCHANGED <<queue, hand, delivered>>

Take == /\ hand = 0 /\ queue # <<>>
        /\ hand' = Head(queue)
        /\ queue' = Tail(queue)
        /\ UNCHANGED <<arrived, delivered>>

\* The listener is given the frame, once.
Deliver == /\ hand # 0
           /\ \A i \in DOMAIN delivered : delivered[i] # hand
           /\ delivered' = Append(delivered, hand)
           /\ UNCHANGED <<arrived, queue, hand>>

\* The place becomes free; a frame taken as the connection stops was not delivered.
Release == /\ hand # 0
           /\ hand' = 0
           /\ UNCHANGED <<arrived, queue, delivered>>

Next == Accept \/ Displace \/ Refuse \/ Take \/ Deliver \/ Release

Spec == Init /\ [][Next]_vars
=============================================================================
