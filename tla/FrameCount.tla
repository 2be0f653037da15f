------------------------------ MODULE FrameCount ------------------------------
(***************************************************************************)
(* How many frames wait in the ring of a CommunicationObj, which is all its *)
(* life cycle knows of them.  CacheRing.tla counts in this way; what        *)
(* CommunicationObj.tla does with its count is no more, but for the new     *)
(* ring that start() makes.                                                 *)
(***************************************************************************)
EXTENDS Naturals

CONSTANT Places     \* frames the ring can hold, the one in hand included

VARIABLES waiting,  \* frames the worker has not taken yet
          busy      \* the worker has taken one and not given its place back

vars == <<waiting, busy>>

Init == waiting = 0 /\ ~busy

\* A frame arrives.  With all places taken one frame is lost, the new one or the oldest.
Push == /\ waiting' = IF waiting + (IF busy THEN 1 ELSE 0) < Places THEN waiting + 1 ELSE waiting
        /\ busy' <=> busy

Take == ~busy /\ waiting > 0 /\ busy' /\ waiting' = waiting - 1

GiveBack == busy /\ ~busy' /\ waiting' = waiting

\* start() replaces the ring, which nobody uses then
Renew == ~busy /\ ~busy' /\ waiting' = 0

Next == Push \/ Take \/ GiveBack

Spec == Init /\ [][Next]_vars

RenewedSpec == Init /\ [][Next \/ Renew]_vars
=============================================================================
