--------------------------- MODULE ListenerContract ---------------------------
(***************************************************************************)
(* What a CommunicationObj promises whoever starts and stops it, of the     *)
(* calls of its listener's onDataReceived: they come one at a time, none    *)
(* before it is started, and none is under way when stop has returned.      *)
(*                                                                          *)
(* CommunicationObj.tla implements this.  A module of a component that owns *)
(* such an object has its calls as steps of its own instead; of Sniffer.tla *)
(* it is shown that they are all the calls this allows and no others.       *)
(***************************************************************************)

VARIABLES active,   \* start has been called, and the stop after it has not returned
          calling   \* the listener is being called

vars == <<active, calling>>

Init == ~active /\ ~calling

\* start() or start_reconnectable_mode() is called
Open == ~active /\ ~calling /\ active' /\ ~calling'

Call == active /\ ~calling /\ active' /\ calling'

\* the listener returns, also after stop has begun
Return == active /\ calling /\ active' /\ ~calling'

\* stop() or stop_reconnectable_mode() returns
Close == active /\ ~calling /\ ~active' /\ ~calling'

Next == Open \/ Call \/ Return \/ Close

Spec == Init /\ [][Next]_vars
=============================================================================
