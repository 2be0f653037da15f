----------------------------- MODULE CanBusProofs -----------------------------
(***************************************************************************)
(* A CAN bus, whatever the number of process slots: no two slcand of one    *)
(* interface are alive together, none is left behind by stop(), and one     *)
(* that serves is never disturbed by the watchdog acting on what it saw     *)
(* before.  These hold if slcand is up within the 100 ms the watchdog gives *)
(* it (Prompt); what does not need that is proved without it.               *)
(***************************************************************************)
EXTENDS CanBus, TLAPS

-----------------------------------------------------------------------------
(* The inductive invariant *)

Holder(p) == proc[p] \in {"serving", "dying"}

\* The part of TypeOK that is about each variable for itself.
Typed ==
    /\ usb \in {"out", "in", "tty"} /\ net \in {"none", "down", "up"}
    /\ proc \in [Procs -> {"free", "forked", "started", "serving", "hung", "dying"}]
    /\ running \in BOOLEAN /\ owner \in {"new", "idle", "up", "join", "kill"}
    /\ wdpc \in {"none", "loop", "net", "gone", "active", "map", "kill", "spawn", "sleep", "wait", "exit"}
    /\ sawUsb \in BOOLEAN
    /\ status \in {"NONE", "USB DISCONNECTED", "MAPPING...", "INTERFACE UP", "USB FOUND, NO TTY", "ACTIVE"}

\* The interface belongs to one process, and to none without its terminal.
InterfaceInv ==
    /\ net # "none" <=> \E p \in Procs : Holder(p)
    /\ \A p, q \in Procs : Holder(p) /\ Holder(q) => p = q
    /\ \A p \in Procs : proc[p] = "serving" => usb = "tty"

\* The watchdog has a thread between start() and the join of stop().
OwnerInv == wdpc # "none" <=> owner \in {"up", "join"}

\* What the watchdog saw is still so when it acts: a slcand that is not yet serving is
\* started only while the watchdog sleeps, so none begins to serve behind its back.
MappingInv ==
    /\ \A p \in Procs : proc[p] \in {"forked", "started"} => wdpc = "sleep"
    /\ wdpc \in {"map", "kill"} => \A p \in Procs : proc[p] # "serving"
    /\ wdpc = "gone" \/ (wdpc = "net" /\ ~sawUsb) => \A p \in Procs : proc[p] # "serving"
    /\ wdpc = "spawn" \/ owner = "idle" => \A p \in Procs : ~Alive(p)
    /\ \A p, q \in Procs : Alive(p) /\ Alive(q) => p = q

IInv == Typed /\ InterfaceInv /\ OwnerInv /\ (Prompt => MappingInv)

-----------------------------------------------------------------------------

\* The invariant includes the type invariant.
LEMMA IInvTypeOK == IInv => TypeOK
<1>1. ASSUME InterfaceInv PROVE net # "none" <=> \E p \in Procs : proc[p] \in {"serving", "dying"}
  BY <1>1 DEF InterfaceInv, Holder
<1> QED
  BY <1>1, Zenon DEF IInv, Typed, TypeOK

\* At most one slcand is left by a service that crashed, and it is not just being started.
LEMMA InitIInv == Init => IInv
<1> SUFFICES ASSUME Init PROVE IInv
  OBVIOUS
<1> USE DEF Init
<1>1. Typed
  BY DEF Typed
<1>2. InterfaceInv
  BY DEF InterfaceInv, Holder
<1>3. OwnerInv
  BY DEF OwnerInv
<1>4. MappingInv
  BY DEF MappingInv, Alive
<1> QED
  BY <1>1, <1>2, <1>3, <1>4 DEF IInv

\* killExistingSlcand, process by process.
LEMMA KillEffect ==
    ASSUME Typed, KillExistingSlcand
    PROVE  /\ proc' \in [Procs -> {"free", "forked", "started", "serving", "hung", "dying"}]
           /\ \A p \in Procs : /\ proc'[p] = "dying" <=> Holder(p)
                               /\ proc'[p] = "forked" <=> proc[p] = "forked"
                               /\ proc'[p] \in {"free", "forked", "dying"}
<1>1. \A p \in Procs : proc[p] \in {"free", "forked", "started", "serving", "hung", "dying"}
  BY DEF Typed
<1>2. proc' = [p \in Procs |-> CASE proc[p] \in {"started", "hung"} -> "free"
                                 [] proc[p] = "serving" -> "dying"
                                 [] OTHER -> proc[p]]
  BY DEF KillExistingSlcand
<1>3. \A p \in Procs : /\ proc'[p] = "dying" <=> Holder(p)
                       /\ proc'[p] = "forked" <=> proc[p] = "forked"
                       /\ proc'[p] \in {"free", "forked", "dying"}
  BY <1>1, <1>2 DEF Holder
<1> QED
  BY <1>1, <1>2, <1>3

\* One process changes its state.
LEMMA BecomesEffect ==
    ASSUME Typed, NEW p \in Procs, NEW from,
           NEW to \in {"free", "forked", "started", "serving", "hung", "dying"}, Becomes(p, from, to)
    PROVE  /\ proc' \in [Procs -> {"free", "forked", "started", "serving", "hung", "dying"}]
           /\ proc[p] = from /\ proc'[p] = to
           /\ \A q \in Procs \ {p} : proc'[q] = proc[q]
BY DEF Typed, Becomes

\* A pulled adapter leaves nobody serving, and adds no slcand.
LEMMA UnplugEffect ==
    ASSUME Typed, Unplug
    PROVE  /\ proc' \in [Procs -> {"free", "forked", "started", "serving", "hung", "dying"}]
           /\ \A p \in Procs : /\ proc'[p] \notin {"serving", "dying"}
                               /\ proc'[p] \in {"forked", "started"} => proc'[p] = proc[p]
                               /\ proc'[p] = "hung" => proc[p] \in {"serving", "hung"}
<1>1. \A p \in Procs : proc[p] \in {"free", "forked", "started", "serving", "hung", "dying"}
  BY DEF Typed
<1>2. proc' = [p \in Procs |-> CASE proc[p] = "serving" -> "hung"
                                 [] proc[p] = "dying" -> "free"
                                 [] OTHER -> proc[p]]
  BY DEF Unplug
<1> QED
  BY <1>1, <1>2

-----------------------------------------------------------------------------
(* The invariant is inductive.  The steps are taken together by what they do to the
   processes and the interface: nothing, a kill, or a change of one process. *)

\* The steps that touch neither.
Aside == Plug \/ TtyAppears \/ Start \/ Stop \/ StopJoin \/ CheckUsb \/ CheckNet \/ Active
             \/ MapFound \/ MapNotFound \/ WaitEnds

Kill == StopKill \/ Gone \/ MapKill

\* Every step keeps the types.
LEMMA TypedStep == ASSUME IInv, Next PROVE Typed'
<1>0. Typed
  BY DEF IInv
<1>1. CASE Aside
  <2> USE <1>0 DEF Typed, world, thread, WdGoto, Report
  <2>1. CASE Plug \/ TtyAppears
    BY <2>1 DEF Plug, TtyAppears
  <2>2. CASE Start \/ Stop \/ StopJoin
    BY <2>2 DEF Start, Stop, StopJoin
  <2>3. CASE CheckUsb \/ CheckNet
    BY <2>3 DEF CheckUsb, CheckNet
  <2>4. CASE Active \/ MapFound \/ MapNotFound \/ WaitEnds
    BY <2>4 DEF Active, MapFound, MapNotFound, WaitEnds
  <2> QED
    BY <1>1, <2>1, <2>2, <2>3, <2>4 DEF Aside
<1>2. CASE Kill
  <2>1. proc' \in [Procs -> {"free", "forked", "started", "serving", "hung", "dying"}]
    BY <1>0, <1>2, KillEffect DEF Kill, StopKill, Gone, MapKill
  <2> QED
    BY <1>0, <1>2, <2>1 DEF Typed, Kill, StopKill, Gone, MapKill, thread, WdGoto, Report
<1>3. CASE Unplug
  <2>1. proc' \in [Procs -> {"free", "forked", "started", "serving", "hung", "dying"}]
    BY <1>0, <1>3, UnplugEffect
  <2> QED
    BY <1>0, <1>3, <2>1 DEF Typed, Unplug, thread
<1>4. CASE Spawn
  <2>1. proc' \in [Procs -> {"free", "forked", "started", "serving", "hung", "dying"}]
    BY <1>0, <1>4, BecomesEffect DEF Spawn, Typed
  <2> QED
    BY <1>0, <1>4, <2>1 DEF Typed, Spawn, WdGoto
<1>5. CASE IpLinkUp
  BY <1>0, <1>5 DEF Typed, IpLinkUp, Report, WdGoto
<1>6. ASSUME NEW p \in Procs, Slcand(p) PROVE Typed'
  <2>1. proc' \in [Procs -> {"free", "forked", "started", "serving", "hung", "dying"}]
    BY <1>0, <1>6, BecomesEffect DEF Slcand, SlcandExec, SlcandServes, SlcandFails, SlcandDies
  <2> QED
    BY <1>0, <1>6, <2>1 DEF Typed, Slcand, SlcandExec, SlcandServes, SlcandFails, SlcandDies, thread
<1> QED
  BY <1>1, <1>2, <1>3, <1>4, <1>5, <1>6 DEF Next, Watchdog, Aside, Kill

\* The interface comes with the one process that serves and goes with it.
LEMMA InterfaceStep == ASSUME IInv, Next PROVE InterfaceInv'
<1>0. Typed /\ InterfaceInv
  BY DEF IInv
<1>1. CASE Aside
  <2>1. proc' = proc /\ net' = net /\ (usb = "tty" => usb' = "tty")
    BY <1>1 DEF Aside, Plug, TtyAppears, Start, Stop, StopJoin, CheckUsb, CheckNet, Active,
                MapFound, MapNotFound, WaitEnds, world
  <2> QED
    BY <1>0, <2>1 DEF InterfaceInv, Holder
<1>2. CASE Kill
  <2>1. net' = net /\ KillExistingSlcand
    BY <1>2 DEF Kill, StopKill, Gone, MapKill
  <2>2. \A p \in Procs : /\ proc'[p] \in {"serving", "dying"} <=> proc[p] \in {"serving", "dying"}
                         /\ proc'[p] # "serving"
    BY <1>0, <2>1, KillEffect DEF Holder
  <2> QED
    BY <1>0, <2>1, <2>2 DEF InterfaceInv, Holder
<1>3. CASE Unplug
  BY <1>0, <1>3, UnplugEffect DEF InterfaceInv, Holder, Unplug
<1>4. CASE Spawn
  <2>1. net' = net /\ usb' = usb
    BY <1>4 DEF Spawn
  <2>2. \A p \in Procs : /\ proc'[p] \in {"serving", "dying"} <=> proc[p] \in {"serving", "dying"}
                         /\ proc'[p] = "serving" => proc[p] = "serving"
    <3>1. CASE UNCHANGED proc
      BY <3>1
    <3>2. ASSUME NEW p \in Procs, Becomes(p, "free", "forked")
          PROVE  \A q \in Procs : /\ proc'[q] \in {"serving", "dying"} <=> proc[q] \in {"serving", "dying"}
                                  /\ proc'[q] = "serving" => proc[q] = "serving"
      BY <1>0, <3>2, BecomesEffect
    <3> QED
      BY <1>4, <3>1, <3>2 DEF Spawn
  <2> QED
    BY <1>0, <2>1, <2>2 DEF InterfaceInv, Holder
<1>5. CASE IpLinkUp
  BY <1>0, <1>5 DEF InterfaceInv, Holder, IpLinkUp
<1>6. ASSUME NEW p \in Procs, SlcandExec(p) \/ SlcandFails(p) PROVE InterfaceInv'
  <2>1. net' = net /\ usb' = usb
    BY <1>6 DEF SlcandExec, SlcandFails
  <2>2. \A q \in Procs : /\ proc'[q] \in {"serving", "dying"} <=> proc[q] \in {"serving", "dying"}
                         /\ proc'[q] = "serving" => proc[q] = "serving"
    BY <1>0, <1>6, BecomesEffect DEF SlcandExec, SlcandFails
  <2> QED
    BY <1>0, <2>1, <2>2 DEF InterfaceInv, Holder
<1>7. ASSUME NEW p \in Procs, SlcandServes(p) PROVE InterfaceInv'
  <2>1. /\ net = "none" /\ net' = "down" /\ usb' = "tty"
        /\ proc'[p] = "serving" /\ \A q \in Procs \ {p} : proc'[q] = proc[q]
    BY <1>0, <1>7, BecomesEffect DEF SlcandServes
  <2> QED
    BY <1>0, <2>1 DEF InterfaceInv, Holder
<1>8. ASSUME NEW p \in Procs, SlcandDies(p) PROVE InterfaceInv'
  <2>1. /\ net' = "none" /\ usb' = usb /\ proc[p] = "dying"
        /\ proc'[p] = "free" /\ \A q \in Procs \ {p} : proc'[q] = proc[q]
    BY <1>0, <1>8, BecomesEffect DEF SlcandDies
  <2> QED
    BY <1>0, <2>1 DEF InterfaceInv, Holder
<1> QED
  BY <1>1, <1>2, <1>3, <1>4, <1>5, <1>6, <1>7, <1>8 DEF Next, Watchdog, Aside, Kill, Slcand

\* Only start() makes the thread, and only the join of stop() ends it.
LEMMA OwnerStep == ASSUME IInv, Next PROVE OwnerInv'
<1>0. OwnerInv
  BY DEF IInv
<1> USE DEF OwnerInv, world, thread, WdGoto, Report
<1>1. CASE Plug \/ TtyAppears \/ Unplug
  BY <1>0, <1>1 DEF Plug, TtyAppears, Unplug
<1>2. CASE Start \/ Stop \/ StopJoin \/ StopKill
  BY <1>0, <1>2 DEF Start, Stop, StopJoin, StopKill
<1>3. CASE Watchdog
  <2>1. owner' = owner /\ wdpc # "none" /\ wdpc' # "none"
    BY <1>3 DEF Watchdog, CheckUsb, CheckNet, Gone, Active, MapFound, MapNotFound, MapKill, Spawn,
                IpLinkUp, WaitEnds
  <2> QED
    BY <1>0, <2>1
<1>4. ASSUME NEW p \in Procs, Slcand(p) PROVE OwnerInv'
  BY <1>0, <1>4 DEF Slcand, SlcandExec, SlcandServes, SlcandFails, SlcandDies
<1> QED
  BY <1>1, <1>2, <1>3, <1>4 DEF Next

\* If slcand is prompt, what the watchdog saw is still so when it acts.
LEMMA MappingStep == ASSUME IInv, Next, Prompt PROVE MappingInv'
<1>0. Typed /\ InterfaceInv /\ OwnerInv /\ MappingInv
  BY DEF IInv
<1> USE DEF MappingInv, Alive
<1>1. CASE Plug \/ TtyAppears
  BY <1>0, <1>1 DEF Plug, TtyAppears, thread
<1>2. CASE Start \/ Stop \/ StopJoin
  <2>1. CASE Start
    BY <1>0, <2>1 DEF Start, OwnerInv, world
  <2>2. CASE Stop
    BY <1>0, <2>2 DEF Stop, world, thread
  <2>3. CASE StopJoin
    BY <1>0, <2>3 DEF StopJoin, OwnerInv, world
  <2> QED
    BY <1>2, <2>1, <2>2, <2>3
<1>3. CASE CheckUsb
  <2>1. ~sawUsb' => \A p \in Procs : proc[p] # "serving"
    BY <1>0, <1>3 DEF CheckUsb, InterfaceInv
  <2> QED
    BY <1>0, <1>3, <2>1 DEF CheckUsb, WdGoto, world
<1>4. CASE CheckNet
  <2>1. net = "none" => \A p \in Procs : proc[p] # "serving"
    BY <1>0 DEF InterfaceInv, Holder
  <2> QED
    BY <1>0, <1>4, <2>1 DEF CheckNet, WdGoto, world
<1>5. CASE Active \/ MapFound \/ MapNotFound \/ WaitEnds
  BY <1>0, <1>5 DEF Active, MapFound, MapNotFound, WaitEnds, WdGoto, Report, world
<1>6. CASE Kill
  <2>1. KillExistingSlcand /\ wdpc # "sleep"
    BY <1>0, <1>6 DEF Kill, StopKill, Gone, MapKill, WdGoto, Report, OwnerInv
  <2>2. \A p \in Procs : proc'[p] \in {"free", "dying"}
    BY <1>0, <2>1, KillEffect
  <2> QED
    BY <2>2
<1>7. CASE Unplug
  <2>1. \A p \in Procs : Alive(p)' => Alive(p)
    BY <1>0, <1>7, UnplugEffect
  <2>2. wdpc' = wdpc /\ owner' = owner
    BY <1>7 DEF Unplug, thread
  <2> QED
    BY <1>0, <1>7, <2>1, <2>2, UnplugEffect
<1>8. CASE Spawn
  <2>1. wdpc = "spawn" /\ wdpc' = "sleep" /\ owner' = owner /\ owner # "idle"
    BY <1>0, <1>8 DEF Spawn, WdGoto, OwnerInv
  <2>2. \A p \in Procs : ~Alive(p)
    BY <1>0, <2>1
  <2>3. CASE UNCHANGED proc
    BY <1>0, <2>1, <2>2, <2>3
  <2>4. ASSUME NEW p \in Procs, Becomes(p, "free", "forked") PROVE MappingInv'
    <3>1. \A q \in Procs \ {p} : proc'[q] = proc[q]
      BY <1>0, <2>4, BecomesEffect
    <3> QED
      BY <2>1, <2>2, <3>1
  <2> QED
    BY <1>8, <2>3, <2>4 DEF Spawn
<1>9. CASE IpLinkUp
  BY <1>0, <1>9 DEF IpLinkUp, WdGoto, Report
<1>10. ASSUME NEW p \in Procs, Slcand(p) PROVE MappingInv'
  <2>1. UNCHANGED <<owner, wdpc, sawUsb>>
    BY <1>10 DEF Slcand, SlcandExec, SlcandServes, SlcandFails, SlcandDies, thread
  <2>2. /\ \A q \in Procs \ {p} : proc'[q] = proc[q]
        /\ proc[p] \in {"forked", "started"} \/ proc'[p] = "free"
        /\ Alive(p)' => proc[p] \in {"forked", "started"}
    BY <1>0, <1>10, BecomesEffect DEF Slcand, SlcandExec, SlcandServes, SlcandFails, SlcandDies
  <2>3. CASE proc[p] \in {"forked", "started"}
    <3>1. wdpc = "sleep" /\ owner # "idle"
      BY <1>0, <2>3
    <3> QED
      BY <1>0, <2>1, <2>2, <2>3, <3>1
  <2>4. CASE proc'[p] = "free"
    BY <1>0, <2>1, <2>2, <2>4
  <2> QED
    BY <2>2, <2>3, <2>4
<1> QED
  BY <1>1, <1>2, <1>3, <1>4, <1>5, <1>6, <1>7, <1>8, <1>9, <1>10 DEF Next, Watchdog, Kill

\* No step of the adapter, the processes, the owner or the watchdog breaks the invariant.
LEMMA NextIInv == IInv /\ [Next]_vars => IInv'
<1>1. ASSUME IInv, Next PROVE IInv'
  BY <1>1, TypedStep, InterfaceStep, OwnerStep, MappingStep DEF IInv
<1>2. ASSUME IInv, UNCHANGED vars PROVE IInv'
  <2>0. UNCHANGED <<usb, net, proc, running, owner, wdpc, sawUsb, status>>
    BY <1>2 DEF vars, world, thread
  <2>1. Typed'
    <3>1. Typed
      BY <1>2 DEF IInv
    <3>2. running' \in BOOLEAN /\ sawUsb' \in BOOLEAN
      BY <2>0, <3>1, Zenon DEF Typed
    <3>3. proc' \in [Procs -> {"free", "forked", "started", "serving", "hung", "dying"}]
      BY <2>0, <3>1 DEF Typed
    <3> QED
      BY <2>0, <3>1, <3>2, <3>3 DEF Typed
  <2>2. InterfaceInv' /\ OwnerInv'
    BY <1>2, <2>0 DEF IInv, InterfaceInv, OwnerInv, Holder
  <2>3. Prompt => MappingInv'
    BY <1>2, <2>0 DEF IInv, MappingInv, Alive
  <2> QED
    BY <2>1, <2>2, <2>3 DEF IInv
<1> QED
  BY <1>1, <1>2

\* The invariant holds of every watchdog, prompt or not.
LEMMA InductiveInvariant == Spec => []IInv
BY InitIInv, NextIInv, PTL DEF Spec

-----------------------------------------------------------------------------
(* The composition: the link takes nothing from the watchdog, and the watchdog's view of
   the interface is all the link depends on. *)

\* Seen without its link, a bus behaves as the watchdog alone.
THEOREM BusRunsWatchdog == BusSpec => Spec
<1>1. BusInit => Init
  BY DEF BusInit
<1>2. [BusNext]_busVars => [Next]_vars
  BY DEF BusNext, busVars, WatchdogStep, SnifferStarts, SnifferStops, LinkConnect, LinkGivesUp, LinkDrops
<1> QED
  BY <1>1, <1>2, PTL DEF BusSpec, Spec

\* Seen without its watchdog, a bus is a link that keeps the promise of BusLink: whatever
\* plugging, pulling, slcand and the watchdog do to the interface is an interface change.
THEOREM BusRunsLink == BusSpec => Link!LinkSpec
<1>1. BusInit => Link!LinkInit
  BY DEF BusInit, Init, Link!LinkInit
<1>2. TypeOK /\ TypeOK' /\ [BusNext]_busVars => [Link!LinkNext]_(Link!linkVars)
  <2> SUFFICES ASSUME TypeOK, TypeOK', [BusNext]_busVars
               PROVE  [Link!LinkNext]_(Link!linkVars)
    OBVIOUS
  <2>1. CASE WatchdogStep
    BY <2>1 DEF WatchdogStep, TypeOK, Link!LinkNext, Link!linkVars
  <2>2. CASE SnifferStarts \/ SnifferStops
    BY <2>2 DEF SnifferStarts, SnifferStops, Link!LinkNext
  <2>3. CASE LinkConnect \/ LinkGivesUp \/ LinkDrops
    BY <2>3 DEF LinkConnect, LinkGivesUp, LinkDrops, Link!LinkNext
  <2>4. CASE UNCHANGED busVars
    BY <2>4 DEF busVars, vars, world, Link!linkVars
  <2> QED
    BY <2>1, <2>2, <2>3, <2>4 DEF BusNext
<1> QED
  BY <1>1, <1>2, IInvTypeOK, BusRunsWatchdog, InductiveInvariant, PTL DEF BusSpec, Link!LinkSpec

-----------------------------------------------------------------------------
(* The theorems *)

\* However the adapter is pulled and plugged, killExistingSlcand makes room before every
\* slcand the watchdog starts.
THEOREM NeverTwoSlcand ==
    ASSUME Prompt
    PROVE  BusSpec => []OneSlcand
<1>1. IInv => OneSlcand
  BY IInvTypeOK DEF IInv, MappingInv, OneSlcand
<1> QED
  BY <1>1, InductiveInvariant, BusRunsWatchdog, PTL

\* Once stop() has returned there is neither a thread nor a slcand that is not about to die.
THEOREM NothingLeftByStop ==
    ASSUME Prompt
    PROVE  BusSpec => []QuietAfterStop
<1>1. IInv => QuietAfterStop
  BY DEF IInv, OwnerInv, MappingInv, QuietAfterStop
<1> QED
  BY <1>1, InductiveInvariant, BusRunsWatchdog, PTL

\* The watchdog kills on what it saw a step or two before, and never a slcand that serves.
THEOREM ServiceUndisturbed ==
    ASSUME Prompt
    PROVE  BusSpec => ServingUndisturbed
<1> DEFINE A == \A p \in Procs : proc[p] = "serving" /\ proc'[p] # "serving" =>
                                    usb' = "out" \/ owner = "kill"
<1>1. IInv /\ [Next]_vars => [A]_vars
  <2> SUFFICES ASSUME IInv, Next PROVE A
    OBVIOUS
  <2> USE DEF IInv, Typed, MappingInv
  <2>1. CASE Plug \/ TtyAppears \/ Unplug
    BY <2>1 DEF Plug, TtyAppears, Unplug
  <2>2. CASE Start \/ Stop \/ StopJoin \/ StopKill
    BY <2>2 DEF Start, Stop, StopJoin, StopKill, world
  <2>3. CASE CheckUsb \/ CheckNet \/ Active \/ MapFound \/ MapNotFound \/ IpLinkUp \/ WaitEnds
    BY <2>3 DEF CheckUsb, CheckNet, Active, MapFound, MapNotFound, IpLinkUp, WaitEnds, world
  <2>4. CASE Gone \/ MapKill
    BY <2>4 DEF Gone, MapKill, Report, WdGoto
  <2>5. CASE Spawn
    BY <2>5 DEF Spawn, Becomes
  <2>6. ASSUME NEW p \in Procs, Slcand(p) PROVE A
    BY <2>6 DEF Slcand, SlcandExec, SlcandServes, SlcandFails, SlcandDies, Becomes
  <2> QED
    BY <2>1, <2>2, <2>3, <2>4, <2>5, <2>6 DEF Next, Watchdog
<1> QED
  BY <1>1, InductiveInvariant, BusRunsWatchdog, PTL DEF Spec, ServingUndisturbed
=============================================================================
