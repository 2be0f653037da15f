------------------------------- MODULE BusLink -------------------------------
(***************************************************************************)
(* What a supervised CAN link promises, seen from the interface it uses: it *)
(* is down, up, stale (its interface was taken away and the socket does not *)
(* know it yet) or failing (given up, not yet closed).                      *)
(***************************************************************************)

VARIABLES net,    \* the CAN interface: none, down or up
          link,   \* the link
          on      \* the owner wants the link

linkVars == <<net, link, on>>

LinkInit == net \in {"none", "up"} /\ link = "down" /\ on = FALSE

Switch == on' = ~on /\ UNCHANGED <<net, link>>

\* open() succeeds
Connect == link = "down" /\ net # "none" /\ link' = "up" /\ UNCHANGED <<net, on>>

\* a read fails, or the owner stops the link
GiveUp ==
    /\ link = "stale" \/ (link = "up" /\ (net # "up" \/ ~on))
    /\ link' = "failing"
    /\ UNCHANGED <<net, on>>

\* the socket is closed
Drop == link = "failing" /\ link' = "down" /\ UNCHANGED <<net, on>>

\* the interface is created, set up, or taken away
InterfaceChange(new) ==
    /\ net' = new
    /\ link' = IF link = "up" /\ new = "none" THEN "stale" ELSE link
    /\ UNCHANGED on

LinkNext == Switch \/ Connect \/ GiveUp \/ Drop \/ \E new \in {"none", "down", "up"} : InterfaceChange(new)

LinkSpec == LinkInit /\ [][LinkNext]_linkVars
=============================================================================
