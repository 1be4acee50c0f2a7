------------------------------ MODULE DlService ------------------------------
(***************************************************************************)
(* What the downlink half of the transport layer promises the application: *)
(* it sees the base station's messages, whole, in the order they were      *)
(* offered, none of them twice.  Messages may be missing: the radio gives  *)
(* up after some tries, and the queue towards the application is short.    *)
(***************************************************************************)
EXTENDS Naturals

CONSTANT MaxOffers      \* bound: messages the base station ever offers

VARIABLES
    offered,    \* how many messages the base station has offered
    last        \* the message the application read last, 0 before the first

vars == <<offered, last>>

Init == offered = 0 /\ last = 0

Offer ==
    /\ offered < MaxOffers
    /\ offered' = offered + 1
    /\ UNCHANGED last

Read ==
    /\ \E m \in last + 1 .. offered : last' = m
    /\ UNCHANGED offered

Next == Offer \/ Read

Spec == Init /\ [][Next]_vars
=============================================================================
