----------------------------- MODULE UlService -----------------------------
(***************************************************************************)
(* What the uplink transport promises the application of an NB-Fi device:  *)
(* a message accepted by NBFi_Send5 gets at most one final verdict, and a  *)
(* message sent with a handshake is called DELIVERED only when the base    *)
(* station really has all of it.  NbfiTx is shown to implement this module *)
(* on the instances the README names.                                      *)
(***************************************************************************)
EXTENDS Naturals

CONSTANT Ids        \* identifiers NBFi_Queue_Next_UL hands out: 1 .. n

VARIABLES
    verdict,        \* Ids -> what NBFi_Get_UL_status would answer, condensed
    confirm,        \* ids accepted with a handshake: they wait for an ACK
    got             \* ids of which the base station has every fragment

svcVars == <<verdict, confirm, got>>

Init == /\ verdict = [id \in Ids |-> "NOTEXIST"]
        /\ confirm = {}
        /\ got = {}

\* NBFi_Send5 accepted a message; ids are given out in order.
Submit(id) ==
    /\ verdict[id] = "NOTEXIST"
    /\ \A i \in Ids : i < id => verdict[i] # "NOTEXIST"
    /\ verdict' = [verdict EXCEPT ![id] = "PENDING"]
    /\ confirm' \in {confirm, confirm \cup {id}}
    /\ UNCHANGED got

\* The last missing fragment reached the base station.
Arrive(id) ==
    /\ verdict[id] = "PENDING"
    /\ got' = got \cup {id}
    /\ UNCHANGED <<verdict, confirm>>

\* A handshake message is confirmed: only what the station has.
Confirm(id) ==
    /\ verdict[id] = "PENDING"
    /\ id \in confirm \cap got
    /\ verdict' = [verdict EXCEPT ![id] = "DELIVERED"]
    /\ UNCHANGED <<confirm, got>>

\* A message without handshake counts as delivered once it was on the air.
FireAndForget(id) ==
    /\ verdict[id] = "PENDING"
    /\ id \notin confirm
    /\ verdict' = [verdict EXCEPT ![id] = "DELIVERED"]
    /\ got' \in {got, got \cup {id}}
    /\ UNCHANGED confirm

\* The retries of a handshake message are used up.
GiveUp(id) ==
    /\ verdict[id] = "PENDING"
    /\ id \in confirm
    /\ verdict' = [verdict EXCEPT ![id] = "LOST"]
    /\ UNCHANGED <<confirm, got>>

Next == \E id \in Ids : \/ Submit(id)
                        \/ Arrive(id)
                        \/ Confirm(id)
                        \/ FireAndForget(id)
                        \/ GiveUp(id)

Spec == Init /\ [][Next]_svcVars
=============================================================================
