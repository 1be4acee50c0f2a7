------------------------------- MODULE NbfiTx -------------------------------
(***************************************************************************)
(* The uplink half of the NB-Fi transport layer (nbfi_transport.c,         *)
(* nbfi_transport_misc.c) against a lossy radio and a base station.        *)
(*                                                                         *)
(* Actors: the application in the main loop (Send5, ReportStatus, the      *)
(* sleep calls), the callbacks the scheduler runs in the loop interrupt    *)
(* (ProcessTasks, the three timers, TX_Finished, the parser of a received  *)
(* frame), and the base station.  The main-loop calls hold the loop-IRQ    *)
(* lock and callbacks do not preempt each other, so each handler is one    *)
(* action.                                                                 *)
(***************************************************************************)
EXTENDS NbfiTxBuffer, Sequences

CONSTANTS
    StatSize,       \* NBFI_SENT_STATUSES_BUF_SIZE, 16 in the code
    MaxMsgs,        \* bound: messages the application ever sends
    MaxPayload,     \* nbfi.max_payload_len, 8
    Lengths,        \* payload lengths the application uses
    FlagSets,       \* flag words it passes: sets of NBFI_UL_FLAG_ names
    Mode,           \* nbfi.mode while awake: "NRX" or "CRX"
    Handshake,      \* nbfi.handshake_mode = HANDSHAKE_SIMPLE
    SendOnStart,    \* NBFI_FLG_DO_NOT_SEND_PKTS_ON_START is clear
    LossPolicies,   \* what a lost packet may lead to, see GiveUp
    MaxHb,          \* nbfi.heartbeat_num
    MaxDl,          \* bound: downlink frames other than ACKs
    MaxNaps         \* bound: times the application puts the device to sleep

Ids   == 1 .. MaxMsgs
Flags == {"NOACK", "NO_RETRIES", "SAME_TX_ITER"}

ASSUME StatAssumption   == StatSize \in Nat \ {0} /\ MaxMsgs \in Nat
ASSUME LengthAssumption == /\ MaxPayload \in Nat /\ MaxPayload > 3
                           /\ Lengths \subseteq
                                  {l \in 0 .. 255 : l \div MaxPayload <= 30}
ASSUME FlagAssumption   == FlagSets \subseteq SUBSET Flags
ASSUME ModeAssumption   == /\ Mode \in {"NRX", "CRX"}
                           /\ Handshake \in BOOLEAN
                           /\ SendOnStart \in BOOLEAN
ASSUME LossAssumption   == /\ LossPolicies \subseteq {"keep", "sync", "requeue"}
                           /\ LossPolicies # {}
ASSUME BoundAssumption  == MaxHb \in Nat /\ MaxDl \in Nat /\ MaxNaps \in Nat

UlStatuses == {"NOTEXIST", "QUEUED", "INPROCESS", "DELIVERED", "LOST"}
Verdicts   == {"DELIVERED", "LOST"}

VARIABLES
    ring,           \* nbfi_TX_pktBuf, nbfi_TXbuf_head (and idle_pkt)
    active,         \* nbfi_active_pkt
    oldState,       \* nbfi_active_pkt_old_state
    ul,             \* NBFi_sent_UL_stat_Buf, by message id
    sentId,         \* sent_id
    ulIter,         \* nbfi_state.UL_iter modulo IterMod
    lastIter,       \* last_ul_iter of NBFi_Send5
    notAcked,       \* not_acked
    transmit,       \* transmit: the radio is sending
    waitReceive,    \* wait_Receive: dl_receive_desc is scheduled
    waitExtra,      \* wait_Extra: wait_for_extra_desc is scheduled
    waitClear,      \* wait_clear: wait_clear_desc is scheduled
    mode,           \* nbfi.mode: Mode or "OFF"
    hbLeft,         \* nbfi.heartbeat_num
    station,        \* the base station: the ITERs it holds, its pending reply
    frags,          \* history: ITERs of the fragments of each message
    confirm,        \* history: ids sent with a handshake that asks for ACKs
    heard,          \* history: <<packet id, ITER>> the base station received
    told,           \* history: the first two verdicts reported, per id
    dlLeft, napsLeft    \* what the bounds leave

devVars  == <<ring, active, oldState, ul, sentId, ulIter, lastIter, notAcked,
              transmit, waitReceive, waitExtra, waitClear, mode, hbLeft>>
histVars == <<frags, confirm, heard, told>>
vars     == <<devVars, station, histVars, dlLeft, napsLeft>>

NoReply == [type |-> "NONE", iter |-> 0, has |-> {}]
Replies == [type : {"NONE", "ACK", "ACK_ON_SYS"}, iter : Iters,
            has : SUBSET Iters]

-----------------------------------------------------------------------------
(***************************************************************************)
(* The status ring.  Ids are handed out in sequence, so the ring holds the *)
(* last StatSize of them; an older entry is overwritten and keeps, here,   *)
(* the status it had.  NBFi_Set_UL_Status compares 8 bits of the id and    *)
(* updates the oldest match.                                               *)
(***************************************************************************)
InRing(n) == {id \in Ids : id <= n /\ id > n - StatSize}

Matching(n, id8) == {id \in InRing(n) : id % IdMod = id8}

SetStatus(u, n, id8, st) ==
    [id \in Ids |->
        IF id \in Matching(n, id8) /\ \A i \in Matching(n, id8) : id <= i
        THEN [st |-> st, rep |-> FALSE]
        ELSE u[id]]

-----------------------------------------------------------------------------
(***************************************************************************)
(* NBFi_Send5 cuts a message into packets.  A message shorter than         *)
(* max_payload_len is one SHORT packet, one of exactly that length one     *)
(* DATA packet, a longer one a group whose first packet gives three bytes  *)
(* to the group header.                                                    *)
(***************************************************************************)
Fragments(len) ==
    IF len <= MaxPayload THEN 1
    ELSE (len + 3 + MaxPayload - 1) \div MaxPayload

\* Mutant: the ITER field is not masked.
Wrap_Unmasked(i) == i

Wrap(i) == i % IterMod

Asks(flags) == Handshake /\ "NOACK" \notin flags   \* packet->handshake
AckMode(m)  == m # "NRX"                           \* nbfi.mode >= DRX

\* Is the packet with iterator i, the only one of its message, an ACK packet?
AckTurn(i) == i % Mack = 0

\* Fragment j of n of a message; its ITER is first + j.
Fragment(id, len, flags, first, j, n, unacked, m) ==
    LET last == j = n - 1
        acks == Asks(flags) /\ AckMode(m) /\ last
                /\ (n > 1 \/ AckTurn(first))
    IN  [st    |-> "QUEUED",
         kind  |-> IF len < MaxPayload THEN "SHORT"
                   ELSE IF n > 1 /\ j = 0 THEN "START" ELSE "DATA",
         id    |-> id % IdMod,
         hs    |-> Asks(flags),
         ack   |-> acks,
         multi |-> n > 1,
         iter  |-> Wrap(first + j),
         mack  |-> IF acks THEN unacked + n ELSE 0,
         retry |-> IF "NO_RETRIES" \in flags THEN NoRetries ELSE 0,
         sent  |-> 0]

\* How many of n allocations in a row succeed.
Allocatable(r, n) ==
    LET blocked(j) == Blocked(r.pkt[(r.head + j) % TxSize])
        stop       == AnyOf({k \in 0 .. n - 1 :
                               blocked(k) /\ \A j \in 0 .. k - 1 : ~blocked(j)})
    IN  IF stop = None THEN n ELSE stop

-----------------------------------------------------------------------------
Init ==
    /\ ring = IF SendOnStart THEN SendClear(SendSync(EmptyRing, 0), 0)
              ELSE EmptyRing
    /\ active = Idle
    /\ oldState = "FREE"
    /\ ul = [id \in Ids |-> [st |-> "NOTEXIST", rep |-> FALSE]]
    /\ sentId = 0 /\ ulIter = 0 /\ lastIter = 0 /\ notAcked = 0
    /\ transmit = FALSE
    /\ waitReceive = FALSE /\ waitExtra = FALSE /\ waitClear = FALSE
    /\ mode = Mode
    /\ hbLeft = MaxHb
    /\ station = [holds |-> {}, reply |-> NoReply]
    /\ frags = [id \in Ids |-> {}]
    /\ confirm = {}
    /\ heard = {}
    /\ told = [id \in Ids |-> <<>>]
    /\ dlLeft = MaxDl /\ napsLeft = MaxNaps
-----------------------------------------------------------------------------
(***************************************************************************)
(* NBFi_Send5: the application hands over a message.  The free-slot count  *)
(* may turn a stale WAIT_ACK packet into a retransmission even when the    *)
(* message is refused.  An allocation that fails after the count passed    *)
(* leaves the fragments queued so far and the status entry behind.         *)
(***************************************************************************)
Send5(len, flags) ==
    LET free  == FreeSlots(ring, active, transmit)
        room  == IF len <= MaxPayload THEN free >= Mack + 3
                                      ELSE free >= len \div MaxPayload + 3
        r     == CountSweep(ring, active)
        id    == sentId + 1
        n     == Fragments(len)
        k     == Allocatable(r, n)
        first == IF "SAME_TX_ITER" \in flags /\ k > 0 THEN lastIter ELSE ulIter
        hs    == Asks(flags) /\ AckMode(mode)
        asked == n > 1 \/ AckTurn(first)
    IN  /\ sentId < MaxMsgs
        /\ IF ~room
           THEN /\ ring' = r
                /\ UNCHANGED <<ul, sentId, ulIter, lastIter, notAcked, frags, confirm>>
           ELSE /\ sentId' = id
                /\ ul' = [ul EXCEPT ![id] = [st |-> "QUEUED", rep |-> FALSE]]
                /\ ring' = [pkt  |-> [c \in Cells |->
                                        IF c \in Slots /\ Age(r.head, c) < k
                                        THEN Fragment(id, len, flags, first,
                                                      Age(r.head, c), n, notAcked, mode)
                                        ELSE r.pkt[c]],
                            head |-> (r.head + k) % TxSize]
                /\ ulIter' = Wrap(first + k)
                /\ lastIter' = IF k > 0 THEN Wrap(first + k - 1) ELSE lastIter
                /\ notAcked' = IF k < n \/ ~hs THEN notAcked
                               ELSE IF asked THEN 0 ELSE notAcked + 1
                /\ frags' = [frags EXCEPT ![id] = {Wrap(first + j) : j \in 0 .. k - 1}]
                /\ confirm' = IF hs THEN confirm \cup {id} ELSE confirm
        /\ UNCHANGED <<active, oldState, transmit, waitReceive, waitExtra,
                       waitClear, mode, hbLeft, station, heard, told, dlLeft, napsLeft>>

-----------------------------------------------------------------------------
(***************************************************************************)
(* NBFi_ProcessTasks.                                                      *)
(***************************************************************************)

\* The base station hears a frame, or not.  It answers a frame that asks for
\* an ACK with the ITERs it holds; CLEAR_EXT makes it forget them.
StationHears(p) ==
    LET holds == IF p.kind \in AppKinds THEN station.holds \cup {p.iter}
                 ELSE IF p.kind = "CLEAR_EXT" THEN {}
                 ELSE station.holds
        reply == IF ~p.ack THEN station.reply
                 ELSE IF p.kind \in AppKinds
                 THEN [type |-> "ACK", iter |-> p.iter, has |-> holds]
                 ELSE [type |-> "ACK_ON_SYS", iter |-> p.iter, has |-> {}]
    IN  /\ station' = [holds |-> holds, reply |-> reply]
        /\ heard' = IF p.kind \in AppKinds
                    THEN heard \cup {<<p.id, p.iter>>} ELSE heard

Air(p) == \/ StationHears(p)
          \/ UNCHANGED <<station, heard>>

\* Mutants: an ACK packet is not waited for; every packet is waited for.
StateOnAir_NoWait(p) == IF ~p.hs \/ ~AckMode(mode) \/ p.ack THEN "SENT"
                        ELSE "SENT_NOACKED"
StateOnAir_WaitAlways(p) == IF ~AckMode(mode) THEN "SENT" ELSE "WAIT_ACK"

\* The state a packet is put in when it is handed to the MAC; "SENT" packets
\* are reported DELIVERED and freed by the same handler.
StateOnAir(p) ==
    IF ~p.hs \/ ~AckMode(mode) THEN "SENT"
    ELSE IF p.ack THEN "WAIT_ACK" ELSE "SENT_NOACKED"

Bump(n) == IF n < MaxSent THEN n + 1 ELSE n

\* Mutant: a packet that asked for a handshake is reported but not freed.
AfterAir_NotFreed(p) ==
    IF StateOnAir(p) = "SENT" THEN (IF p.hs THEN p ELSE FreePkt)
    ELSE [p EXCEPT !.st = StateOnAir(p), !.sent = Bump(@)]

AfterAir(p) ==
    IF StateOnAir(p) = "SENT" THEN FreePkt
    ELSE [p EXCEPT !.st = StateOnAir(p), !.sent = Bump(@)]

Transmit(r, s) ==
    LET p     == r.pkt[s]
        st    == StateOnAir(p)
        r1    == SetPkt(r, s, AfterAir(p))
        looks == ~p.ack /\ IsSystem(p)        \* MULTI flag: more to come?
        more  == Queued(r1, s) # None
        r2    == IF looks THEN Sweep(r1, s) ELSE r1
        u     == SetStatus(ul, sentId, p.id, "INPROCESS")
    IN  /\ ring' = IF looks /\ st # "SENT"
                   THEN [r2 EXCEPT !.pkt[s].multi = more] ELSE r2
        /\ waitClear' = (looks /\ ~more /\ p.kind = "ACK" /\ p.multi)
        /\ waitReceive' = (waitReceive \/ st = "WAIT_ACK")
        /\ ul' = IF st = "SENT" THEN SetStatus(u, sentId, p.id, "DELIVERED") ELSE u
        /\ active' = IF st = "SENT" THEN Idle ELSE s
        /\ transmit' = TRUE
        /\ Air(p)

\* The radio is free and the active packet does not wait for anything.
SendNext ==
    LET s == Queued(ring, active)
    IN  /\ mode # "OFF"
        /\ ~transmit /\ ~waitClear
        /\ ring.pkt[active].st \notin {"WAIT_ACK", "WAIT_FOR_EXTRA_PACKETS"}
        /\ s # None
        /\ Transmit(Sweep(ring, active), s)
        /\ UNCHANGED <<oldState, sentId, ulIter, lastIter, notAcked, waitExtra,
                       mode, hbLeft, frags, confirm, told, dlLeft, napsLeft>>

\* The active packet waits and its timer is not running: start it.
ArmTimer ==
    /\ mode # "OFF"
    /\ ~transmit /\ ~waitClear
    /\ \/ /\ ring.pkt[active].st = "WAIT_ACK"
          /\ ~waitReceive
          /\ waitReceive' = TRUE
          /\ UNCHANGED waitExtra
       \/ /\ ring.pkt[active].st = "WAIT_FOR_EXTRA_PACKETS"
          /\ ~waitExtra
          /\ waitExtra' = TRUE
          /\ UNCHANGED waitReceive
    /\ UNCHANGED <<ring, active, oldState, ul, sentId, ulIter, lastIter, notAcked,
                   transmit, waitClear, mode, hbLeft, station, histVars, dlLeft, napsLeft>>

ClearTx(r) == [r EXCEPT !.pkt = [c \in Cells |-> IF c = Idle THEN r.pkt[c] ELSE FreePkt]]

\* In OFF mode the handler only empties the transmit buffer.
ProcessOff ==
    /\ mode = "OFF"
    /\ ring' = ClearTx(ring)
    /\ active' = Idle
    /\ UNCHANGED <<oldState, ul, sentId, ulIter, lastIter, notAcked, transmit,
                   waitReceive, waitExtra, waitClear, mode, hbLeft, station,
                   histVars, dlLeft, napsLeft>>

\* NBFi_TX_Finished, from the radio driver or noticed by NBFi_ProcessTasks.
TxFinished ==
    /\ transmit
    /\ transmit' = FALSE
    /\ ring' = IF ring.pkt[active].ack THEN ring ELSE Sweep(ring, active)
    /\ UNCHANGED <<active, oldState, ul, sentId, ulIter, lastIter, notAcked,
                   waitReceive, waitExtra, waitClear, mode, hbLeft, station,
                   histVars, dlLeft, napsLeft>>

-----------------------------------------------------------------------------
(***************************************************************************)
(* What a lost packet leads to, by configuration: "keep" leaves the        *)
(* settings alone (NBFI_FLG_NO_RESET_TO_DEFAULTS); "sync" returns to the   *)
(* defaults that were in use anyway, with no alternative radio setting     *)
(* left to try; "requeue" changes the settings (back to the defaults, or   *)
(* to an alternative) and queues the packet once more.  After a change of  *)
(* settings a SYNC packet is queued.                                       *)
(***************************************************************************)
AfterLoss(r, policy) ==
    IF policy = "keep" THEN r ELSE SendSync(r, ulIter)

\* Mutants: the limit is compared before the increment; the packet is given up
\* one try early; the packet given up is not closed.
TimeoutRetry_OneMore ==
    /\ ring.pkt[active].retry <= MaxRetry
    /\ ring' = [ring EXCEPT !.pkt[active].retry = @ + 1,
                            !.pkt[active].st = "QUEUED_AGAIN"]
    /\ UNCHANGED ul

TimeoutLost_Early(policy) ==
    /\ ring.pkt[active].retry + 1 >= MaxRetry
    /\ ul' = SetStatus(ul, sentId, ring.pkt[active].id, "LOST")
    /\ ring' = AfterLoss(CloseActive(ring, active), policy)

TimeoutLost_NotClosed(policy) ==
    /\ ring.pkt[active].retry + 1 > MaxRetry
    /\ ul' = SetStatus(ul, sentId, ring.pkt[active].id, "LOST")
    /\ ring' = AfterLoss(ring, policy)

\* NBFi_Receive_Timeout_cb: no ACK came.
TimeoutRetry ==
    /\ ring.pkt[active].retry + 1 <= MaxRetry
    /\ ring' = [ring EXCEPT !.pkt[active].retry = @ + 1,
                            !.pkt[active].st = "QUEUED_AGAIN"]
    /\ UNCHANGED ul

TimeoutLost(policy) ==
    LET r1 == CloseActive([ring EXCEPT !.pkt[active].retry = @ + 1], active)
        r2 == IF policy = "requeue"
              THEN [r1 EXCEPT !.pkt[active].retry = 0, !.pkt[active].st = "QUEUED"]
              ELSE r1
    IN  /\ ring.pkt[active].retry + 1 > MaxRetry
        /\ ul' = SetStatus(ul, sentId, ring.pkt[active].id, "LOST")
        /\ ring' = AfterLoss(r2, policy)

ReceiveTimeout ==
    /\ waitReceive
    /\ waitReceive' = FALSE
    /\ IF ring.pkt[active].st # "WAIT_ACK" THEN UNCHANGED <<ring, ul>>
       ELSE TimeoutRetry \/ \E policy \in LossPolicies : TimeoutLost(policy)
    /\ UNCHANGED <<active, oldState, sentId, ulIter, lastIter, notAcked, transmit,
                   waitExtra, waitClear, mode, hbLeft, station, histVars,
                   dlLeft, napsLeft>>

-----------------------------------------------------------------------------
(***************************************************************************)
(* NBFi_Resend_Pkt walks back from the ITER of the active packet over its  *)
(* ACK window: step k stands for ITER - k, and "has" is the set of ITERs   *)
(* the ACK mask reports.  The walk ends early at an ITER no sent packet    *)
(* carries, and at a fragment whose retries are used up.                   *)
(***************************************************************************)
AckWindow(r, a) == 0 .. r.pkt[a].mack - 1

At(r, a, k) == SentByIter(r, (r.pkt[a].iter - k) % IterMod)

\* Mutant: the mask is not shifted past the ITER of the ACK itself.
Missing_Unshifted(r, a, has, k) ==
    k > 0 /\ (r.pkt[a].iter - k - 1) % IterMod \notin has

Missing(r, a, has, k) == k > 0 /\ (r.pkt[a].iter - k) % IterMod \notin has

WornOut(r, a, has, k) ==
    /\ Missing(r, a, has, k)
    /\ r.pkt[At(r, a, k)].retry + 1 > MaxRetry

Stops(r, a, has) ==
    {k \in AckWindow(r, a) : At(r, a, k) = None \/ WornOut(r, a, has, k)}

Walked(r, a, has) ==
    {k \in AckWindow(r, a) : \A j \in Stops(r, a, has) : k < j}

\* The steps (none or one) at which the walk gave a fragment up.
GivenUp(r, a, has) ==
    {k \in Stops(r, a, has) :
        /\ At(r, a, k) # None
        /\ \A j \in Stops(r, a, has) : k <= j}

Absent(r, a, has) == {k \in Walked(r, a, has) : Missing(r, a, has, k)}

FirstAbsent(r, a, has) ==
    AnyOf({k \in Absent(r, a, has) : \A j \in Absent(r, a, has) : k <= j})

\* The bits of the mask the walk looks at.  For a packet without a window the
\* loop that selects them starts at 0 - 1, which is 255, and selects them all.
Selection(r, a) ==
    IF r.pkt[a].mack = 0 THEN 0 .. IterMod - 1 ELSE AckWindow(r, a)

\* Bits still set in the mask after the walk.
LeftOver(r, a, has) ==
    {k \in Selection(r, a) \ (Walked(r, a, has) \cup GivenUp(r, a, has)) :
        Missing(r, a, has, k)}

\* The packets after the walk.
Marked(r, a, has) ==
    [r EXCEPT !.pkt = [c \in Cells |->
        IF \E k \in Absent(r, a, has) : At(r, a, k) = c
        THEN [r.pkt[c] EXCEPT !.st = "QUEUED_AGAIN", !.retry = @ + 1]
        ELSE IF \E k \in Walked(r, a, has) : At(r, a, k) = c
        THEN [r.pkt[c] EXCEPT !.st = "DELIVERED"]
        ELSE IF \E k \in GivenUp(r, a, has) : At(r, a, k) = c
        THEN [r.pkt[c] EXCEPT !.retry = @ + 1]
        ELSE r.pkt[c]]]

GaveUpStatus(r, a, has, u) ==
    IF GivenUp(r, a, has) = {} THEN u
    ELSE LET k == CHOOSE k \in GivenUp(r, a, has) : TRUE
         IN  SetStatus(u, sentId, r.pkt[At(r, a, k)].id, "LOST")

\* Mutant: the window of the next ACK is the resent fragment alone.
AskAgain_Alone(r, a, s) ==
    [r EXCEPT !.pkt[s].ack = TRUE, !.pkt[s].mack = 1]

\* The newest fragment to be resent asks for the next ACK, with the window
\* that is left (mack_num & 0x3f).
AskAgain(r, a, s) ==
    [r EXCEPT !.pkt[s].ack = TRUE,
              !.pkt[s].mack =
                  (r.pkt[a].mack - ((r.pkt[a].iter - r.pkt[s].iter) % IterMod)) % 64]

Resend(r, a, has, policy) ==
    LET r1 == IF GivenUp(r, a, has) = {} THEN Marked(r, a, has)
              ELSE AfterLoss(CloseActive(Marked(r, a, has), a), policy)
        u1 == GaveUpStatus(r, a, has, ul)
        k0 == FirstAbsent(r, a, has)
        r2 == IF LeftOver(r, a, has) = {} THEN SendClear(r1, r1.pkt[a].iter) ELSE r1
    IN  IF k0 # None
        THEN [ring |-> AskAgain(r1, a, At(r, a, k0)), ul |-> u1]
        ELSE [ring |-> r2, ul |-> SetStatus(u1, sentId, r2.pkt[a].id, "DELIVERED")]

-----------------------------------------------------------------------------
(***************************************************************************)
(* NBFi_ParseReceivedPacket, by kind of frame.  Every frame cancels the    *)
(* two reception timers, gives the active packet its state back, and ends  *)
(* with a look at the queue.                                               *)
(***************************************************************************)
Restored(r) ==
    IF r.pkt[active].st = "WAIT_FOR_EXTRA_PACKETS"
    THEN SetSt(r, active, oldState) ELSE r

LookAtQueue(r, a) ==
    LET q  == Queued(r, a)
        r1 == Sweep(r, a)
    IN  IF q # None /\ r1.pkt[q].kind = "CLEAR_EXT"
        THEN CountSweep(r1, a) ELSE r1

\* Mutants: an ACK with any ITER, or in any state, is accepted.
AckAccepted_AnyIter(r, reply) == r.pkt[active].st = "WAIT_ACK"
AckAccepted_AnyState(r, reply) == r.pkt[active].iter = reply.iter

\* SYSTEM_PACKET_ACK and SYSTEM_PACKET_ACK_ON_SYS.
AckAccepted(r, reply) ==
    /\ r.pkt[active].st = "WAIT_ACK"
    /\ r.pkt[active].iter = reply.iter

\* A packet without a window is delivered by either; only the first one
\* carries a mask.
TakeAck(r, reply, policy) ==
    LET r1 == IF r.pkt[active].mack = 0 THEN SetSt(r, active, "DELIVERED") ELSE r
    IN  IF reply.type = "ACK" THEN Resend(r1, active, reply.has, policy)
        ELSE [ring |-> r1, ul |-> ul]

\* The base station sends ACKs and system frames without the MULTI bit, so the
\* start of the wait for extra packets (nbfi_transport.c:577-588) is left to
\* RxMessage; the other branch, the restored state, is part of each.
RxAck ==
    LET r == Restored(ring)
        reply == station.reply
    IN  /\ mode = "CRX"
        /\ reply.type # "NONE"
        /\ station' = [station EXCEPT !.reply = NoReply]
        /\ waitClear' = FALSE
        /\ waitExtra' = FALSE
        /\ IF AckAccepted(r, reply)
           THEN /\ waitReceive' = FALSE
                /\ \E policy \in LossPolicies :
                     LET done == TakeAck(r, reply, policy)
                     IN  /\ ring' = LookAtQueue(done.ring, active)
                         /\ ul' = done.ul
           ELSE /\ ring' = LookAtQueue(r, active)
                /\ UNCHANGED <<waitReceive, ul>>
        /\ UNCHANGED <<active, oldState, sentId, ulIter, lastIter, notAcked, transmit,
                       mode, hbLeft, histVars, dlLeft, napsLeft>>

\* Other system frames: the configuration parser may ask for an answer, and
\* a frame with the ACK bit is acknowledged unless an ACK_ON_SYS is queued.
RxSystem(answer, ack) ==
    LET r1 == Restored(ring)
        r2 == IF answer THEN Alloc(r1, SysPkt("CONFIG", "NEED_TO_SEND_RIGHT_NOW", 0)) ELSE r1
        r3 == IF ack /\ SysQueued(r2, "ACK_ON_SYS") = {}
              THEN Alloc(r2, SysPkt("ACK_ON_SYS", "NEED_TO_SEND_RIGHT_NOW", 0)) ELSE r2
    IN  /\ mode = "CRX"
        /\ dlLeft > 0
        /\ dlLeft' = dlLeft - 1
        /\ waitClear' = FALSE
        /\ waitExtra' = FALSE
        /\ ring' = LookAtQueue(r3, active)
        /\ UNCHANGED <<active, oldState, ul, sentId, ulIter, lastIter, notAcked, transmit,
                       waitReceive, mode, hbLeft, station, histVars, napsLeft>>

(***************************************************************************)
(* A downlink message.  Unless it repeats the last frame it takes a slot   *)
(* of the receive buffer (NBFi_AllocateRxPkt), which drops the active      *)
(* packet even while that waits for its ACK.  A frame of a group that is   *)
(* not the last makes the active packet wait for extra packets.            *)
(***************************************************************************)
RxMessage(ack, multi, repeated) ==
    LET r1   == Restored(ring)
        drop == ~repeated /\ r1.pkt[active].st \in {"QUEUED", "QUEUED_AGAIN", "WAIT_ACK"}
        a    == IF drop THEN Idle ELSE active
        r2   == IF ack /\ multi /\ ~repeated THEN Sweep(r1, a) ELSE r1
        r3   == IF ack /\ SysQueued(r2, "ACK") = {}
                THEN Alloc(r2, [SysPkt("ACK", "NEED_TO_SEND_RIGHT_NOW", 0)
                                  EXCEPT !.multi = multi])
                ELSE r2
        more == multi /\ ~ack
        r4   == IF more THEN SetSt(r3, a, "WAIT_FOR_EXTRA_PACKETS") ELSE r3
    IN  /\ mode = "CRX"
        /\ dlLeft > 0
        /\ dlLeft' = dlLeft - 1
        /\ active' = a
        /\ oldState' = IF more /\ r3.pkt[a].st # "WAIT_FOR_EXTRA_PACKETS"
                       THEN r3.pkt[a].st ELSE oldState
        /\ waitClear' = FALSE
        /\ waitExtra' = more
        /\ ring' = LookAtQueue(r4, a)
        /\ UNCHANGED <<ul, sentId, ulIter, lastIter, notAcked, transmit, waitReceive,
                       mode, hbLeft, station, histVars, napsLeft>>

-----------------------------------------------------------------------------
\* NBFi_Wait_Extra_Handler and NBFi_Wait_Clear_cb: the other two timers.
WaitExtraTimeout ==
    /\ waitExtra
    /\ waitExtra' = FALSE
    /\ ring' = Sweep(Restored(ring), active)
    /\ UNCHANGED <<active, oldState, ul, sentId, ulIter, lastIter, notAcked, transmit,
                   waitReceive, waitClear, mode, hbLeft, station, histVars,
                   dlLeft, napsLeft>>

WaitClearTimeout ==
    /\ waitClear
    /\ waitClear' = FALSE
    /\ UNCHANGED <<ring, active, oldState, ul, sentId, ulIter, lastIter, notAcked,
                   transmit, waitReceive, waitExtra, mode, hbLeft, station, histVars,
                   dlLeft, napsLeft>>

\* NBFi_SendHeartBeats when its period has passed, with NBFi_SendHB.
HeartBeat ==
    LET p == [SysPkt("HEARTBEAT", "QUEUED", ulIter) EXCEPT
                !.hs = Handshake /\ AckMode(mode), !.ack = Handshake /\ AckMode(mode)]
        goes == SysQueued(ring, "HEARTBEAT") = {} /\ CanAlloc(ring)
    IN  /\ mode # "OFF"
        /\ hbLeft > 0
        /\ hbLeft' = hbLeft - 1
        /\ ring' = IF goes THEN Alloc(ring, p) ELSE ring
        /\ ulIter' = IF goes THEN Wrap(ulIter + 1) ELSE ulIter
        /\ UNCHANGED <<active, oldState, ul, sentId, lastIter, notAcked, transmit,
                       waitReceive, waitExtra, waitClear, mode, station, histVars,
                       dlLeft, napsLeft>>

-----------------------------------------------------------------------------
(***************************************************************************)
(* The main loop.  NBFI_Main_Level_Loop passes one verdict at a time to    *)
(* the application, delivered messages before lost ones.                   *)
(***************************************************************************)
Unreported(st) == {id \in InRing(sentId) : ul[id].st = st /\ ~ul[id].rep}

ReportStatus ==
    \E st \in Verdicts, id \in Ids :
        /\ st = "LOST" => Unreported("DELIVERED") = {}
        /\ id \in Unreported(st)
        /\ \A i \in Unreported(st) : id <= i
        /\ ul' = [ul EXCEPT ![id].rep = TRUE]
        /\ told' = [told EXCEPT ![id] = IF Len(@) < 2 THEN Append(@, st) ELSE @]
        /\ UNCHANGED <<ring, active, oldState, sentId, ulIter, lastIter, notAcked,
                       transmit, waitReceive, waitExtra, waitClear, mode, hbLeft,
                       station, frags, confirm, heard, dlLeft, napsLeft>>

\* NBFi_go_to_Sleep(1): everything queued is dropped, the radio goes off.
GoToSleep ==
    /\ napsLeft > 0
    /\ mode # "OFF"
    /\ napsLeft' = napsLeft - 1
    /\ mode' = "OFF"
    /\ ring' = ClearTx(ring)
    /\ active' = Idle
    /\ transmit' = FALSE
    /\ UNCHANGED <<oldState, ul, sentId, ulIter, lastIter, notAcked, waitReceive,
                   waitExtra, waitClear, hbLeft, station, histVars, dlLeft>>

\* NBFi_go_to_Sleep(0).
WakeUp ==
    /\ mode = "OFF"
    /\ mode' = Mode
    /\ ring' = SendClear(SendSync(ring, ulIter), 0)
    /\ UNCHANGED <<active, oldState, ul, sentId, ulIter, lastIter, notAcked, transmit,
                   waitReceive, waitExtra, waitClear, hbLeft, station, histVars,
                   dlLeft, napsLeft>>

-----------------------------------------------------------------------------
Next == \/ \E len \in Lengths, flags \in FlagSets : Send5(len, flags)
        \/ SendNext \/ ArmTimer \/ ProcessOff
        \/ TxFinished
        \/ ReceiveTimeout
        \/ RxAck
        \/ \E answer, ack \in BOOLEAN : RxSystem(answer, ack)
        \/ \E ack, multi, repeated \in BOOLEAN : RxMessage(ack, multi, repeated)
        \/ WaitExtraTimeout \/ WaitClearTimeout
        \/ HeartBeat
        \/ ReportStatus
        \/ GoToSleep \/ WakeUp

Spec == Init /\ [][Next]_vars

\* The scheduler runs every callback that is due, the radio ends every
\* transmission, and NBFi_ProcessTasks runs again 50 ms later.
FairSpec == /\ Spec
            /\ WF_vars(SendNext) /\ WF_vars(ArmTimer) /\ WF_vars(TxFinished)
            /\ WF_vars(ReceiveTimeout)
            /\ WF_vars(WaitExtraTimeout) /\ WF_vars(WaitClearTimeout)

-----------------------------------------------------------------------------
(***************************************************************************)
(* Properties.                                                             *)
(***************************************************************************)
Complete(id) == frags[id] # {} /\ \A i \in frags[id] : <<id % IdMod, i>> \in heard

Undecided(id) == ul[id].st \in {"QUEUED", "INPROCESS"}

\* Every variable has its type.
TypeOK ==
    /\ ring \in Ring
    /\ active \in Cells
    /\ oldState \in States
    /\ ul \in [Ids -> [st : UlStatuses, rep : BOOLEAN]]
    /\ sentId \in 0 .. MaxMsgs
    /\ ulIter \in Iters /\ lastIter \in Iters
    /\ notAcked \in Nat
    /\ transmit \in BOOLEAN
    /\ waitReceive \in BOOLEAN /\ waitExtra \in BOOLEAN /\ waitClear \in BOOLEAN
    /\ mode \in {Mode, "OFF"}
    /\ hbLeft \in 0 .. MaxHb
    /\ station \in [holds : SUBSET Iters, reply : Replies]
    /\ frags \in [Ids -> SUBSET Iters]
    /\ confirm \subseteq Ids
    /\ heard \subseteq (0 .. IdMod - 1) \X Iters
    /\ told \in [Ids -> Seq(Verdicts)]
    /\ dlLeft \in 0 .. MaxDl /\ napsLeft \in 0 .. MaxNaps

\* A message sent with a handshake is called DELIVERED only when the base
\* station has every fragment of it (NBFi_Resend_Pkt, "all packets delivered").
DeliveredIsComplete ==
    \A id \in confirm : ul[id].st = "DELIVERED" => Complete(id)

\* With an ACK for every message, no message goes on the air before all
\* messages accepted earlier have their verdict, whatever is retransmitted,
\* dropped for a downlink, or slipped in by the stack itself.
InOrder ==
    \A i, j \in Ids :
        i < j /\ ul[j].st \in {"INPROCESS"} \cup Verdicts => ul[i].st \in Verdicts

\* The application is told one verdict per message, once.
ToldOnce == \A id \in Ids : Len(told[id]) <= 1

\* Once the application is told that a message is complete or lost ("send
\* complete callback"), no packet of it is left to be sent or waited for.
SendComplete ==
    \A id \in Ids : told[id] # <<>> =>
        \A s \in Slots : ring.pkt[s].kind \in AppKinds /\ ring.pkt[s].id = id % IdMod
            => ring.pkt[s].st \notin {"QUEUED", "QUEUED_AGAIN", "WAIT_ACK"}

\* A message without a verdict still has a packet some handler will pick up,
\* as long as no more than one downlink frame interferes: timers, losses, late
\* ACKs and allocations do not lose it, nor does the one frame that drops the
\* active packet or is answered.  With a second one the code does lose it: the
\* CLEAR command may take the slot of the packet just confirmed before its id
\* is read (nbfi_transport_misc.c:681).
NoOrphan ==
    \A id \in Ids : Undecided(id) =>
        \E s \in Slots : /\ ring.pkt[s].kind \in AppKinds
                         /\ ring.pkt[s].id = id % IdMod
                         /\ ring.pkt[s].st \in {"QUEUED", "QUEUED_AGAIN",
                                "WAIT_ACK", "WAIT_FOR_EXTRA_PACKETS"}

\* A packet found DELIVERED after an ACK was really heard: the mask of the ACK
\* and the window of the packet that asked for it are lined up bit by bit.
AckedIsHeard ==
    \A s \in Slots :
        LET p == ring.pkt[s]
        IN  p.st = "DELIVERED" /\ p.kind \in AppKinds => <<p.id, p.iter>> \in heard

\* A message is declared LOST only after one of its packets was transmitted
\* as often as the retry limit allows (or its retries were forbidden).
LostAfterAllTries ==
    [][\A id \in Ids :
          ul[id].st # "LOST" /\ ul'[id].st = "LOST" =>
            \E s \in Slots : /\ ring.pkt[s].id = id % IdMod
                             /\ \/ ring.pkt[s].sent > MaxRetry
                                \/ ring.pkt[s].retry >= NoRetries]_vars

\* As long as no downlink message interferes, no packet is transmitted more
\* often than the retry limit allows.
TriesBounded == \A s \in Slots : ring.pkt[s].sent <= MaxRetry + 1

\* Only messages that ask for a handshake can be declared LOST: a packet the
\* stack does not wait for never ends in the ACK or timeout handling.
UnconfirmedNeverLost == \A id \in Ids : ul[id].st = "LOST" => id \in confirm

\* When nothing is queued and nothing is waited for, the next allocation works
\* (NBFi_AllocateTxPkt: "tx buffer is full").
Quiet == /\ Queued(ring, active) = None
         /\ ring.pkt[active].st \notin {"WAIT_ACK", "WAIT_FOR_EXTRA_PACKETS"}
QuietHasRoom == Quiet => CanAlloc(ring)

\* Every packet sent without an ACK request is inside the window of a packet
\* that still asks for one, or of the next one that will (not_acked).
Covers(q, i) == (q.iter - i) % IterMod < q.mack
Covered ==
    \A s \in InState(ring, "SENT_NOACKED") :
        LET i == ring.pkt[s].iter
        IN  \/ (ulIter - 1 - i) % IterMod < notAcked
            \/ \E t \in Slots : /\ ring.pkt[t].ack /\ ring.pkt[t].kind \in AppKinds
                                /\ Blocked(ring.pkt[t]) \/ t = active
                                /\ Covers(ring.pkt[t], i)

\* Every accepted message gets a verdict.
EventuallyDecided == \A id \in Ids : Undecided(id) ~> ul[id].st \in Verdicts

\* NbfiTx implements the abstract service.
Verdict(id) == CASE ul[id].st = "NOTEXIST" -> "NOTEXIST"
                 [] Undecided(id) -> "PENDING"
                 [] OTHER -> ul[id].st

Service == INSTANCE UlService WITH
    verdict <- [id \in Ids |-> Verdict(id)],
    confirm <- confirm,
    got     <- {id \in Ids : Complete(id)}

ServiceSpec == Service!Spec
=============================================================================
