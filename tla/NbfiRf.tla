------------------------------- MODULE NbfiRf -------------------------------
(***************************************************************************)
(* When the radio sends, listens and is switched off: ProcessTasks,        *)
(* TX_Finished, RX_Controller and the timers of nbfi_transport.c, the      *)
(* state of nbfi_rf.c, and the calls of nbfi.c that change the mode or the *)
(* settings under them.                                                    *)
(*                                                                         *)
(* Packets are counted by kind, not ordered: NbfiTx has their order, their *)
(* ITERs, their status and the ring, which does not wrap here.  The rates  *)
(* do not change (NbfiConfig has them): NBFI_Config_Check_State does       *)
(* nothing.  NBFI_FLG_SEND_IN_RESPONSE, NBFI_FLG_SEND_ALOHA, the custom    *)
(* settings and NBFI_UL_FLAG_NO_RETRIES are off; rf_busy is 0 whenever a   *)
(* handler starts.                                                         *)
(***************************************************************************)
EXTENDS Integers

CONSTANTS
    FirstMode,      \* the mode in flash when the device starts
    OffOnInit,      \* NBFI_OFF_MODE_ON_INIT
    SendOnStart,    \* NBFI_FLG_DO_NOT_SEND_PKTS_ON_START is clear
    KeepRxOpen,     \* NBFI_FLG_FIXED_BAUD_RATE is clear: DRX listens a little
                    \* longer after a frame
    ResetOnLoss,    \* NBFI_FLG_NO_RESET_TO_DEFAULTS is clear
    MaxRetry,       \* num_of_retries
    TxMax,          \* TX_MAX_TIME, 1000
    Room,           \* bound: packets of a kind in the ring at a time
    MaxCalls,       \* bound: calls of the application, heartbeats included
    MaxDl           \* bound: frames received

Awake  == {"NRX", "DRX", "CRX"}
Modes  == Awake \union {"OFF"}
Low    == {"NRX", "DRX"}        \* nbfi.mode <= DRX

(***************************************************************************)
(* Kinds of packet.  ACK, ACK_MULTI (the ACK of a group) and SYS (the      *)
(* other system packets) are sent PACKET_NEED_TO_SEND_RIGHT_NOW and nobody *)
(* answers them; the application and the heartbeat queue New packets:      *)
(* PLAIN has no handshake, ACKED has the ACK flag, UNACKED a handshake but *)
(* not the flag (queued in NRX mode, the fragments of a group but its      *)
(* last, the packets between the ACKs of mack_mode).  MISSED is a packet   *)
(* that an ACK reports missing, but for the last of them, which is sent    *)
(* with the ACK flag.                                                      *)
(***************************************************************************)
Urgent == {"SYS", "ACK", "ACK_MULTI"}
New    == {"PLAIN", "ACKED", "UNACKED"}
Kinds  == Urgent \union New \union {"MISSED"}

ASSUME ModeAssumption  == FirstMode \in Awake
ASSUME FlagAssumption  == /\ OffOnInit \in BOOLEAN
                          /\ SendOnStart \in BOOLEAN
                          /\ KeepRxOpen \in BOOLEAN
                          /\ ResetOnLoss \in BOOLEAN
ASSUME BoundAssumption == /\ MaxRetry \in Nat /\ TxMax \in Nat
                          /\ Room \in Nat \ {0}
                          /\ MaxCalls \in Nat /\ MaxDl \in Nat

VARIABLES
    mode,           \* nbfi.mode
    flashMode,      \* the mode of the settings in flash
    dirty,          \* nbfi_settings_need_to_save_to_flash
    default,        \* NBFi_Config_is_settings_default: rates are those in flash
    wasAsleep,      \* old_state of NBFi_go_to_Sleep
    radio,          \* rf_state, transmit, and what the hardware does
    queue,          \* packets waiting in nbfi_TX_pktBuf, by kind
    active,         \* nbfi_active_pkt; state FREE is idle_pkt
    noacked,        \* packets in PACKET_SENT_NOACKED that the next ACK covers
                    \* beside the active one, at most
    waitReceive,    \* wait_Receive: dl_receive_desc is scheduled
    waitExtra,      \* wait_Extra: wait_for_extra_desc is scheduled
    waitRxEnd,      \* wait_RxEnd: dl_drx_desc is scheduled
    waitClear,      \* wait_clear: wait_clear_desc is scheduled
    task,           \* nbfi_processTask_desc is scheduled
    txTimer,        \* tx_timer of NBFi_ProcessTasks
    callsLeft, dlLeft   \* what the bounds leave

settingVars == <<mode, flashMode, dirty, default, wasAsleep>>
packetVars  == <<queue, active, noacked>>
waitVars    == <<waitReceive, waitExtra, waitRxEnd, waitClear>>
vars        == <<settingVars, radio, packetVars, waitVars, task, txTimer,
                 callsLeft, dlLeft>>

RfStates   == {"OFF", "RX", "TX", "CHANGED"}
PktStates  == {"FREE", "QUEUED", "QUEUED_AGAIN", "WAIT_ACK", "EXTRA",
               "SENT_NOACKED", "DELIVERED", "LOST"}

\* behind is the retry_num of the packet with the ACK flag that is due again but
\* is not nbfi_active_pkt.  There is at most one: it goes before new ones.
None       == MaxRetry + 1
IdlePkt    == [st |-> "FREE", old |-> "FREE", ack |-> FALSE, retry |-> 0,
               behind |-> None]
EmptyQueue == [k \in Kinds |-> 0]
Deinit     == [state |-> "OFF", hw |-> "OFF", transmit |-> FALSE]

TypeOK ==
    /\ mode \in Modes /\ flashMode \in Modes
    /\ dirty \in BOOLEAN /\ default \in BOOLEAN /\ wasAsleep \in BOOLEAN
    /\ radio \in [state : RfStates, hw : {"OFF", "RX", "TX"},
                  transmit : BOOLEAN]
    /\ queue \in [Kinds -> 0 .. Room]
    /\ active \in [st : PktStates, old : PktStates \ {"EXTRA"},
                   ack : BOOLEAN, retry : 0 .. MaxRetry, behind : 0 .. None]
    /\ noacked \in Nat
    /\ waitReceive \in BOOLEAN /\ waitExtra \in BOOLEAN
    /\ waitRxEnd \in BOOLEAN /\ waitClear \in BOOLEAN
    /\ task \in BOOLEAN
    /\ txTimer \in 0 .. TxMax + 1
    /\ callsLeft \in 0 .. MaxCalls /\ dlLeft \in 0 .. MaxDl

-----------------------------------------------------------------------------
(***************************************************************************)
(* The packets.                                                            *)
(***************************************************************************)

\* Mutant: a full ring is not noticed.
Queued_NoCheck(q, k) == [q EXCEPT ![k] = @ + 1]

\* NBFi_AllocateTxPkt and the states the callers give: a packet that finds no
\* room is not queued.
Queued(q, k) == IF q[k] < Room THEN [q EXCEPT ![k] = @ + 1] ELSE q

\* NBFi_GetQueuedTXPkt: the urgent ones first, then those due again, the oldest
\* first, then the rest.
Candidates(q, a) ==
    IF \E k \in Urgent : q[k] > 0 THEN {k \in Urgent : q[k] > 0}
    ELSE IF q["MISSED"] > 0 THEN {"MISSED"}
    ELSE IF a.st \in {"QUEUED", "QUEUED_AGAIN"} \/ a.behind # None
         THEN {"AGAIN"}
    ELSE {k \in New : q[k] > 0}

HasPkt(q, a) == Candidates(q, a) # {}

\* NBFi_Packets_To_Send # 0 for every mack_mode: below MACK_2 the packets in
\* PACKET_SENT_NOACKED may count too, so the device sleeps less than here.
Unsent == HasPkt(queue, active) \/ active.st = "WAIT_ACK" \/ radio.transmit

\* The active packet is still to be sent or confirmed.
Unfinished == {"QUEUED", "QUEUED_AGAIN", "WAIT_ACK"}

\* The packet due again when another becomes nbfi_active_pkt.
Behind(a) == IF a.st \in Unfinished THEN a.retry ELSE a.behind

\* NBFi_AllocateRxPkt: idle_pkt takes the place of an unfinished packet.
Dropped(a) == IF a.st \notin Unfinished THEN a
              ELSE [IdlePkt EXCEPT !.old = a.old, !.behind = a.retry]

\* nbfi_active_pkt->state leaves PACKET_WAIT_FOR_EXTRA_PACKETS.
Restored(a) == IF a.st = "EXTRA" THEN [a EXCEPT !.st = a.old] ELSE a

-----------------------------------------------------------------------------
(***************************************************************************)
(* The radio.                                                              *)
(***************************************************************************)

\* Mutant: DRX listens until the packet is delivered.
Wanted_UntilDelivered(m, a, re, wc) ==
    IF \/ m = "CRX"
       \/ m = "DRX" /\ (re \/ wc \/ a.st \notin {"FREE", "DELIVERED"})
    THEN "RX" ELSE "OFF"

\* Mutant: DRX does not listen for the CLEAR that follows a group.
Wanted_NoClear(m, a, re, wc) ==
    IF \/ m = "CRX"
       \/ m = "DRX" /\ (re \/ a.st \in {"WAIT_ACK", "QUEUED_AGAIN", "EXTRA"})
    THEN "RX" ELSE "OFF"

\* What NBFi_RX_Controller makes of the radio.
Wanted(m, a, re, wc) ==
    IF \/ m = "CRX"
       \/ /\ m = "DRX"
          /\ re \/ wc \/ a.st \in {"WAIT_ACK", "QUEUED_AGAIN", "EXTRA"}
    THEN "RX" ELSE "OFF"

\* NBFi_RX_Controller: NBFi_MAC_RX or NBFi_RF_Deinit when rf_state differs.
Control(r, m, a, re, wc) ==
    LET w == Wanted(m, a, re, wc) IN
    IF r.state = w THEN r
    ELSE IF w = "OFF" THEN Deinit
    ELSE [r EXCEPT !.state = "RX", !.hw = "RX"]

\* NBFi_RF_is_TX_in_Progress
InProgress(r) == r.state \in {"TX", "RX"} /\ r.hw = "TX"

\* NBFi_TX_Finished asks for the next packet at once instead of listening.
GoesOn(q, a, wc) == ~a.ack /\ HasPkt(q, a) /\ ~wc

Finished(r, m, q, a, re, wc) ==
    IF ~r.transmit THEN r
    ELSE LET r1 == [r EXCEPT !.transmit = FALSE] IN
         IF GoesOn(q, a, wc) THEN r1 ELSE Control(r1, m, a, re, wc)

\* Mutant: the task is not scheduled again in DRX.
Again_LowRests(r, m, q, a, re, wc) ==
    LET r1 == IF r.state = "CHANGED" THEN Control(r, m, a, re, wc) ELSE r IN
    IF m \in Low THEN [radio |-> Control(r1, m, a, re, wc), task |-> FALSE]
    ELSE [radio |-> r1, task |-> TRUE]

\* The end of NBFi_ProcessTasks: changed settings are applied; a task with
\* nothing to send and the radio off is not scheduled again.
Again(r, m, q, a, re, wc) ==
    LET r1 == IF r.state = "CHANGED" THEN Control(r, m, a, re, wc) ELSE r
        r2 == Control(r1, m, a, re, wc)
    IN  IF m \in Low /\ ~HasPkt(q, a) /\ ~InProgress(r1)
        THEN [radio |-> r2, task |-> r2.state # "OFF"]
        ELSE [radio |-> r1, task |-> TRUE]

-----------------------------------------------------------------------------
(***************************************************************************)
(* NBFI_Transport_Init                                                     *)
(***************************************************************************)
Init ==
    /\ mode = IF OffOnInit THEN "OFF" ELSE FirstMode
    /\ flashMode = FirstMode
    /\ dirty = FALSE /\ default = TRUE /\ wasAsleep = TRUE
    /\ radio = IF mode = "CRX" THEN [Deinit EXCEPT !.state = "RX", !.hw = "RX"]
               ELSE Deinit
    /\ queue = IF SendOnStart /\ ~OffOnInit
               THEN Queued(Queued(EmptyQueue, "SYS"), "SYS") ELSE EmptyQueue
    /\ active = IdlePkt /\ noacked = 0
    /\ waitReceive = FALSE /\ waitExtra = FALSE
    /\ waitRxEnd = FALSE /\ waitClear = FALSE
    /\ task = ~OffOnInit
    /\ txTimer = 0
    /\ callsLeft = MaxCalls /\ dlLeft = MaxDl
-----------------------------------------------------------------------------
(***************************************************************************)
(* NBFi_ProcessTasks, one action per way through it.                       *)
(***************************************************************************)

Ends(r, q, a, re, wc) ==
    LET e == Again(r, mode, q, a, re, wc)
    IN  radio' = e.radio /\ task' = e.task

Free == ~radio.transmit /\ ~waitClear

ProcessOff ==
    /\ task /\ mode = "OFF"
    /\ radio' = Control(radio, mode, active, waitRxEnd, waitClear)
    /\ queue' = EmptyQueue /\ active' = IdlePkt /\ noacked' = 0
    /\ task' = FALSE
    /\ UNCHANGED <<settingVars, waitVars, txTimer, callsLeft, dlLeft>>

\* The active packet waits: its timer is started if it is not running.
ProcessWait ==
    /\ task /\ mode # "OFF" /\ Free
    /\ active.st \in {"WAIT_ACK", "EXTRA"}
    /\ waitReceive' = (waitReceive \/ active.st = "WAIT_ACK")
    /\ waitExtra' = (waitExtra \/ active.st = "EXTRA")
    /\ txTimer' = 0
    /\ Ends(radio, queue, active, waitRxEnd, waitClear)
    /\ UNCHANGED <<settingVars, packetVars, waitRxEnd, waitClear, callsLeft,
                   dlLeft>>

\* What is due again after packet k is sent.
StillDue(k) == IF k = "AGAIN" THEN None ELSE Behind(active)

\* nbfi_active_pkt after packet k is sent: a packet in state PACKET_SENT is
\* freed at once and idle_pkt takes its place.
SentAs(k) ==
    LET ack == k \in {"ACKED", "AGAIN"}
    IN  IF mode = "NRX" \/ (~ack /\ k \notin {"UNACKED", "MISSED"})
        THEN [IdlePkt EXCEPT !.old = active.old, !.behind = StillDue(k)]
        ELSE [st     |-> IF ack THEN "WAIT_ACK" ELSE "SENT_NOACKED",
              old    |-> active.old,
              ack    |-> ack,
              retry  |-> IF k = "AGAIN" THEN Behind(active) ELSE 0,
              behind |-> StillDue(k)]

\* Mutant: the end of the DRX window stays scheduled while the radio sends.
ClosesRxEnd_Kept(re) == re

\* A transmission cancels the end of the DRX window.
ClosesRxEnd(re) == FALSE

ProcessSend ==
    /\ task /\ mode # "OFF" /\ Free
    /\ active.st \notin {"WAIT_ACK", "EXTRA"}
    /\ \E k \in Candidates(queue, active) :
          LET a  == SentAs(k)
              q  == IF k = "AGAIN" THEN queue ELSE [queue EXCEPT ![k] = @ - 1]
              wc == k = "ACK_MULTI" /\ ~HasPkt(q, active)
              re == ClosesRxEnd(waitRxEnd)
          IN  /\ active' = a /\ queue' = q
              /\ noacked' = IF active.st = "SENT_NOACKED"
                            THEN noacked + 1 ELSE noacked
              /\ waitReceive' = (waitReceive \/ a.st = "WAIT_ACK")
              /\ waitClear' = wc
              /\ waitRxEnd' = re
              /\ Ends([state |-> "TX", hw |-> "TX", transmit |-> TRUE],
                      q, a, re, wc)
    /\ txTimer' = 0
    /\ UNCHANGED <<settingVars, waitExtra, callsLeft, dlLeft>>

ProcessRest ==
    /\ task /\ mode # "OFF" /\ Free
    /\ active.st \notin {"WAIT_ACK", "EXTRA"}
    /\ ~HasPkt(queue, active)
    /\ txTimer' = 0
    /\ Ends(Control(radio, mode, active, waitRxEnd, waitClear),
            queue, active, waitRxEnd, waitClear)
    /\ UNCHANGED <<settingVars, packetVars, waitVars, callsLeft, dlLeft>>

\* The radio sends or the CLEAR is awaited.  A transmission that the radio does
\* not report, or that lasts too long, is taken as finished.
ProcessBusy ==
    /\ task /\ mode # "OFF" /\ ~Free
    /\ LET over == ~InProgress(radio) \/ txTimer >= TxMax
           r == IF over THEN Finished(radio, mode, queue, active, waitRxEnd,
                                      waitClear)
                ELSE radio
       IN  Ends(r, queue, active, waitRxEnd, waitClear)
    /\ txTimer' = IF txTimer > TxMax THEN txTimer ELSE txTimer + 1
    /\ UNCHANGED <<settingVars, packetVars, waitVars, callsLeft, dlLeft>>

Process == \/ ProcessOff  \/ ProcessWait \/ ProcessSend
           \/ ProcessRest \/ ProcessBusy

-----------------------------------------------------------------------------
(***************************************************************************)
(* The radio reports the end of a transmission, or only stops.             *)
(***************************************************************************)
TxDone ==
    /\ radio.hw = "TX"
    /\ radio' = Finished([radio EXCEPT !.hw = "OFF"], mode, queue, active,
                         waitRxEnd, waitClear)
    /\ task' = (task \/ (radio.transmit /\ GoesOn(queue, active, waitClear)))
    /\ UNCHANGED <<settingVars, packetVars, waitVars, txTimer, callsLeft,
                   dlLeft>>

TxSilent ==
    /\ radio.hw = "TX"
    /\ radio' = [radio EXCEPT !.hw = "OFF"]
    /\ UNCHANGED <<settingVars, packetVars, waitVars, task, txTimer,
                   callsLeft, dlLeft>>

(***************************************************************************)
(* The timers.                                                             *)
(***************************************************************************)
RxEnd ==
    /\ waitRxEnd
    /\ waitRxEnd' = FALSE
    /\ radio' = Control(radio, mode, active, FALSE, waitClear)
    /\ UNCHANGED <<settingVars, packetVars, waitReceive, waitExtra, waitClear,
                   task, txTimer, callsLeft, dlLeft>>

WaitClearEnds ==
    /\ waitClear
    /\ waitClear' = FALSE /\ task' = TRUE
    /\ UNCHANGED <<settingVars, radio, packetVars, waitReceive, waitExtra,
                   waitRxEnd, txTimer, callsLeft, dlLeft>>

WaitExtraEnds ==
    /\ waitExtra
    /\ waitExtra' = FALSE
    /\ active' = Restored(active)
    /\ task' = (task \/ HasPkt(queue, Restored(active)))
    /\ UNCHANGED <<settingVars, radio, queue, noacked, waitReceive, waitRxEnd,
                   waitClear, txTimer, callsLeft, dlLeft>>

\* The packet has been sent often enough: it is lost, and unless the settings
\* forbid it those in flash are restored; if they were others the packet is
\* tried once more with them.
GiveUp ==
    /\ noacked' = 0
    /\ IF ~ResetOnLoss
       THEN /\ active' = [active EXCEPT !.st = "LOST"]
            /\ UNCHANGED <<settingVars, queue>>
       ELSE /\ active' = IF default THEN [active EXCEPT !.st = "LOST"]
                         ELSE [active EXCEPT !.st = "QUEUED", !.retry = 0]
            /\ mode' = flashMode /\ default' = TRUE
            /\ queue' = Queued(queue, "SYS")
            /\ UNCHANGED <<flashMode, dirty, wasAsleep>>

ReceiveTimeout ==
    /\ waitReceive
    /\ waitReceive' = FALSE
    /\ IF active.st # "WAIT_ACK" THEN UNCHANGED <<settingVars, packetVars, task>>
       ELSE /\ task' = TRUE
            /\ IF active.retry >= MaxRetry THEN GiveUp
               ELSE /\ active' = [active EXCEPT !.st = "QUEUED_AGAIN",
                                                !.retry = @ + 1]
                    /\ UNCHANGED <<settingVars, queue, noacked>>
    /\ UNCHANGED <<radio, waitExtra, waitRxEnd, waitClear, txTimer,
                   callsLeft, dlLeft>>

-----------------------------------------------------------------------------
(***************************************************************************)
(* What a frame or a call changes, collected in a record c before it takes *)
(* effect; force says that NBFi_Force_process was called.                  *)
(***************************************************************************)
Now == [mode |-> mode, flash |-> flashMode, dirty |-> dirty,
        default |-> default, queue |-> queue, active |-> active,
        noacked |-> noacked, state |-> radio.state, wait |-> waitReceive,
        force |-> FALSE]

Apply(c) ==
    /\ mode' = c.mode /\ flashMode' = c.flash /\ dirty' = c.dirty
    /\ default' = c.default
    /\ queue' = c.queue /\ active' = c.active /\ noacked' = c.noacked
    /\ waitReceive' = c.wait

Send(c, k) == [c EXCEPT !.queue = Queued(@, k)]

\* NBFi_Config_Set_Default: the settings in flash are read again; a packet
\* whose ACK is awaited is given up (NBFi_Close_Active_Packet).
SetDefault(c) ==
    LET lost == c.active.st = "WAIT_ACK"
    IN  [c EXCEPT !.mode = c.flash, !.default = TRUE,
                  !.active.st = IF lost THEN "LOST" ELSE @,
                  !.noacked = IF lost THEN 0 ELSE @]

\* NBFi_Config_Parser on NBFI_PARAM_MODE: mode m, and channels if chan.
WriteMode(c, m, chan) ==
    [c EXCEPT !.mode = m, !.default = @ /\ ~chan, !.force = TRUE,
              !.state = IF chan THEN "CHANGED" ELSE @]

WriteAndSave(c, m, chan) ==
    Send([WriteMode(SetDefault(c), m, chan) EXCEPT !.dirty = TRUE], "SYS")

\* RESET_TO_FACTORY_SETTINGS: without settings in flash those of the board
\* are read.
Factory(c) == Send(SetDefault([c EXCEPT !.flash = FirstMode]), "SYS")

(***************************************************************************)
(* A frame is received: NBFi_ParseReceivedPacket.  Whatever it is, it ends *)
(* the waiting for extra packets and for the CLEAR; an extra frame makes   *)
(* the device wait for more.                                               *)
(***************************************************************************)
Heard(c, extra) ==
    LET a  == IF extra THEN [c.active EXCEPT !.st = "EXTRA", !.old = c.active.st]
              ELSE c.active
        re == waitRxEnd \/ (c.mode = "DRX" /\ KeepRxOpen)
        r  == [radio EXCEPT !.state = c.state]
    IN  /\ Apply([c EXCEPT !.active = a])
        /\ waitClear' = FALSE /\ waitExtra' = extra
        /\ IF HasPkt(c.queue, a)
           THEN task' = TRUE /\ radio' = r /\ UNCHANGED waitRxEnd
           ELSE /\ task' = (task \/ c.force)
                /\ waitRxEnd' = re
                /\ radio' = Control(r, c.mode, a, re, FALSE)
        /\ UNCHANGED <<wasAsleep, txTimer, callsLeft>>

Listening == radio.hw = "RX" /\ dlLeft > 0 /\ dlLeft' = dlLeft - 1

Base == [Now EXCEPT !.active = Restored(active)]

\* Every frame may announce more (MULTI) or ask for an ACK; not one that asks
\* for an ACK makes the device wait.
Flags == {[ack |-> FALSE, multi |-> FALSE], [ack |-> FALSE, multi |-> TRUE],
          [ack |-> TRUE,  multi |-> FALSE], [ack |-> TRUE,  multi |-> TRUE]}

Extra(f) == f.multi /\ ~f.ack

\* A frame is answered unless an answer is queued already.
Answer(c, f, k) == IF f.ack THEN Send(c, k) ELSE c

\* n packets are due again, the last of them with the ACK flag.
Resent(c, n, r) ==
    IF n = 0 THEN c
    ELSE [c EXCEPT !.queue["MISSED"] = @ + (n - 1), !.active.behind = r]

Cleared(c, clear) == IF clear THEN Send(c, "SYS") ELSE c

Verdict(st) == [Base EXCEPT !.active.st = st, !.noacked = 0, !.wait = FALSE]

\* Everything has arrived; a SYSTEM_PACKET_ACK makes the device send a CLEAR, a
\* SYSTEM_PACKET_ACK_ON_SYS does not.
Confirmed == {Cleared(Verdict("DELIVERED"), clear) : clear \in BOOLEAN}

\* How many of the packets before the active one are missing.
Missing(most) == {n \in 1 .. most : queue["MISSED"] + (n - 1) <= Room}

InPart == {Resent(Verdict("DELIVERED"), n, r) :
              n \in Missing(noacked), r \in 1 .. MaxRetry}

\* One more is missing that has been sent often enough: everything is lost, and
\* what follows is as for GiveUp, without another try of the active packet.
AfterLoss(c) == IF ResetOnLoss THEN Send(SetDefault(c), "SYS") ELSE c

GivenUp ==
    {AfterLoss(Resent(Verdict("LOST"), n, r)) :
        n \in Missing(noacked - 1), r \in 1 .. MaxRetry}
    \union {AfterLoss(Cleared(Verdict("LOST"), clear)) :
                clear \in {b \in BOOLEAN : noacked > 0}}

\* The ACK the active packet waits for: NBFi_Resend_Pkt.
HearAck ==
    /\ Listening
    /\ Restored(active).st = "WAIT_ACK"
    /\ \E c \in Confirmed \union InPart \union GivenUp, f \in Flags :
          Heard(Answer(c, f, "SYS"), Extra(f))

\* What a packet that is not a duplicate leaves: NBFi_AllocateRxPkt.
Stored == [Base EXCEPT !.active = Dropped(Base.active)]

\* A packet of a message, new or a duplicate; after the ACK of a group (MULTI) a
\* CLEAR is awaited.
HearData ==
    /\ Listening
    /\ \E f \in Flags, b \in {Base, Stored} :
          Heard(IF queue["ACK"] + queue["ACK_MULTI"] > 0 THEN b
                ELSE Answer(b, f, IF f.multi THEN "ACK_MULTI" ELSE "ACK"),
                Extra(f))

\* CLEAR, TIME, an ACK nobody waits for.
HearOther ==
    /\ Listening
    /\ \E f \in Flags : Heard(Answer(Base, f, "SYS"), Extra(f))

\* SYSTEM_PACKET_CONFIG; the reply is queued unless the settings are saved.
HearConfig ==
    /\ Listening
    /\ \E f \in Flags :
          \/ \E m \in Modes, chan \in BOOLEAN :
                LET written == Send(WriteMode(Base, m, chan), "SYS")
                    saved   == WriteAndSave(Base, m, chan)
                IN  \E c \in {written, saved} :
                       Heard(Answer(c, f, "SYS"), Extra(f))
          \/ Heard(Answer(Send(Factory(Base), "SYS"), f, "SYS"), Extra(f))

-----------------------------------------------------------------------------
(***************************************************************************)
(* The calls of the application, made under the loop-IRQ lock.             *)
(***************************************************************************)
Call == callsLeft > 0 /\ callsLeft' = callsLeft - 1

Called(c) ==
    /\ Call
    /\ Apply(c)
    /\ radio' = [radio EXCEPT !.state = c.state]
    /\ task' = (task \/ c.force)
    /\ UNCHANGED <<wasAsleep, waitExtra, waitRxEnd, waitClear, txTimer, dlLeft>>

\* The packets of NBFi_Send5 and NBFi_SendHB: one of a kind, or a group of two
\* whose last has the ACK flag, which is set when nbfi.mode >= DRX, and OFF is
\* the largest.
Messages == IF mode = "NRX" THEN {{"PLAIN"}, {"UNACKED"}}
            ELSE {{"PLAIN"}, {"UNACKED"}, {"ACKED"}, {"UNACKED", "ACKED"}}

Added(c, ks) ==
    [c EXCEPT !.queue = [k \in Kinds |-> IF k \in ks THEN @[k] + 1 ELSE @[k]]]

SendPacket ==
    \E ks \in Messages :
        /\ \A k \in ks : queue[k] < Room
        /\ Called([Added(Now, ks) EXCEPT !.force = TRUE])

\* NBFi_set_Settings(settings, 1); without a change that the station must know
\* of nothing is scheduled.
SetSettings ==
    \E m \in Modes :
        LET c == [Now EXCEPT !.mode = m, !.dirty = TRUE, !.state = "CHANGED",
                             !.queue = EmptyQueue, !.active = IdlePkt,
                             !.noacked = 0, !.force = m # mode]
        IN  Called(IF m # mode THEN Send(c, "SYS") ELSE c)

\* An AT command that writes parameters.
AtWrite == \E m \in Modes, chan \in BOOLEAN : Called(WriteAndSave(Now, m, chan))

\* The settings are saved by NBFI_Main_Level_Loop, with the mode of the moment.
SaveSettings ==
    /\ dirty
    /\ dirty' = FALSE /\ flashMode' = mode
    /\ UNCHANGED <<mode, default, wasAsleep, radio, packetVars, waitVars, task,
                   txTimer, callsLeft, dlLeft>>

\* Mutant: the radio is left as it is.
Sleep_RadioOn ==
    /\ Call
    /\ mode' = "OFF" /\ wasAsleep' = TRUE
    /\ queue' = EmptyQueue /\ active' = IdlePkt /\ noacked' = 0
    /\ radio' = [radio EXCEPT !.state = "OFF", !.transmit = FALSE]
    /\ UNCHANGED <<flashMode, dirty, default, waitVars, task, txTimer, dlLeft>>

\* NBFi_go_to_Sleep(1)
Sleep ==
    /\ Call
    /\ mode' = "OFF" /\ wasAsleep' = TRUE
    /\ queue' = EmptyQueue /\ active' = IdlePkt /\ noacked' = 0
    /\ radio' = Deinit
    /\ UNCHANGED <<flashMode, dirty, default, waitVars, task, txTimer, dlLeft>>

\* Mutant: the process task is not woken.
Wake_NoForce ==
    /\ Call
    /\ wasAsleep' = FALSE
    /\ IF wasAsleep
       THEN /\ mode' = flashMode
            /\ queue' = Queued(Queued(queue, "SYS"), "SYS")
       ELSE UNCHANGED <<mode, queue>>
    /\ UNCHANGED <<flashMode, dirty, default, radio, active, noacked, waitVars,
                   task, txTimer, dlLeft>>

\* NBFi_go_to_Sleep(0)
Wake ==
    /\ Call
    /\ wasAsleep' = FALSE
    /\ IF wasAsleep
       THEN /\ mode' = flashMode
            /\ queue' = Queued(Queued(queue, "SYS"), "SYS")
            /\ task' = TRUE
       ELSE UNCHANGED <<mode, queue, task>>
    /\ UNCHANGED <<flashMode, dirty, default, radio, active, noacked, waitVars,
                   txTimer, dlLeft>>

-----------------------------------------------------------------------------
Timers == RxEnd \/ WaitClearEnds \/ WaitExtraEnds \/ ReceiveTimeout
Frames == HearAck \/ HearData \/ HearOther \/ HearConfig
Calls  == SendPacket \/ SetSettings \/ AtWrite \/ SaveSettings \/ Sleep \/ Wake

Next == Process \/ TxDone \/ TxSilent \/ Timers \/ Frames \/ Calls

Spec == Init /\ [][Next]_vars

(***************************************************************************)
(* The scheduler runs what is scheduled; nothing else is fair: the radio   *)
(* may never report the end of a transmission.                             *)
(***************************************************************************)
FairSpec == /\ Spec
            /\ WF_vars(Process)
            /\ WF_vars(RxEnd) /\ WF_vars(WaitClearEnds)
            /\ WF_vars(WaitExtraEnds) /\ WF_vars(ReceiveTimeout)

-----------------------------------------------------------------------------
(***************************************************************************)
(* Properties.                                                             *)
(***************************************************************************)

\* What NBFi_can_sleep answers; hal_can_sleep is left out.
CanSleep == radio.state = "OFF" /\ ~Unsent

\* The main loop stops the processor when NBFi_can_sleep agrees: the hardware
\* is then off, whatever settings, sleep calls and timers came before.
SleepIsSafe == CanSleep => radio.hw = "OFF" /\ ~radio.transmit

\* The process task is scheduled whenever there is something to do: a packet
\* waits to be sent, the radio is in use, or a frame is awaited.
Busy == \/ HasPkt(queue, active) \/ radio.transmit \/ radio.hw # "OFF"
        \/ Wanted(mode, active, waitRxEnd, waitClear) = "RX"

NotForgotten == mode # "OFF" /\ Busy => task

\* A device that is due to hear something (the ACK of its packet, a CLEAR, a
\* frame after the one it had) listens from the end of the transmission on,
\* and goes on listening until it sends or the mode changes.
Awaiting == active.st = "WAIT_ACK" \/ waitClear \/ waitRxEnd

KeepsListening ==
    /\ radio.transmit \/ radio.hw = "RX"
    /\ ~radio'.transmit
    /\ mode' = mode /\ mode \in {"DRX", "CRX"}
    /\ Awaiting'
    => radio'.hw = "RX"

Listens == [][KeepsListening]_vars

\* A transmission ends when the radio is done with it; it is cut short only by
\* a sleep call, new settings or TX_MAX_TIME.
KeepsSending ==
    radio.hw = "TX" /\ radio.transmit /\ radio'.hw # "TX"
        => \/ TxDone \/ TxSilent
           \/ radio.state = "CHANGED" \/ mode' = "OFF"
           \/ txTimer >= TxMax

CutOnlyBySettings == [][KeepsSending]_vars

\* Every packet is sent or dropped in the end, even if the radio never reports
\* a finished transmission.
Settles == <>[](~HasPkt(queue, active) /\ active.st # "WAIT_ACK"
                  /\ ~radio.transmit)

\* In the modes that save power the receiver is switched off in the end.
ReceiverRests == <>[](mode \in Low \union {"OFF"} => radio.hw # "RX")
=============================================================================
