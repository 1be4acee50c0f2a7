---------------------------- MODULE NbfiTxBuffer ----------------------------
(***************************************************************************)
(* The transmit packet ring of the NB-Fi transport layer                   *)
(* (nbfi_transport_misc.c): slots, allocation, the three scans that pick   *)
(* the next packet, the count of packets to send, and the search of a sent *)
(* packet by ITER.  Everything here is an operator on a ring value; the    *)
(* state machine that owns the ring is NbfiTx.                             *)
(*                                                                         *)
(* nbfi_TXbuf_head is a free-running uint8_t that is only ever used modulo *)
(* NBFI_TX_PKTBUF_SIZE, which divides 256, so head is kept modulo TxSize.  *)
(* ITER is a 5-bit header field; IterMod stands for its 32 values.         *)
(***************************************************************************)
EXTENDS Integers

CONSTANTS
    TxSize,         \* NBFI_TX_PKTBUF_SIZE, 64 in the code
    IterMod,        \* number of ITER values, 32 in the code
    IdMod,          \* packet->id keeps 8 bits of the 16-bit message id: 256
    Mack,           \* nbfi.mack_mode: one packet in Mack asks for an ACK
    MaxRetry,       \* NBFi_Get_Retry_Number()
    MaxSent         \* bound of the history counter "sent" of a packet

ASSUME TxSizeAssumption  == TxSize \in Nat /\ TxSize > 1
ASSUME IterAssumption    == /\ IterMod \in Nat \ {0}
                            /\ Mack \in Nat \ {0}
                            /\ IterMod % Mack = 0
ASSUME IdAssumption      == IdMod \in Nat \ {0}
ASSUME RetryAssumption   == /\ MaxRetry \in 0 .. 30
                            /\ MaxSent \in Nat /\ MaxSent > MaxRetry

Slots == 0 .. TxSize - 1
Idle  == TxSize             \* &idle_pkt: what nbfi_active_pkt points to at rest
Cells == Slots \cup {Idle}
None  == -1                 \* the null pointer of the searches
Iters == 0 .. IterMod - 1

NoRetries == 240            \* retry_num = 0xf0 of NBFI_UL_FLAG_NO_RETRIES

States == {"FREE", "QUEUED", "QUEUED_AGAIN", "SENT_NOACKED", "DELIVERED",
           "LOST", "WAIT_ACK", "NEED_TO_SEND_RIGHT_NOW",
           "WAIT_FOR_EXTRA_PACKETS"}

\* phy_data.payload[0] of SYSTEM packets; "DATA" is a packet without the
\* SYSTEM bit, "SHORT" a short message (payload[0] & 0x80), "START" the first
\* packet of a group.
AppKinds == {"DATA", "SHORT", "START"}
SysKinds == {"ACK", "ACK_ON_SYS", "CLEAR_EXT", "SYNC", "CONFIG", "HEARTBEAT"}
IsSystem(p) == p.kind # "DATA"

(***************************************************************************)
(* nbfi_transport_packet_t.  "ack" and "multi" are header bits, "iter" the *)
(* ITER field; "sent" is a history counter: transmissions so far.          *)
(***************************************************************************)
Packet == [st    : States,
           kind  : AppKinds \cup SysKinds,
           id    : 0 .. IdMod - 1,
           hs    : BOOLEAN,
           ack   : BOOLEAN,
           multi : BOOLEAN,
           iter  : Iters,
           mack  : Nat,
           retry : Nat,
           sent  : 0 .. MaxSent]

Ring == [pkt : [Cells -> Packet], head : Slots]

FreePkt == [st |-> "FREE", kind |-> "DATA", id |-> 0, hs |-> FALSE,
            ack |-> FALSE, multi |-> FALSE, iter |-> 0, mack |-> 0,
            retry |-> 0, sent |-> 0]

EmptyRing == [pkt |-> [c \in Cells |-> FreePkt], head |-> 0]

\* A packet the device writes on its own account, not for the application.
SysPkt(kind, st, i) ==
    [FreePkt EXCEPT !.st = st, !.kind = kind, !.iter = i]

-----------------------------------------------------------------------------
\* How many steps after the oldest slot a scan that starts at head meets s.
Age(h, s) == IF s >= h THEN s - h ELSE s + TxSize - h

AnyOf(S) == IF S = {} THEN None ELSE CHOOSE s \in S : TRUE

\* Mutant: the scans start at slot 0 instead of at head.
Oldest_LowestSlot(h, S) == AnyOf({s \in S : \A u \in S : s <= u})

Oldest(h, S) == AnyOf({s \in S : \A u \in S : Age(h, s) <= Age(h, u)})

Newest(h, S) == AnyOf({s \in S : \A u \in S : Age(h, s) >= Age(h, u)})

InState(r, st) == {s \in Slots : r.pkt[s].st = st}

SetPkt(r, s, p) == [r EXCEPT !.pkt[s] = p]
SetSt(r, s, st) == [r EXCEPT !.pkt[s].st = st]

-----------------------------------------------------------------------------
\* NBFi_AllocateTxPkt: only the slot at head is tried.
Blocked(p) == p.st \in {"QUEUED", "QUEUED_AGAIN", "WAIT_ACK",
                        "NEED_TO_SEND_RIGHT_NOW", "SENT_NOACKED"}

CanAlloc(r) == ~Blocked(r.pkt[r.head])

Alloc(r, p) ==
    IF CanAlloc(r)
    THEN [pkt |-> [r.pkt EXCEPT ![r.head] = p], head |-> (r.head + 1) % TxSize]
    ELSE r

-----------------------------------------------------------------------------
\* Mutant: a stale WAIT_ACK packet is not picked up.
Fresh_QueuedOnly(r, a) == InState(r, "QUEUED")

(***************************************************************************)
(* NBFi_GetQueuedTXPkt: urgent system packets, then retransmissions, then  *)
(* everything else, each oldest first.  A packet still in WAIT_ACK that is *)
(* no longer the active one is picked up by the third scan and becomes a   *)
(* retransmission: the search changes the ring (Sweep).                    *)
(***************************************************************************)
Urgent(r)  == InState(r, "NEED_TO_SEND_RIGHT_NOW")
Again(r)   == InState(r, "QUEUED_AGAIN")
Fresh(r,a) == InState(r, "QUEUED") \cup (InState(r, "WAIT_ACK") \ {a})

Queued(r, a) ==
    IF Urgent(r) # {} THEN Oldest(r.head, Urgent(r))
    ELSE IF Again(r) # {} THEN Oldest(r.head, Again(r))
    ELSE Oldest(r.head, Fresh(r, a))

\* Mutant: a stale WAIT_ACK packet is freed.
Requeue_Freed(r, s) ==
    IF s \in Slots /\ r.pkt[s].st = "WAIT_ACK" THEN SetPkt(r, s, FreePkt) ELSE r

Requeue(r, s) ==
    IF s \in Slots /\ r.pkt[s].st = "WAIT_ACK"
    THEN SetSt(r, s, "QUEUED_AGAIN")
    ELSE r

Sweep(r, a) == Requeue(r, Queued(r, a))

-----------------------------------------------------------------------------
\* NBFi_Packets_To_Send counts free slots up to the first busy one.
Busy(r, a) ==
    {s \in Slots :
        \/ r.pkt[s].st \in {"WAIT_ACK", "QUEUED", "QUEUED_AGAIN",
                            "NEED_TO_SEND_RIGHT_NOW"}
        \/ /\ r.pkt[s].st = "SENT_NOACKED"
           /\ Mack < 2
           /\ r.pkt[a].st # "FREE"}

FreeSlots(r, a, tx) ==
    IF Busy(r, a) # {} THEN Age(r.head, Oldest(r.head, Busy(r, a)))
    ELSE IF tx THEN TxSize - 1 ELSE TxSize

\* Its side effect: the busy packet it stops at, if waiting but not active.
CountSweep(r, a) ==
    LET s == Oldest(r.head, Busy(r, a))
    IN  IF s = a THEN r ELSE Requeue(r, s)

-----------------------------------------------------------------------------
\* Mutant: only the active packet is closed.
CloseActive_ActiveOnly(r, a) == SetSt(r, a, "LOST")

\* NBFi_Close_Active_Packet.
CloseActive(r, a) ==
    [r EXCEPT !.pkt = [c \in Cells |->
        IF c = a \/ (c \in Slots /\ r.pkt[c].st = "SENT_NOACKED")
        THEN [r.pkt[c] EXCEPT !.st = "LOST"]
        ELSE r.pkt[c]]]

\* NBFi_Calc_Queued_Sys_Packets_With_Type.
SysQueued(r, kind) ==
    {s \in Slots : /\ r.pkt[s].kind = kind
                   /\ Blocked(r.pkt[s])}

\* NBFi_Config_Send_Sync(0), NBFi_Send_Clear_Cmd.
SendSync(r, i) ==
    Alloc([r EXCEPT !.pkt = [c \in Cells |-> IF c \in SysQueued(r, "SYNC")
                                             THEN FreePkt ELSE r.pkt[c]]],
          SysPkt("SYNC", "NEED_TO_SEND_RIGHT_NOW", i))

SendClear(r, i) ==
    Alloc(r, SysPkt("CLEAR_EXT", "NEED_TO_SEND_RIGHT_NOW", i))

\* NBFi_GetSentTXPkt_By_Iter: the newest application packet with this ITER.
SentByIter(r, i) ==
    Newest(r.head, {s \in Slots :
        /\ r.pkt[s].kind \in AppKinds
        /\ r.pkt[s].st \in {"SENT_NOACKED", "WAIT_ACK", "LOST", "DELIVERED"}
        /\ r.pkt[s].iter = i})
=============================================================================
