------------------------------- MODULE NbfiRx -------------------------------
(***************************************************************************)
(* The downlink half of the NB-Fi transport layer: the ring of received    *)
(* packets (one slot per ITER), the check for duplicates, the assembly of  *)
(* groups, the ACK mask and the queue of messages the main loop reads      *)
(* (nbfi_transport.c, nbfi_transport_misc.c).                              *)
(*                                                                         *)
(* Actors: a base station that sends like the device does (it is outside   *)
(* the repository; its window, its walk over the ACK mask, its repetitions *)
(* and the CLEAR command at the end mirror NBFi_Send5, NBFi_Resend_Pkt and *)
(* the ACK timeout), the parser of a received frame, the transmission of   *)
(* the ACK it queued, and the application in the main loop.  A frame is    *)
(* received or lost when it is sent; an ACK may wait in the transmit ring  *)
(* while the base station already repeats.                                 *)
(***************************************************************************)
EXTENDS Integers, FiniteSets, Sequences

CONSTANTS
    IterMod,    \* number of ITER values and of slots, NBFI_RX_PKTBUF_SIZE: 32
    QueueSize,  \* NBFI_RECEIVED_BUF_SIZE, 4 in the code
    Mack,       \* nbfi.mack_mode
    Start,      \* the kind of group start the base station uses
    Sizes,      \* packets per message: 0 a SHORT one, 1 DATA, more a group
    MaxMsgs,    \* bound: messages the base station offers
    MaxTries,   \* retries of the base station
    MaxLapses   \* bound: how often ten minutes pass

ASSUME RxAssumption == /\ IterMod \in Nat /\ IterMod > 2
                       /\ QueueSize \in Nat \ {0}
                       /\ Mack \in Nat \ {0}
                       /\ Start \in {"GROUP_START", "GROUP_START_OLD"}
                       /\ Sizes \subseteq 0 .. IterMod - 1
                       /\ MaxMsgs \in Nat /\ MaxTries \in Nat
                       /\ MaxLapses \in Nat

Msgs  == 1 .. MaxMsgs
Slots == 0 .. IterMod - 1
None  == -1
NoMsg == 0      \* the message of a slot that was never written
Mixed == -1     \* a payload put together from packets of several messages

States == {"FREE", "RECEIVED", "PROCESSING", "PROCESSED", "CLEARED"}
Kinds  == {"SHORT", "DATA", "GROUP_START", "GROUP_START_OLD"}

\* nbfi_transport_frame_t; the payload is the part "part" of message "msg",
\* and in a group start the number "n" of packets of the group.
Frame == [kind : Kinds, ack : BOOLEAN, multi : BOOLEAN, iter : Slots,
          msg : Msgs \cup {NoMsg}, part : Slots, n : Slots]

\* What a slot holds before its first packet: zeroed memory, nobody reads it.
Zero == [kind |-> "DATA", ack |-> FALSE, multi |-> FALSE, iter |-> 0,
         msg |-> NoMsg, part |-> 0, n |-> 0]

IsStart(f) == f.kind \in {"GROUP_START", "GROUP_START_OLD"}
IsSystem(f) == f.kind # "DATA"

VARIABLES
    buf,        \* nbfi_RX_pktBuf: state, frame and age of each slot
    dlIter,     \* nbfi_state.DL_iter
    notCleared, \* was_not_cleared_after_groupe
    queue,      \* NBFi_received_DL_Buf: ready flag and payload
    head,       \* nbfi_receive_buf_head modulo QueueSize
    ackPkt,     \* the SYSTEM_PACKET_ACK waiting in the transmit ring, or NoAck
    station,    \* the base station
    log,        \* history: the payloads handed to the queue
    read,       \* history: the positions of log the application has read
    confirmed,  \* history: messages confirmed to the base station in time
    sinceClear, \* history: ITERs used since the ring was last cleared
    lapses      \* what the bound leaves

devVars  == <<buf, dlIter, notCleared, queue, head, ackPkt>>
histVars == <<log, read, confirmed, sinceClear>>
vars     == <<devVars, station, histVars, lapses>>

NoAck == [iter |-> None, has |-> {}]
-----------------------------------------------------------------------------
(***************************************************************************)
(* The ring of received packets.                                           *)
(***************************************************************************)
At(i) == i % IterMod

Dist(d, s) == At(s - d - 1 + IterMod)       \* steps of a scan from d + 1 to s
Received(b, s) == b[s].st = "RECEIVED"

\* Mutant: a packet of a group that is not complete yet is left waiting.
Clear_KeepsWaiting(b, besides, oldOnly) ==
    [s \in Slots |->
        IF b[s].st \in {"FREE", "RECEIVED"} \/ (oldOnly /\ ~b[s].old) THEN b[s]
        ELSE [b[s] EXCEPT !.st = IF b[s].f.iter = besides THEN "RECEIVED" ELSE "CLEARED"]]

\* NBFi_Clear_RX_Buffer.  A slot that was written is kept when its ITER is
\* "besides"; every other one is cleared, or only the old ones.
Clear(b, besides, oldOnly) ==
    [s \in Slots |->
        IF b[s].st = "FREE" THEN b[s]
        ELSE IF b[s].f.iter = besides
        THEN [b[s] EXCEPT !.st = "RECEIVED"]
        ELSE IF oldOnly => b[s].old THEN [b[s] EXCEPT !.st = "CLEARED"]
        ELSE b[s]]

\* Mutant: every slot that was ever written counts.
AckMask_NotFree(b, d) == {s \in Slots \ {d} : b[s].st # "FREE"}

\* NBFi_Get_RX_ACK_Mask: the ITERs whose bit is set.
AckMask(b, d) ==
    {s \in Slots \ {d} : b[s].st \in {"RECEIVED", "PROCESSED"}}

\* Mutant: the duplicate is compared with a slot that is still waiting only.
Duplicate_Waiting(b, d, f) == b[d].f = f /\ b[d].st = "RECEIVED"

\* NBFi_Check_RX_Packet_Duplicate: the header and payload of the slot written
\* last, whatever became of it.
Duplicate(b, d, f) == b[d].st # "FREE" /\ b[d].f = f

\* NBFi_AllocateRxPkt and the copy of the frame.
Store(b, f) == [b EXCEPT ![f.iter] = [st |-> "RECEIVED", f |-> f, old |-> FALSE]]

-----------------------------------------------------------------------------
(***************************************************************************)
(* NBFi_Get_QueuedRXPkt: a group is complete when the slots after its      *)
(* start packet hold enough packets with the MULTI bit; any other packet   *)
(* is complete by itself, unless it is the middle of a group.              *)
(***************************************************************************)
GroupFrom(s, n) == {At(s + j) : j \in 0 .. n - 1}

IsGroup(b, s) ==
    LET f == b[s].f
    IN  /\ f.multi /\ IsStart(f)
        /\ f.n < IterMod
        /\ \A u \in GroupFrom(s, f.n) : Received(b, u) /\ b[u].f.multi

IsSingle(b, s) == ~(b[s].f.multi /\ (IsStart(b[s].f) \/ ~IsSystem(b[s].f)))

Complete(b) == {s \in Slots : Received(b, s) /\ (IsGroup(b, s) \/ IsSingle(b, s))}

QueuedRx(b, d) ==
    IF Complete(b) = {} THEN None
    ELSE CHOOSE s \in Complete(b) : \A u \in Complete(b) : Dist(d, s) <= Dist(d, u)

\* The message a complete payload is, if it is one.
IsWhole(b, s) ==
    /\ b[s].f.part = 0
    /\ IsGroup(b, s) =>
        \A j \in 0 .. b[s].f.n - 1 :
            /\ b[At(s + j)].f.msg = b[s].f.msg
            /\ b[At(s + j)].f.part = j

Payload(b, s) == IF IsWhole(b, s) THEN b[s].f.msg ELSE Mixed

(***************************************************************************)
(* One turn of the loop of NBFi_ProcessRxPackets.  A packet that asked for *)
(* an ACK is CLEARED when its group is taken, the others are PROCESSED and *)
(* still count in the ACK mask.  The CRC of a group is taken to tell every *)
(* mix of packets from a message; a mismatch clears the ring but for the   *)
(* packet received last and ends the loop.                                 *)
(***************************************************************************)
Taken(b, s) ==
    IF b[s].f.kind = "SHORT"
    THEN [b EXCEPT ![s].st = IF Mack < 2 THEN "PROCESSED" ELSE "PROCESSING"]
    ELSE LET group == IF IsGroup(b, s) THEN GroupFrom(s, b[s].f.n) ELSE {s}
             keep(u) == ~b[u].f.ack \/ (Mack < 2 /\ ~IsGroup(b, s))
         IN  [u \in Slots |->
                 IF u \in group
                 THEN [b[u] EXCEPT !.st = IF keep(u) THEN "PROCESSED" ELSE "CLEARED"]
                 ELSE b[u]]

BadCrc(b, s) == b[s].f.kind = "GROUP_START" /\ ~IsWhole(b, s)

HandUp(b, d) ==
    LET s == QueuedRx(b, d)
    IN  IF s = None THEN [buf |-> b, out |-> <<>>, go |-> FALSE]
        ELSE IF BadCrc(b, s)
        THEN [buf |-> Clear(Taken(b, s), d, FALSE), out |-> <<>>, go |-> FALSE]
        ELSE [buf |-> Taken(b, s), out |-> <<Payload(b, s)>>, go |-> TRUE]

\* NBFi_ProcessRxPackets: turns until nothing complete is left.
Drain(b, d) ==
    LET turn[k \in 0 .. IterMod] ==
            IF k = 0 THEN [buf |-> b, out |-> <<>>, go |-> TRUE]
            ELSE LET x == turn[k - 1]
                     y == HandUp(x.buf, d)
                 IN  IF x.go THEN [y EXCEPT !.out = x.out \o @] ELSE x
    IN  turn[IterMod]

-----------------------------------------------------------------------------
(***************************************************************************)
(* The queue towards the application.  NBFi_Queue_Next_DL overwrites the   *)
(* oldest entry, read or not; an entry holds the position of its payload   *)
(* in the history.                                                         *)
(***************************************************************************)
Enqueue_KeepUnread(q, h, at, n) ==      \* Mutant: an unread entry is kept
    [i \in DOMAIN q |->
        LET mine == {k \in 1 .. n : (h + k - 1) % QueueSize = i}
        IN  IF mine = {} \/ q[i].ready THEN q[i]
            ELSE [ready |-> TRUE, pos |-> at + CHOOSE k \in mine : TRUE]]

Enqueue(q, h, at, n) ==
    [i \in DOMAIN q |->
        LET mine == {k \in 1 .. n : (h + k - 1) % QueueSize = i}
        IN  IF mine = {} THEN q[i]
            ELSE [ready |-> TRUE,
                  pos   |-> at + CHOOSE k \in mine : \A j \in mine : k >= j]]

\* NBFi_Next_Ready_DL: the first ready entry from the oldest on.
Ready(q)    == {i \in DOMAIN q : q[i].ready}
QAge(h, i)  == (i - h + QueueSize) % QueueSize

\* Mutant: the newest entry first.
NextReady_Newest(q, h) == CHOOSE i \in Ready(q) : \A j \in Ready(q) : QAge(h, i) >= QAge(h, j)

NextReady(q, h) == CHOOSE i \in Ready(q) : \A j \in Ready(q) : QAge(h, i) <= QAge(h, j)

\* Mutant: the head is not taken modulo the size of the queue.
HandOver_FreeHead(out) ==
    /\ queue' = Enqueue(queue, head, Len(log), Len(out))
    /\ head' = head + Len(out)
    /\ log' = log \o out

HandOver(out) ==
    /\ queue' = Enqueue(queue, head, Len(log), Len(out))
    /\ head' = (head + Len(out)) % QueueSize
    /\ log' = log \o out

-----------------------------------------------------------------------------
(***************************************************************************)
(* NBFi_ParseReceivedPacket for a frame with a payload: a start packet     *)
(* clears the old packets when no CLEAR command followed the group before; *)
(* a duplicate of the packet received last is not stored again; a packet   *)
(* that asks for it is answered, unless an ACK is still waiting to be sent.*)
(***************************************************************************)
Kept(f) == IF IsStart(f) /\ notCleared THEN Clear(buf, None, TRUE) ELSE buf

Again(f) == Duplicate(Kept(f), dlIter, f)

\* The ring with the frame in it, before NBFi_ProcessRxPackets.
Written(f) == IF Again(f) THEN Kept(f) ELSE Store(Kept(f), f)

Receive(f) ==
    LET d == IF Again(f) THEN dlIter ELSE f.iter
        x == Drain(Written(f), d)
    IN  /\ buf' = x.buf
        /\ dlIter' = d
        /\ notCleared' = (notCleared \/ IsStart(f))
        /\ HandOver(x.out)
        /\ ackPkt' = IF f.ack /\ ackPkt = NoAck
                     THEN [iter |-> d, has |-> AckMask(x.buf, d)]
                     ELSE ackPkt

-----------------------------------------------------------------------------
(***************************************************************************)
(* The base station.  win holds the frames of the current window in ITER   *)
(* order, todo the indices still to be sent, wait the index of the frame   *)
(* whose ACK is awaited (0: none).                                         *)
(***************************************************************************)
Offers ==
    /\ station.wait = 0 /\ station.todo = {} /\ ~station.clear
    /\ station.offered < MaxMsgs
    /\ \E size \in Sizes :
        LET m == station.offered + 1
            n == IF size = 0 THEN 1 ELSE size
            asks(j) == j = n - 1 /\ (n > 1 \/ station.iter % Mack = 0)
            frame(j) == [kind  |-> IF size = 0 THEN "SHORT"
                                   ELSE IF n > 1 /\ j = 0 THEN Start ELSE "DATA",
                         ack   |-> asks(j),
                         multi |-> n > 1,
                         iter  |-> At(station.iter + j),
                         msg   |-> m,
                         part  |-> j,
                         n     |-> IF n > 1 /\ j = 0 THEN n ELSE 0]
            k == Len(station.win)
        IN  /\ k + n < IterMod
            /\ station' = [station EXCEPT !.offered = m,
                                          !.iter = At(@ + n),
                                          !.win = @ \o [j \in 1 .. n |-> frame(j - 1)],
                                          !.todo = k + 1 .. k + n]
            /\ sinceClear' = IF sinceClear + n > IterMod THEN IterMod + 1
                             ELSE sinceClear + n
    /\ UNCHANGED <<devVars, log, read, confirmed, lapses>>

\* The next frame of the window goes out and is received, or lost.
Transmits ==
    /\ station.todo # {}
    /\ LET j == CHOOSE i \in station.todo : \A u \in station.todo : i <= u
           f == station.win[j]
       IN  /\ station' = [station EXCEPT !.todo = @ \ {j},
                                         !.wait = IF f.ack THEN j ELSE 0]
           /\ \/ Receive(f)
              \/ UNCHANGED <<devVars, log>>
    /\ UNCHANGED <<read, confirmed, sinceClear, lapses>>

\* The messages of the window.
Covered(win) == {win[i].msg : i \in DOMAIN win}

\* The walk over an ACK: what it misses is sent again, the last of it asking
\* for the next ACK; when nothing is missing the window is done.
Confirm(iter, has) ==
    LET w == station.wait
        missing == {i \in 1 .. w - 1 : station.win[i].iter \notin has}
        last == CHOOSE i \in missing : \A u \in missing : i >= u
    IN  IF w = 0 \/ station.win[w].iter # iter
        THEN UNCHANGED <<station, confirmed>>
        ELSE IF missing = {}
        THEN /\ station' = [station EXCEPT !.win = <<>>, !.wait = 0, !.tries = 0,
                                           !.clear = TRUE]
             /\ confirmed' = IF sinceClear <= IterMod
                             THEN confirmed \cup Covered(station.win)
                             ELSE confirmed
        ELSE /\ station' = [station EXCEPT !.todo = missing, !.wait = 0,
                                           !.win[last].ack = TRUE]
             /\ UNCHANGED confirmed

\* The device sends the ACK it queued; the base station hears it, or not.
SendAck ==
    /\ ackPkt # NoAck
    /\ ackPkt' = NoAck
    /\ \/ Confirm(ackPkt.iter, ackPkt.has)
       \/ UNCHANGED <<station, confirmed>>
    /\ UNCHANGED <<buf, dlIter, notCleared, queue, head, log, read, sinceClear, lapses>>

\* No ACK came in time: the frame that asked for it again, or the window lost.
Timeout ==
    /\ station.wait # 0
    /\ station' = IF station.tries < MaxTries
                  THEN [station EXCEPT !.todo = {station.wait}, !.wait = 0, !.tries = @ + 1]
                  ELSE [station EXCEPT !.win = <<>>, !.wait = 0, !.tries = 0]
    /\ UNCHANGED <<devVars, histVars, lapses>>

\* The CLEAR command after a confirmed window.
SendClear ==
    /\ station.clear
    /\ station' = [station EXCEPT !.clear = FALSE]
    /\ \/ /\ buf' = Clear(buf, None, FALSE)
          /\ notCleared' = FALSE
          /\ sinceClear' = 0
          /\ UNCHANGED <<dlIter, queue, head, ackPkt>>
       \/ UNCHANGED <<devVars, sinceClear>>
    /\ UNCHANGED <<log, read, confirmed, lapses>>

-----------------------------------------------------------------------------
\* NBFi_get_Received_Packet in the main loop.
AppRead ==
    /\ Ready(queue) # {}
    /\ LET i == NextReady(queue, head)
       IN  /\ read' = Append(read, queue[i].pos)
           /\ queue' = [queue EXCEPT ![i].ready = FALSE]
    /\ UNCHANGED <<buf, dlIter, notCleared, head, ackPkt, station, log, confirmed,
                   sinceClear, lapses>>

\* Ten minutes pass between two windows of the base station (bound: none
\* outlasts them): every packet in the ring is old now.
TenMinutes ==
    /\ lapses < MaxLapses /\ station.win = <<>>
    /\ lapses' = lapses + 1
    /\ buf' = [s \in Slots |-> [buf[s] EXCEPT !.old = TRUE]]
    /\ UNCHANGED <<dlIter, notCleared, queue, head, ackPkt, station, histVars>>

Init ==
    /\ buf = [s \in Slots |-> [st |-> "FREE", f |-> Zero, old |-> TRUE]]
    /\ dlIter = 0
    /\ notCleared = FALSE
    /\ queue = [i \in 0 .. QueueSize - 1 |-> [ready |-> FALSE, pos |-> 0]]
    /\ head = 0
    /\ ackPkt = NoAck
    /\ station = [offered |-> 0, iter |-> 0, win |-> <<>>, todo |-> {},
                  wait |-> 0, tries |-> 0, clear |-> FALSE]
    /\ log = <<>> /\ read = <<>> /\ confirmed = {} /\ sinceClear = 0
    /\ lapses = 0

Next == \/ Offers \/ Transmits \/ SendAck \/ Timeout \/ SendClear
        \/ AppRead \/ TenMinutes

Spec == Init /\ [][Next]_vars

-----------------------------------------------------------------------------
(***************************************************************************)
(* Type correctness.                                                       *)
(***************************************************************************)
TypeOK ==
    /\ buf \in [Slots -> [st : States, f : Frame, old : BOOLEAN]]
    /\ dlIter \in Slots
    /\ notCleared \in BOOLEAN
    /\ head \in 0 .. QueueSize - 1
    /\ queue \in [0 .. QueueSize - 1 -> [ready : BOOLEAN, pos : Nat]]
    /\ ackPkt \in [iter : Slots \cup {None}, has : SUBSET Slots]
    /\ log \in Seq(Msgs \cup {Mixed})
    /\ read \in Seq(Nat)
    /\ confirmed \subseteq Msgs

Handed == {log[i] : i \in DOMAIN log}

\* A reception never completes a group with packets of another message, with
\* or without the CRC of the group: abandoned groups leave their packets in
\* the ring, and the CLEAR command may be lost, but as long as no more than
\* one lap of ITERs was used since the device last heard one, no slot of the
\* lap before answers for a packet that is missing (nbfi_transport.c:317-346,
\* nbfi_transport_misc.c:482-530).  After the lap only the CRC8 of
\* GROUP_START stands between the mix and the application.
NoMixInLap ==
    sinceClear <= IterMod =>
        \A j \in station.todo :
            LET b == Written(station.win[j])
            IN  \A s \in Complete(b) : IsWhole(b, s)

\* A message is handed to the queue at most once and never after a later one,
\* whatever is repeated because an ACK was lost or sent with a stale mask
\* (nbfi_transport.c:549-567).  In mack_mode 1.
HandedOnce ==
    \A i, j \in DOMAIN log : i < j /\ log[j] \in Msgs => log[i] < log[j]

\* In any mack_mode: a packet that is received again is a duplicate, and its
\* message is not handed to the queue again (nbfi_transport.c:540).
NeverTwice ==
    \A i, j \in DOMAIN log : i # j /\ log[j] \in Msgs => log[i] # log[j]

\* What the base station takes as delivered from the ACK masks was handed to
\* the queue (nbfi_transport_misc.c:389-410), as long as no more than one lap
\* of ITERs was used since the device last heard a CLEAR command: a slot that
\* still holds a packet of the lap before answers for the new one.
ConfirmedIsHanded == confirmed \subseteq Handed

\* The last QueueSize payloads handed over are still there for a main loop
\* that is late, unless it has read them; an older one may be overwritten
\* (nbfi_transport_misc.c:794-829).
NewestKept ==
    \A p \in DOMAIN log : p > Len(log) - QueueSize =>
        \/ \E i \in DOMAIN read : read[i] = p
        \/ \E i \in DOMAIN queue : queue[i] = [ready |-> TRUE, pos |-> p]

\* The messages of the base station the application has read, as read.
ReadMsgs == [i \in DOMAIN read |-> log[read[i]]]

Service == INSTANCE DlService WITH
    MaxOffers <- MaxMsgs,
    offered   <- station.offered,
    last      <- IF ReadMsgs = <<>> THEN 0 ELSE ReadMsgs[Len(ReadMsgs)]

\* The transport implements the downlink service: what the application reads
\* is an increasing selection of what the base station offered.
ServiceSpec == Service!Spec
=============================================================================
