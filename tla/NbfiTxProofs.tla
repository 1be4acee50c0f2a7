---------------------------- MODULE NbfiTxProofs ----------------------------
(***************************************************************************)
(* Theorems about NbfiTx for every value of its constants.                 *)
(*                                                                         *)
(* Part 1: operators of the transmit ring return rings.                    *)
(* Part 2: type correctness.                                               *)
(* Part 3: only a message that asks for a handshake can be declared LOST.  *)
(***************************************************************************)
EXTENDS NbfiTx, TLAPS

USE TxSizeAssumption, IterAssumption, IdAssumption, RetryAssumption

-----------------------------------------------------------------------------
(***************************************************************************)
(* Part 1.                                                                 *)
(***************************************************************************)

LEMMA AnyOfIn == ASSUME NEW S PROVE AnyOf(S) = None \/ AnyOf(S) \in S
BY DEF AnyOf

LEMMA OldestIn ==
    ASSUME NEW h, NEW S
    PROVE Oldest(h, S) = None \/ Oldest(h, S) \in S
BY AnyOfIn DEF Oldest

LEMMA NewestIn ==
    ASSUME NEW h, NEW S
    PROVE Newest(h, S) = None \/ Newest(h, S) \in S
BY AnyOfIn DEF Newest

\* A slot is a cell, and neither the idle cell nor "no packet" is a slot.
LEMMA CellFacts ==
    /\ Slots \subseteq Cells /\ Idle \in Cells
    /\ Idle \notin Slots /\ None \notin Cells
    /\ \A c \in Cells : c # Idle => c \in Slots
    /\ 0 \in Slots
    /\ \A s \in Slots : (s + 1) % TxSize \in Slots
BY DEF Slots, Cells, Idle, None

LEMMA WrapIn == ASSUME NEW i \in Int PROVE i % IterMod \in Iters
BY DEF Iters

LEMMA FreePktType == FreePkt \in Packet
BY DEF FreePkt, Packet, States, AppKinds, SysKinds, Iters

LEMMA SysPktType ==
    ASSUME NEW kind \in SysKinds, NEW st \in States, NEW i \in Iters
    PROVE SysPkt(kind, st, i) \in Packet
BY FreePktType DEF SysPkt, FreePkt, Packet

LEMMA PktStType ==
    ASSUME NEW p \in Packet, NEW st \in States
    PROVE [p EXCEPT !.st = st] \in Packet
BY DEF Packet

LEMMA PktRetryType ==
    ASSUME NEW p \in Packet, NEW n \in Nat
    PROVE [p EXCEPT !.retry = n] \in Packet
BY DEF Packet

LEMMA PktsType ==
    ASSUME NEW r \in Ring, NEW f \in [Cells -> Packet]
    PROVE [r EXCEPT !.pkt = f] \in Ring
BY DEF Ring

LEMMA SetPktType ==
    ASSUME NEW r \in Ring, NEW s \in Cells, NEW p \in Packet
    PROVE SetPkt(r, s, p) \in Ring
BY DEF SetPkt, Ring

LEMMA RingPkt ==
    ASSUME NEW r \in Ring, NEW s \in Cells
    PROVE r.pkt[s] \in Packet
BY DEF Ring

LEMMA SetStType ==
    ASSUME NEW r \in Ring, NEW s \in Cells, NEW st \in States
    PROVE SetSt(r, s, st) \in Ring
<1>1. SetSt(r, s, st) = SetPkt(r, s, [r.pkt[s] EXCEPT !.st = st])
  BY DEF SetSt, SetPkt, Ring
<1>2. QED BY <1>1, RingPkt, PktStType, SetPktType

LEMMA EmptyRingType == EmptyRing \in Ring
BY FreePktType, CellFacts DEF EmptyRing, Ring

LEMMA AllocType ==
    ASSUME NEW r \in Ring, NEW p \in Packet
    PROVE Alloc(r, p) \in Ring
<1>1. r.head \in Slots /\ r.pkt \in [Cells -> Packet]
  BY DEF Ring
<1>2. [r.pkt EXCEPT ![r.head] = p] \in [Cells -> Packet]
  BY <1>1, CellFacts
<1>3. (r.head + 1) % TxSize \in Slots
  BY <1>1, CellFacts
<1>4. QED BY <1>2, <1>3 DEF Alloc, Ring

LEMMA QueuedIn ==
    ASSUME NEW r, NEW a
    PROVE Queued(r, a) = None \/ Queued(r, a) \in Slots
<1>1. Urgent(r) \subseteq Slots /\ Again(r) \subseteq Slots /\ Fresh(r, a) \subseteq Slots
  BY DEF Urgent, Again, Fresh, InState
<1>2. QED BY <1>1, OldestIn DEF Queued

LEMMA RequeueType ==
    ASSUME NEW r \in Ring, NEW s
    PROVE Requeue(r, s) \in Ring
BY SetStType, CellFacts DEF Requeue, States

LEMMA SweepType ==
    ASSUME NEW r \in Ring, NEW a
    PROVE Sweep(r, a) \in Ring
BY RequeueType DEF Sweep

LEMMA CountSweepType ==
    ASSUME NEW r \in Ring, NEW a
    PROVE CountSweep(r, a) \in Ring
BY RequeueType DEF CountSweep

LEMMA CloseActiveType ==
    ASSUME NEW r \in Ring, NEW a
    PROVE CloseActive(r, a) \in Ring
<1>1. \A c \in Cells : [r.pkt[c] EXCEPT !.st = "LOST"] \in Packet
  BY RingPkt, PktStType DEF States
<1>2. [c \in Cells |->
        IF c = a \/ (c \in Slots /\ r.pkt[c].st = "SENT_NOACKED")
        THEN [r.pkt[c] EXCEPT !.st = "LOST"]
        ELSE r.pkt[c]] \in [Cells -> Packet]
  BY <1>1, RingPkt
<1>3. QED BY <1>2, PktsType DEF CloseActive

LEMMA SendSyncType ==
    ASSUME NEW r \in Ring, NEW i \in Iters
    PROVE SendSync(r, i) \in Ring
<1>1. [c \in Cells |-> IF c \in SysQueued(r, "SYNC") THEN FreePkt ELSE r.pkt[c]]
        \in [Cells -> Packet]
  BY RingPkt, FreePktType
<1>2. SysPkt("SYNC", "NEED_TO_SEND_RIGHT_NOW", i) \in Packet
  BY SysPktType DEF SysKinds, States
<1>3. QED BY <1>1, <1>2, PktsType, AllocType DEF SendSync

LEMMA SendClearType ==
    ASSUME NEW r \in Ring, NEW i \in Iters
    PROVE SendClear(r, i) \in Ring
<1>1. SysPkt("CLEAR_EXT", "NEED_TO_SEND_RIGHT_NOW", i) \in Packet
  BY SysPktType DEF SysKinds, States
<1>2. QED BY <1>1, AllocType DEF SendClear

LEMMA SentByIterIn ==
    ASSUME NEW r, NEW i
    PROVE SentByIter(r, i) = None \/ SentByIter(r, i) \in Slots
BY NewestIn DEF SentByIter

-----------------------------------------------------------------------------
(***************************************************************************)
(* Part 2.                                                                 *)
(***************************************************************************)

LEMMA SetStatusType ==
    ASSUME NEW u \in [Ids -> [st : UlStatuses, rep : BOOLEAN]],
           NEW n, NEW id8, NEW st \in UlStatuses
    PROVE SetStatus(u, n, id8, st) \in [Ids -> [st : UlStatuses, rep : BOOLEAN]]
BY DEF SetStatus

LEMMA ClearTxType == ASSUME NEW r \in Ring PROVE ClearTx(r) \in Ring
<1>1. [c \in Cells |-> IF c = Idle THEN r.pkt[c] ELSE FreePkt] \in [Cells -> Packet]
  BY RingPkt, FreePktType
<1>2. QED BY <1>1, PktsType DEF ClearTx

LEMMA AfterLossType ==
    ASSUME NEW r \in Ring, NEW policy, ulIter \in Iters
    PROVE AfterLoss(r, policy) \in Ring
BY SendSyncType DEF AfterLoss

LEMMA RestoredType ==
    ASSUME NEW r \in Ring, active \in Cells, oldState \in States
    PROVE Restored(r) \in Ring
BY SetStType DEF Restored

LEMMA LookAtQueueType ==
    ASSUME NEW r \in Ring, NEW a
    PROVE LookAtQueue(r, a) \in Ring
BY SweepType, CountSweepType DEF LookAtQueue

LEMMA FragmentType ==
    ASSUME NEW id \in Nat, NEW len \in Nat, NEW flags, NEW first \in Iters,
           NEW j \in Nat, NEW n \in Nat, NEW unacked \in Nat, NEW m
    PROVE Fragment(id, len, flags, first, j, n, unacked, m) \in Packet
<1>1. Wrap(first + j) \in Iters
  BY WrapIn DEF Wrap, Iters
<1>2. id % IdMod \in 0 .. IdMod - 1
  OBVIOUS
<1>3. Asks(flags) \in BOOLEAN
  BY ModeAssumption DEF Asks
<1>4. AckMode(m) \in BOOLEAN
  BY DEF AckMode
<1>5. (IF "NO_RETRIES" \in flags THEN NoRetries ELSE 0) \in Nat
  BY DEF NoRetries
<1>6. 0 \in 0 .. MaxSent
  OBVIOUS
<1>7. QED
  BY <1>1, <1>2, <1>3, <1>4, <1>5, <1>6
     DEF Fragment, Packet, AckTurn, States, AppKinds, SysKinds

LEMMA AfterAirType ==
    ASSUME NEW p \in Packet
    PROVE AfterAir(p) \in Packet
<1>1. StateOnAir(p) # "SENT" => StateOnAir(p) \in States
  BY DEF StateOnAir, States
<1>2. Bump(p.sent) \in 0 .. MaxSent
  BY DEF Bump, Packet
<1>3. CASE StateOnAir(p) = "SENT"
  BY <1>3, FreePktType DEF AfterAir
<1>4. CASE StateOnAir(p) # "SENT"
  <2>1. [p EXCEPT !.st = StateOnAir(p)] \in Packet
    BY <1>1, <1>4, PktStType
  <2>2. [p EXCEPT !.st = StateOnAir(p), !.sent = Bump(@)] \in Packet
    BY <1>2, <2>1 DEF Packet
  <2>3. QED BY <1>4, <2>2 DEF AfterAir
<1>5. QED BY <1>3, <1>4

LEMMA AtIn ==
    ASSUME NEW r, NEW a, NEW k
    PROVE At(r, a, k) = None \/ At(r, a, k) \in Slots
BY SentByIterIn DEF At

LEMMA MarkedType ==
    ASSUME NEW r \in Ring, NEW a, NEW has
    PROVE Marked(r, a, has) \in Ring
<1>1. ASSUME NEW c \in Cells
      PROVE /\ r.pkt[c] \in Packet
            /\ [r.pkt[c] EXCEPT !.st = "DELIVERED"] \in Packet
            /\ [r.pkt[c] EXCEPT !.retry = @ + 1] \in Packet
            /\ [r.pkt[c] EXCEPT !.st = "QUEUED_AGAIN", !.retry = @ + 1] \in Packet
  <2>1. r.pkt[c] \in Packet /\ r.pkt[c].retry + 1 \in Nat
    BY RingPkt DEF Packet
  <2>2. [r.pkt[c] EXCEPT !.st = "QUEUED_AGAIN"] \in Packet
    BY <2>1, PktStType DEF States
  <2>3. [[r.pkt[c] EXCEPT !.st = "QUEUED_AGAIN"] EXCEPT !.retry = r.pkt[c].retry + 1] \in Packet
    BY <2>1, <2>2, PktRetryType
  <2>4. [r.pkt[c] EXCEPT !.st = "QUEUED_AGAIN", !.retry = @ + 1]
          = [[r.pkt[c] EXCEPT !.st = "QUEUED_AGAIN"] EXCEPT !.retry = r.pkt[c].retry + 1]
    BY <2>1 DEF Packet
  <2>5. QED BY <2>1, <2>3, <2>4, PktStType, PktRetryType DEF States
<1>2. QED BY <1>1, PktsType DEF Marked

LEMMA AskAgainType ==
    ASSUME NEW r \in Ring, NEW a \in Cells, NEW s \in Cells
    PROVE AskAgain(r, a, s) \in Ring
<1> DEFINE m == (r.pkt[a].mack - ((r.pkt[a].iter - r.pkt[s].iter) % IterMod)) % 64
<1> DEFINE p == [r.pkt[s] EXCEPT !.ack = TRUE, !.mack = m]
<1>1. r.pkt[a] \in Packet /\ r.pkt[s] \in Packet
  BY RingPkt
<1>2. m \in Nat
  <2>1. r.pkt[a].iter - r.pkt[s].iter \in Int
    BY <1>1 DEF Packet, Iters
  <2>2. (r.pkt[a].iter - r.pkt[s].iter) % IterMod \in Nat
    BY <2>1, WrapIn DEF Iters
  <2>3. QED BY <1>1, <2>2 DEF Packet
<1>3. p \in Packet
  <2> HIDE DEF m
  <2> QED BY <1>1, <1>2 DEF Packet
<1>4. AskAgain(r, a, s) = SetPkt(r, s, p)
  BY DEF AskAgain, SetPkt, Ring
<1>5. QED BY <1>3, <1>4, SetPktType

LEMMA ResendType ==
    ASSUME TypeOK, NEW r \in Ring, NEW has, NEW policy
    PROVE /\ Resend(r, active, has, policy).ring \in Ring
          /\ Resend(r, active, has, policy).ul
               \in [Ids -> [st : UlStatuses, rep : BOOLEAN]]
<1> DEFINE r1 == IF GivenUp(r, active, has) = {} THEN Marked(r, active, has)
                 ELSE AfterLoss(CloseActive(Marked(r, active, has), active), policy)
           u1 == GaveUpStatus(r, active, has, ul)
           k0 == FirstAbsent(r, active, has)
           r2 == IF LeftOver(r, active, has) = {} THEN SendClear(r1, r1.pkt[active].iter)
                 ELSE r1
<1>1. active \in Cells /\ ulIter \in Iters
  BY DEF TypeOK
<1>2. r1 \in Ring
  BY <1>1, MarkedType, CloseActiveType, AfterLossType
<1>3. u1 \in [Ids -> [st : UlStatuses, rep : BOOLEAN]]
  BY SetStatusType DEF TypeOK, GaveUpStatus, UlStatuses
<1>4. r2 \in Ring
  <2>1. r1.pkt[active].iter \in Iters
    BY <1>1, <1>2, RingPkt DEF Packet
  <2>2. QED BY <1>2, <2>1, SendClearType
<1>5. SetStatus(u1, sentId, r2.pkt[active].id, "DELIVERED")
        \in [Ids -> [st : UlStatuses, rep : BOOLEAN]]
  BY <1>3, SetStatusType DEF UlStatuses
<1>6. CASE k0 # None
  <2>1. Resend(r, active, has, policy)
          = [ring |-> AskAgain(r1, active, At(r, active, k0)), ul |-> u1]
    BY <1>6 DEF Resend
  <2>2. AskAgain(r1, active, At(r, active, k0)) \in Ring
    \* Every step of the walk found a packet.
    <3>1. AckWindow(r, active) \subseteq Nat
      BY <1>1, RingPkt DEF AckWindow, Packet
    <3>2. k0 \in Absent(r, active, has)
      BY <1>6, AnyOfIn DEF FirstAbsent
    <3>3. k0 \in AckWindow(r, active) /\ \A j \in Stops(r, active, has) : k0 < j
      BY <3>2 DEF Absent, Walked
    <3>4. k0 \notin Stops(r, active, has)
      BY <3>1, <3>3
    <3>5. At(r, active, k0) # None
      BY <3>3, <3>4 DEF Stops
    <3>6. QED BY <1>1, <1>2, <3>5, AtIn, AskAgainType, CellFacts
  <2> HIDE DEF r1, u1, k0
  <2>3. QED BY <1>3, <2>1, <2>2
<1>7. CASE k0 = None
  <2>1. Resend(r, active, has, policy)
          = [ring |-> r2, ul |-> SetStatus(u1, sentId, r2.pkt[active].id, "DELIVERED")]
    BY <1>7 DEF Resend
  <2> HIDE DEF r1, u1, r2, k0
  <2>2. QED BY <1>4, <1>5, <2>1
<1>8. QED BY <1>6, <1>7

LEMMA TypeOKInit == Init => TypeOK
<1>1. SUFFICES ASSUME Init PROVE TypeOK
  OBVIOUS
<1>2. 0 \in Iters
  BY DEF Iters
<1>3. ring \in Ring
  BY <1>1, <1>2, EmptyRingType, SendSyncType, SendClearType DEF Init
<1>4. ul \in [Ids -> [st : UlStatuses, rep : BOOLEAN]]
  BY <1>1 DEF Init, UlStatuses
<1>5. station \in [holds : SUBSET Iters, reply : Replies]
  BY <1>1, <1>2 DEF Init, NoReply, Replies
<1>6. active \in Cells /\ oldState \in States
  BY <1>1, CellFacts DEF Init, States
<1>7. told \in [Ids -> Seq(Verdicts)]
  BY <1>1 DEF Init
<1>8. /\ sentId \in 0 .. MaxMsgs /\ notAcked \in Nat
      /\ hbLeft \in 0 .. MaxHb /\ dlLeft \in 0 .. MaxDl /\ napsLeft \in 0 .. MaxNaps
  BY <1>1, StatAssumption, BoundAssumption DEF Init
<1>9. /\ frags \in [Ids -> SUBSET Iters] /\ confirm \subseteq Ids
      /\ heard \subseteq (0 .. IdMod - 1) \X Iters
  BY <1>1 DEF Init
<1>10. /\ ulIter \in Iters /\ lastIter \in Iters /\ transmit \in BOOLEAN
       /\ waitReceive \in BOOLEAN /\ waitExtra \in BOOLEAN /\ waitClear \in BOOLEAN
       /\ mode \in {Mode, "OFF"}
  BY <1>1, <1>2 DEF Init
<1>11. QED
  BY <1>3, <1>4, <1>5, <1>6, <1>7, <1>8, <1>9, <1>10 DEF TypeOK

LEMMA Send5Type ==
    ASSUME TypeOK, NEW len \in Lengths, NEW flags \in FlagSets, Send5(len, flags)
    PROVE TypeOK'
<1> DEFINE r     == CountSweep(ring, active)
           id    == sentId + 1
           n     == Fragments(len)
           k     == Allocatable(r, n)
           first == IF "SAME_TX_ITER" \in flags /\ k > 0 THEN lastIter ELSE ulIter
           room  == IF len <= MaxPayload THEN FreeSlots(ring, active, transmit) >= Mack + 3
                    ELSE FreeSlots(ring, active, transmit) >= len \div MaxPayload + 3
<1>1. len \in Nat /\ n \in Nat
  BY LengthAssumption DEF Fragments
<1>2. r \in Ring
  BY CountSweepType DEF TypeOK
<1>3. k \in Nat /\ k <= n
  <2> DEFINE S == {i \in 0 .. n - 1 :
                     /\ Blocked(r.pkt[(r.head + i) % TxSize])
                     /\ \A j \in 0 .. i - 1 : ~Blocked(r.pkt[(r.head + j) % TxSize])}
  <2>1. k = IF AnyOf(S) = None THEN n ELSE AnyOf(S)
    BY DEF Allocatable
  <2>2. AnyOf(S) = None \/ AnyOf(S) \in 0 .. n - 1
    BY AnyOfIn
  <2>3. QED BY <1>1, <2>1, <2>2
<1>4. first \in Iters
  BY DEF TypeOK
<1>5. CASE ~room
  BY <1>2, <1>5 DEF Send5, TypeOK
<1>6. CASE room
  <2>1. id \in Ids /\ id \in Nat
    BY StatAssumption DEF Send5, TypeOK, Ids
  <2>2. ring' \in Ring
    <3>1. r.head \in Slots /\ r.head \in Nat /\ (r.head + k) % TxSize \in Slots
      BY <1>2, <1>3 DEF Ring, Slots
    <3>2. \A c \in Slots : Age(r.head, c) \in Nat
      BY <3>1 DEF Age, Slots
    <3>3. \A c \in Slots : Fragment(id, len, flags, first, Age(r.head, c), n, notAcked, mode)
                              \in Packet
      BY <1>1, <1>4, <2>1, <3>2, FragmentType DEF TypeOK
    <3>4. [c \in Cells |-> IF c \in Slots /\ Age(r.head, c) < k
                           THEN Fragment(id, len, flags, first, Age(r.head, c), n, notAcked, mode)
                           ELSE r.pkt[c]] \in [Cells -> Packet]
      BY <1>2, <3>3, RingPkt
    <3>5. QED BY <1>6, <3>1, <3>4 DEF Send5, Ring
  <2>3. \A j \in Int : Wrap(first + j) \in Iters
    BY <1>4, WrapIn DEF Wrap, Iters
  <2>4. ulIter' \in Iters /\ lastIter' \in Iters
    <3>1. ulIter' = Wrap(first + k)
      BY <1>6 DEF Send5
    <3>2. lastIter' = IF k > 0 THEN Wrap(first + (k - 1)) ELSE lastIter
      BY <1>3, <1>4, <1>6 DEF Send5, Iters
    <3>3. QED BY <1>3, <2>3, <3>1, <3>2 DEF TypeOK
  <2>5. frags' \in [Ids -> SUBSET Iters]
    <3>1. {Wrap(first + j) : j \in 0 .. k - 1} \subseteq Iters
      BY <1>3, <2>3
    <3>2. QED BY <1>6, <3>1 DEF Send5, TypeOK
  <2>6. ul' \in [Ids -> [st : UlStatuses, rep : BOOLEAN]]
    <3>1. ul' = [ul EXCEPT ![id] = [st |-> "QUEUED", rep |-> FALSE]]
      BY <1>6 DEF Send5
    <3>2. [st |-> "QUEUED", rep |-> FALSE] \in [st : UlStatuses, rep : BOOLEAN]
      BY DEF UlStatuses
    <3>3. QED BY <2>1, <3>1, <3>2 DEF TypeOK
  <2>7. notAcked' \in Nat /\ confirm' \subseteq Ids /\ sentId' \in 0 .. MaxMsgs
    BY <1>6, <2>1 DEF Send5, TypeOK, Ids
  <2>8. QED
    BY <2>2, <2>4, <2>5, <2>6, <2>7 DEF Send5, TypeOK
<1>7. QED BY <1>5, <1>6

LEMMA StationType ==
    ASSUME TypeOK, NEW p \in Packet, Air(p)
    PROVE /\ station' \in [holds : SUBSET Iters, reply : Replies]
          /\ heard' \subseteq (0 .. IdMod - 1) \X Iters
<1>1. CASE UNCHANGED <<station, heard>>
  BY <1>1 DEF TypeOK
<1>2. CASE StationHears(p)
  <2> DEFINE holds == IF p.kind \in AppKinds THEN station.holds \cup {p.iter}
                      ELSE IF p.kind = "CLEAR_EXT" THEN {}
                      ELSE station.holds
             reply == IF ~p.ack THEN station.reply
                      ELSE IF p.kind \in AppKinds
                      THEN [type |-> "ACK", iter |-> p.iter, has |-> holds]
                      ELSE [type |-> "ACK_ON_SYS", iter |-> p.iter, has |-> {}]
  <2>1. /\ p.iter \in Iters /\ p.id \in 0 .. IdMod - 1
        /\ station.holds \subseteq Iters /\ station.reply \in Replies
    BY DEF TypeOK, Packet
  <2>2. holds \subseteq Iters
    BY <2>1
  <2>3. reply \in Replies
    <3> HIDE DEF holds
    <3> QED BY <2>1, <2>2 DEF Replies
  <2>4. station' = [holds |-> holds, reply |-> reply]
    BY <1>2 DEF StationHears
  <2>5. heard' \subseteq heard \cup {<<p.id, p.iter>>}
    BY <1>2 DEF StationHears
  <2> HIDE DEF holds, reply
  <2>6. QED BY <2>1, <2>2, <2>3, <2>4, <2>5 DEF TypeOK
<1>3. QED BY <1>1, <1>2 DEF Air

LEMMA SendNextType == ASSUME TypeOK, SendNext PROVE TypeOK'
<1> DEFINE r  == Sweep(ring, active)
           s  == Queued(ring, active)
           p  == r.pkt[s]
           st == StateOnAir(p)
           r1 == SetPkt(r, s, AfterAir(p))
           r2 == IF ~p.ack /\ IsSystem(p) THEN Sweep(r1, s) ELSE r1
           u  == SetStatus(ul, sentId, p.id, "INPROCESS")
<1>1. s \in Slots /\ s \in Cells
  BY QueuedIn, CellFacts DEF SendNext
<1>2. r \in Ring
  BY SweepType DEF TypeOK
<1>3. p \in Packet
  BY <1>1, <1>2, RingPkt
<1>4. r1 \in Ring
  BY <1>1, <1>2, <1>3, AfterAirType, SetPktType
<1>5. r2 \in Ring
  BY <1>4, SweepType
<1>6. Transmit(r, s)
  BY DEF SendNext
<1>7. ring' \in Ring
  <2> DEFINE more == Queued(r1, s) # None
             q    == [r2.pkt[s] EXCEPT !.multi = more]
  <2>1. q \in Packet
    <3>1. r2.pkt[s] \in Packet
      BY <1>1, <1>5, RingPkt
    <3> HIDE DEF r2
    <3>2. QED BY <3>1 DEF Packet
  <2>2. [r2 EXCEPT !.pkt[s].multi = more] = SetPkt(r2, s, q)
    <3> HIDE DEF r2, more
    <3> QED BY <1>1, <1>5 DEF SetPkt, Ring
  <2>3. ring' = r2 \/ ring' = [r2 EXCEPT !.pkt[s].multi = more]
    BY <1>6 DEF Transmit
  <2> HIDE DEF r2, q
  <2>4. QED BY <1>1, <1>5, <2>1, <2>2, <2>3, SetPktType
<1>8. ul' \in [Ids -> [st : UlStatuses, rep : BOOLEAN]]
  <2>1. u \in [Ids -> [st : UlStatuses, rep : BOOLEAN]]
    BY SetStatusType DEF TypeOK, UlStatuses
  <2>2. SetStatus(u, sentId, p.id, "DELIVERED") \in [Ids -> [st : UlStatuses, rep : BOOLEAN]]
    BY <2>1, SetStatusType DEF UlStatuses
  <2>3. ul' = u \/ ul' = SetStatus(u, sentId, p.id, "DELIVERED")
    BY <1>6 DEF Transmit
  <2> HIDE DEF u
  <2>4. QED BY <2>1, <2>2, <2>3
<1>9. active' \in Cells
  <2>1. active' = Idle \/ active' = s
    BY <1>6 DEF Transmit
  <2>2. QED BY <1>1, <2>1, CellFacts
<1>10. waitClear' \in BOOLEAN /\ waitReceive' \in BOOLEAN /\ transmit' \in BOOLEAN
  <2>1. p.multi \in BOOLEAN /\ waitReceive \in BOOLEAN
    BY <1>3 DEF Packet, TypeOK
  <2>2. QED BY <1>6, <2>1 DEF Transmit
<1>11. /\ station' \in [holds : SUBSET Iters, reply : Replies]
       /\ heard' \subseteq (0 .. IdMod - 1) \X Iters
  BY <1>3, <1>6, StationType DEF Transmit
<1>12. UNCHANGED <<oldState, sentId, ulIter, lastIter, notAcked, waitExtra,
                   mode, hbLeft, frags, confirm, told, dlLeft, napsLeft>>
  BY DEF SendNext
<1> HIDE DEF r, s, p, st, r1, r2, u
<1>13. QED
  BY <1>7, <1>8, <1>9, <1>10, <1>11, <1>12 DEF TypeOK

LEMMA ReceiveTimeoutType == ASSUME TypeOK, ReceiveTimeout PROVE TypeOK'
<1> DEFINE R  == [ring EXCEPT !.pkt[active].retry = @ + 1]
           p  == ring.pkt[active]
           p1 == [p EXCEPT !.retry = p.retry + 1]
<1>1. active \in Cells /\ ring \in Ring /\ ulIter \in Iters
  BY DEF TypeOK
<1>2. p \in Packet /\ p.retry + 1 \in Nat
  BY <1>1, RingPkt DEF Packet
<1>3. R \in Ring
  <2>1. p1 \in Packet
    BY <1>2, PktRetryType
  <2>2. R = SetPkt(ring, active, p1)
    BY <1>1 DEF SetPkt, Ring
  <2> HIDE DEF R, p1
  <2>3. QED BY <1>1, <2>1, <2>2, SetPktType
<1>4. ASSUME TimeoutRetry PROVE ring' \in Ring /\ ul' = ul
  <2> DEFINE p2 == [p1 EXCEPT !.st = "QUEUED_AGAIN"]
  <2>1. p2 \in Packet
    BY <1>2, PktRetryType, PktStType DEF States
  <2>2. ring' = SetPkt(ring, active, p2)
    BY <1>1, <1>2, <1>4 DEF TimeoutRetry, SetPkt, Ring, Packet
  <2> HIDE DEF p2
  <2>3. QED BY <1>1, <1>4, <2>1, <2>2, SetPktType DEF TimeoutRetry
<1>5. ASSUME NEW policy, TimeoutLost(policy)
      PROVE ring' \in Ring /\ ul' \in [Ids -> [st : UlStatuses, rep : BOOLEAN]]
  <2> DEFINE r1 == CloseActive(R, active)
             q  == [r1.pkt[active] EXCEPT !.retry = 0]
             r2 == IF policy = "requeue"
                   THEN [r1 EXCEPT !.pkt[active].retry = 0, !.pkt[active].st = "QUEUED"]
                   ELSE r1
  <2>1. r1 \in Ring
    BY <1>3, CloseActiveType
  <2>2. r2 \in Ring
    <3> HIDE DEF r1
    <3>1. q \in Packet
      BY <1>1, <2>1, RingPkt, PktRetryType
    <3>2. SetPkt(r1, active, q) \in Ring
      BY <1>1, <2>1, <3>1, SetPktType
    <3>3. [r1 EXCEPT !.pkt[active].retry = 0, !.pkt[active].st = "QUEUED"]
            = SetSt(SetPkt(r1, active, q), active, "QUEUED")
      BY <1>1, <2>1 DEF SetSt, SetPkt, Ring
    <3>4. QED BY <1>1, <2>1, <3>2, <3>3, SetStType DEF States
  <2>3. ring' = AfterLoss(r2, policy)
    BY <1>5 DEF TimeoutLost
  <2>4. ul' \in [Ids -> [st : UlStatuses, rep : BOOLEAN]]
    BY <1>5, SetStatusType DEF TimeoutLost, TypeOK, UlStatuses
  <2> HIDE DEF r2
  <2>5. QED BY <1>1, <2>2, <2>3, <2>4, AfterLossType
<1>6. ring' \in Ring /\ ul' \in [Ids -> [st : UlStatuses, rep : BOOLEAN]]
  BY <1>1, <1>4, <1>5 DEF ReceiveTimeout, TypeOK
<1> HIDE DEF R, p, p1
<1>7. QED
  BY <1>6 DEF ReceiveTimeout, TypeOK, histVars

\* A packet without a window is taken as delivered, and the walk over nothing
\* adds at most the CLEAR command.
LEMMA ResendEmpty ==
    ASSUME NEW r \in Ring, NEW a \in Cells, NEW has, NEW policy, r.pkt[a].mack = 0
    PROVE LET q == Resend(r, a, has, policy)
          IN  /\ q.ring = r \/ q.ring = SendClear(r, r.pkt[a].iter)
              /\ q.ul = SetStatus(ul, sentId, q.ring.pkt[a].id, "DELIVERED")
<1> DEFINE mk == Marked(r, a, has)
           r2 == IF LeftOver(r, a, has) = {} THEN SendClear(mk, mk.pkt[a].iter) ELSE mk
<1>1. AckWindow(r, a) = {}
  <2>1. 0 .. 0 - 1 = {}
    OBVIOUS
  <2>2. QED BY <2>1 DEF AckWindow
<1>2. /\ Stops(r, a, has) = {} /\ Walked(r, a, has) = {}
      /\ GivenUp(r, a, has) = {} /\ Absent(r, a, has) = {}
  BY <1>1 DEF Stops, Walked, GivenUp, Absent
<1>3. mk = r
  <2>1. mk.pkt = r.pkt
    BY <1>2 DEF Marked, Ring
  <2>2. QED BY <2>1 DEF Marked, Ring
<1>4. FirstAbsent(r, a, has) = None
  BY <1>2 DEF FirstAbsent, AnyOf
<1>5. Resend(r, a, has, policy)
        = [ring |-> r2, ul |-> SetStatus(ul, sentId, r2.pkt[a].id, "DELIVERED")]
  BY <1>2, <1>4 DEF Resend, GaveUpStatus
<1>6. r2 = r \/ r2 = SendClear(r, r.pkt[a].iter)
  <2> HIDE DEF mk
  <2> QED BY <1>3
<1> HIDE DEF r2, mk
<1>7. QED BY <1>5, <1>6

\* A packet as delivered: d is p in another state.
AsDelivered(d, p) ==
    /\ d \in Packet /\ d.st = "DELIVERED"
    /\ d.id = p.id /\ d.kind = p.kind /\ d.hs = p.hs /\ d.ack = p.ack
    /\ d.mack = p.mack /\ d.iter = p.iter /\ d.retry = p.retry /\ d.sent = p.sent

LEMMA TakeAckEmpty ==
    ASSUME NEW r \in Ring, active \in Cells, r.pkt[active].mack = 0,
           NEW reply, NEW policy, NEW t, t = TakeAck(r, reply, policy)
    PROVE \E d \in Packet, r1 \in Ring :
            /\ AsDelivered(d, r.pkt[active])
            /\ r1 = SetPkt(r, active, d) /\ r1.head = r.head
            /\ \A c \in Cells : r1.pkt[c] = IF c = active THEN d ELSE r.pkt[c]
            /\ t.ring = r1 \/ t.ring = SendClear(r1, d.iter)
            /\ \/ t.ul = ul
               \/ /\ reply.type = "ACK"
                  /\ t.ul = SetStatus(ul, sentId, t.ring.pkt[active].id, "DELIVERED")
<1> DEFINE d  == [r.pkt[active] EXCEPT !.st = "DELIVERED"]
           r1 == SetPkt(r, active, d)
<1>1. SetSt(r, active, "DELIVERED") = r1
  BY DEF SetSt, SetPkt, Ring
<1>2. AsDelivered(d, r.pkt[active])
  BY RingPkt DEF Packet, States, AsDelivered
<1>3. r1 \in Ring
  BY <1>2, SetPktType DEF AsDelivered
<1>4. r1.head = r.head /\ \A c \in Cells : r1.pkt[c] = IF c = active THEN d ELSE r.pkt[c]
  BY DEF SetPkt, Ring
<1>5. t = IF reply.type = "ACK" THEN Resend(r1, active, reply.has, policy)
          ELSE [ring |-> r1, ul |-> ul]
  BY <1>1 DEF TakeAck
<1>6. CASE reply.type = "ACK"
  <2> DEFINE has == reply.has
  <2> HIDE DEF has, d, r1
  <2>1. r1.pkt[active].mack = 0 /\ r1.pkt[active] = d
        /\ t = Resend(r1, active, has, policy)
    BY <1>2, <1>4, <1>5, <1>6 DEF has, AsDelivered
  <2>2. /\ t.ring = r1 \/ t.ring = SendClear(r1, d.iter)
        /\ t.ul = SetStatus(ul, sentId, t.ring.pkt[active].id, "DELIVERED")
    BY <1>3, <2>1, ResendEmpty
  <2>3. QED BY <1>2, <1>3, <1>4, <1>6, <2>2 DEF r1, AsDelivered
<1>7. CASE reply.type # "ACK"
  <2> HIDE DEF d
  <2>1. QED BY <1>2, <1>3, <1>4, <1>5, <1>7 DEF AsDelivered
<1>8. QED BY <1>6, <1>7

LEMMA TakeAckType ==
    ASSUME TypeOK, NEW r \in Ring, NEW reply, NEW policy
    PROVE /\ TakeAck(r, reply, policy).ring \in Ring
          /\ TakeAck(r, reply, policy).ul
               \in [Ids -> [st : UlStatuses, rep : BOOLEAN]]
<1> DEFINE r1 == IF r.pkt[active].mack = 0 THEN SetSt(r, active, "DELIVERED") ELSE r
<1>1. r1 \in Ring
  BY SetStType DEF TypeOK, States
<1>2. TakeAck(r, reply, policy) = IF reply.type = "ACK"
                                  THEN Resend(r1, active, reply.has, policy)
                                  ELSE [ring |-> r1, ul |-> ul]
  BY DEF TakeAck
<1> HIDE DEF r1
<1>3. QED
  BY <1>1, <1>2, ResendType DEF TypeOK

LEMMA RxAckType == ASSUME TypeOK, RxAck PROVE TypeOK'
<1> DEFINE r == Restored(ring)
<1>1. r \in Ring
  BY RestoredType DEF TypeOK
<1>2. ring' \in Ring /\ ul' \in [Ids -> [st : UlStatuses, rep : BOOLEAN]]
  <2>1. CASE AckAccepted(r, station.reply)
    <3>1. PICK policy \in LossPolicies :
            /\ ring' = LookAtQueue(TakeAck(r, station.reply, policy).ring, active)
            /\ ul' = TakeAck(r, station.reply, policy).ul
      BY <2>1 DEF RxAck
    <3>2. QED BY <1>1, <3>1, TakeAckType, LookAtQueueType
  <2>2. CASE ~AckAccepted(r, station.reply)
    BY <1>1, <2>2, LookAtQueueType DEF RxAck, TypeOK
  <2>3. QED BY <2>1, <2>2
<1>3. station' \in [holds : SUBSET Iters, reply : Replies]
  <2>1. NoReply \in Replies
    BY DEF NoReply, Replies, Iters
  <2>2. QED BY <2>1 DEF RxAck, TypeOK
<1>4. waitReceive' \in BOOLEAN /\ waitClear' = FALSE /\ waitExtra' = FALSE
  BY DEF RxAck, TypeOK
<1>5. UNCHANGED <<active, oldState, sentId, ulIter, lastIter, notAcked, transmit,
                  mode, hbLeft, histVars, dlLeft, napsLeft>>
  BY DEF RxAck
<1> HIDE DEF r
<1>6. QED
  BY <1>2, <1>3, <1>4, <1>5 DEF TypeOK, histVars

LEMMA RxSystemType ==
    ASSUME TypeOK, NEW answer, NEW ack, RxSystem(answer, ack)
    PROVE TypeOK'
<1> DEFINE r1 == Restored(ring)
           r2 == IF answer THEN Alloc(r1, SysPkt("CONFIG", "NEED_TO_SEND_RIGHT_NOW", 0)) ELSE r1
           r3 == IF ack /\ SysQueued(r2, "ACK_ON_SYS") = {}
                 THEN Alloc(r2, SysPkt("ACK_ON_SYS", "NEED_TO_SEND_RIGHT_NOW", 0)) ELSE r2
<1>1. r1 \in Ring
  BY RestoredType DEF TypeOK
<1>2. /\ SysPkt("CONFIG", "NEED_TO_SEND_RIGHT_NOW", 0) \in Packet
      /\ SysPkt("ACK_ON_SYS", "NEED_TO_SEND_RIGHT_NOW", 0) \in Packet
  BY SysPktType DEF SysKinds, States, Iters
<1>3. r2 \in Ring
  BY <1>1, <1>2, AllocType
<1>4. r3 \in Ring
  BY <1>2, <1>3, AllocType
<1>5. ring' = LookAtQueue(r3, active)
  BY DEF RxSystem
<1>6. dlLeft' \in 0 .. MaxDl
  BY BoundAssumption DEF RxSystem, TypeOK
<1> HIDE DEF r1, r2, r3
<1>7. ring' \in Ring
  BY <1>4, <1>5, LookAtQueueType
<1>8. QED
  BY <1>6, <1>7 DEF RxSystem, TypeOK, histVars

LEMMA RxMessageType ==
    ASSUME TypeOK, NEW ack, NEW multi \in BOOLEAN, NEW repeated,
           ack \in BOOLEAN, RxMessage(ack, multi, repeated)
    PROVE TypeOK'
<1> DEFINE r1   == Restored(ring)
           drop == ~repeated /\ r1.pkt[active].st \in {"QUEUED", "QUEUED_AGAIN", "WAIT_ACK"}
           a    == IF drop THEN Idle ELSE active
           r2   == IF ack /\ multi /\ ~repeated THEN Sweep(r1, a) ELSE r1
           p    == [SysPkt("ACK", "NEED_TO_SEND_RIGHT_NOW", 0) EXCEPT !.multi = multi]
           r3   == IF ack /\ SysQueued(r2, "ACK") = {} THEN Alloc(r2, p) ELSE r2
           more == multi /\ ~ack
           r4   == IF more THEN SetSt(r3, a, "WAIT_FOR_EXTRA_PACKETS") ELSE r3
<1>1. r1 \in Ring
  BY RestoredType DEF TypeOK
<1>2. a \in Cells
  BY CellFacts DEF TypeOK
<1>3. r2 \in Ring
  BY <1>1, SweepType
<1>4. p \in Packet
  <2>1. SysPkt("ACK", "NEED_TO_SEND_RIGHT_NOW", 0) \in Packet
    BY SysPktType DEF SysKinds, States, Iters
  <2>2. QED BY <2>1 DEF Packet
<1>5. r3 \in Ring
  <2> HIDE DEF p
  <2> QED BY <1>3, <1>4, AllocType
<1>6. r4 \in Ring
  <2> HIDE DEF r3, a
  <2> QED BY <1>2, <1>5, SetStType DEF States
<1>7. ring' = LookAtQueue(r4, a) /\ active' = a /\ waitExtra' = more
  BY Zenon DEF RxMessage
<1>8. oldState' \in States
  <2>1. r3.pkt[a].st \in States
    <3> HIDE DEF r3, a
    <3> QED BY <1>2, <1>5, RingPkt DEF Packet
  <2>2. oldState' = r3.pkt[a].st \/ oldState' = oldState
    BY Zenon DEF RxMessage
  <2> HIDE DEF r3, a
  <2>3. QED BY <2>1, <2>2 DEF TypeOK
<1>9. dlLeft' \in 0 .. MaxDl
  <2>1. dlLeft > 0 /\ dlLeft' = dlLeft - 1
    BY Zenon DEF RxMessage
  <2>2. QED BY <2>1, BoundAssumption DEF TypeOK
<1>10. waitExtra' \in BOOLEAN
  BY <1>7
<1>11. /\ waitClear' = FALSE
       /\ UNCHANGED <<ul, sentId, ulIter, lastIter, notAcked, transmit, waitReceive,
                      mode, hbLeft, station, histVars, napsLeft>>
  BY Zenon DEF RxMessage
<1> HIDE DEF r1, drop, a, r2, p, r3, more, r4
<1>12. ring' \in Ring /\ active' \in Cells
  BY <1>2, <1>6, <1>7, LookAtQueueType
<1>13. QED
  BY <1>8, <1>9, <1>10, <1>11, <1>12 DEF TypeOK, histVars

LEMMA HeartBeatType == ASSUME TypeOK, HeartBeat PROVE TypeOK'
<1> DEFINE p == [SysPkt("HEARTBEAT", "QUEUED", ulIter) EXCEPT
                   !.hs = Handshake /\ AckMode(mode), !.ack = Handshake /\ AckMode(mode)]
           goes == SysQueued(ring, "HEARTBEAT") = {} /\ CanAlloc(ring)
<1>1. p \in Packet
  <2>1. SysPkt("HEARTBEAT", "QUEUED", ulIter) \in Packet
    BY SysPktType DEF SysKinds, States, TypeOK
  <2>2. (Handshake /\ AckMode(mode)) \in BOOLEAN
    BY ModeAssumption DEF AckMode
  <2>3. QED BY <2>1, <2>2 DEF Packet
<1>2. Wrap(ulIter + 1) \in Iters
  <2>1. ulIter + 1 \in Int
    BY DEF TypeOK, Iters
  <2>2. QED BY <2>1, WrapIn DEF Wrap
<1>3. ring' = (IF goes THEN Alloc(ring, p) ELSE ring)
  BY DEF HeartBeat
<1>4. ulIter' = IF goes THEN Wrap(ulIter + 1) ELSE ulIter
  BY DEF HeartBeat
<1>5. hbLeft' \in 0 .. MaxHb
  <2>1. hbLeft > 0 /\ hbLeft' = hbLeft - 1
    BY DEF HeartBeat
  <2>2. QED BY <2>1, BoundAssumption DEF TypeOK
<1>6. UNCHANGED <<active, oldState, ul, sentId, lastIter, notAcked, transmit,
                  waitReceive, waitExtra, waitClear, mode, station, histVars,
                  dlLeft, napsLeft>>
  BY DEF HeartBeat
<1> HIDE DEF p, goes
<1>7. ring' \in Ring /\ ulIter' \in Iters
  BY <1>1, <1>2, <1>3, <1>4, AllocType DEF TypeOK
<1>8. QED
  BY <1>5, <1>6, <1>7 DEF TypeOK, histVars

LEMMA ReportStatusType == ASSUME TypeOK, ReportStatus PROVE TypeOK'
<1>1. PICK st \in Verdicts, id \in Ids :
        /\ ul' = [ul EXCEPT ![id].rep = TRUE]
        /\ told' = [told EXCEPT ![id] = IF Len(@) < 2 THEN Append(@, st) ELSE @]
        /\ UNCHANGED <<ring, active, oldState, sentId, ulIter, lastIter, notAcked,
                       transmit, waitReceive, waitExtra, waitClear, mode, hbLeft,
                       station, frags, confirm, heard, dlLeft, napsLeft>>
  BY DEF ReportStatus
<1>2. ul' \in [Ids -> [st : UlStatuses, rep : BOOLEAN]]
  BY <1>1 DEF TypeOK
<1>3. told' \in [Ids -> Seq(Verdicts)]
  <2>1. told[id] \in Seq(Verdicts)
    BY DEF TypeOK
  <2>2. Append(told[id], st) \in Seq(Verdicts)
    BY <2>1
  <2>3. QED BY <1>1, <2>1, <2>2 DEF TypeOK
<1>4. QED
  BY <1>1, <1>2, <1>3 DEF TypeOK

LEMMA GoToSleepType == ASSUME TypeOK, GoToSleep PROVE TypeOK'
<1>1. ring' \in Ring /\ active' \in Cells
  BY ClearTxType, CellFacts DEF GoToSleep, TypeOK
<1>2. napsLeft' \in 0 .. MaxNaps
  <2>1. napsLeft > 0 /\ napsLeft' = napsLeft - 1
    BY DEF GoToSleep
  <2>2. QED BY <2>1, BoundAssumption DEF TypeOK
<1>3. QED
  BY <1>1, <1>2 DEF GoToSleep, TypeOK, histVars

LEMMA WakeUpType == ASSUME TypeOK, WakeUp PROVE TypeOK'
<1>1. SendSync(ring, ulIter) \in Ring
  BY SendSyncType DEF TypeOK
<1>2. SendClear(SendSync(ring, ulIter), 0) \in Ring
  BY <1>1, SendClearType DEF Iters
<1>3. QED
  BY <1>2 DEF WakeUp, TypeOK, histVars

LEMMA TypeOKNext == ASSUME TypeOK, [Next]_vars PROVE TypeOK'
<1>1. CASE UNCHANGED vars
  BY <1>1 DEF TypeOK, vars, devVars, histVars
<1>2. ASSUME NEW len \in Lengths, NEW flags \in FlagSets, Send5(len, flags)
      PROVE TypeOK'
  BY <1>2, Send5Type
<1>3. CASE SendNext
  BY <1>3, SendNextType
<1>4. CASE ArmTimer
  BY <1>4 DEF ArmTimer, TypeOK, histVars
<1>5. CASE ProcessOff
  BY <1>5, ClearTxType, CellFacts DEF ProcessOff, TypeOK, histVars
<1>6. CASE TxFinished
  BY <1>6, SweepType DEF TxFinished, TypeOK, histVars
<1>7. CASE ReceiveTimeout
  BY <1>7, ReceiveTimeoutType
<1>8. CASE RxAck
  BY <1>8, RxAckType
<1>9. ASSUME NEW answer \in BOOLEAN, NEW ack \in BOOLEAN, RxSystem(answer, ack)
      PROVE TypeOK'
  BY <1>9, RxSystemType
<1>10. ASSUME NEW ack \in BOOLEAN, NEW multi \in BOOLEAN, NEW repeated \in BOOLEAN,
              RxMessage(ack, multi, repeated)
       PROVE TypeOK'
  BY <1>10, RxMessageType
<1>11. CASE WaitExtraTimeout
  BY <1>11, RestoredType, SweepType DEF WaitExtraTimeout, TypeOK, histVars
<1>12. CASE WaitClearTimeout
  BY <1>12 DEF WaitClearTimeout, TypeOK, histVars
<1>13. CASE HeartBeat
  BY <1>13, HeartBeatType
<1>14. CASE ReportStatus
  BY <1>14, ReportStatusType
<1>15. CASE GoToSleep
  BY <1>15, GoToSleepType
<1>16. CASE WakeUp
  BY <1>16, WakeUpType
<1>17. QED
  BY <1>1, <1>2, <1>3, <1>4, <1>5, <1>6, <1>7, <1>8, <1>9, <1>10, <1>11, <1>12,
     <1>13, <1>14, <1>15, <1>16 DEF Next

\* Every variable of the uplink keeps its type, for every size of the ring and
\* every configuration: in particular the scans only ever yield slots of the
\* ring, nbfi_active_pkt always points to a packet, and ITER stays in range.
THEOREM TypeCorrect == Spec => []TypeOK
<1>1. Init => TypeOK
  BY TypeOKInit
<1>2. TypeOK /\ [Next]_vars => TypeOK'
  BY TypeOKNext
<1>3. QED BY <1>1, <1>2, PTL DEF Spec

-----------------------------------------------------------------------------
(***************************************************************************)
(* Part 3.  The verdict LOST is given to the id of a packet the stack      *)
(* waited for, so the invariant follows the packets: one that is in a      *)
(* state only reached with a handshake carries the id of a message that    *)
(* asked for one, or 0, the id of the packets the stack writes itself.     *)
(* W is the set of those ids.  The state of the active packet may be       *)
(* hidden behind WAIT_FOR_EXTRA_PACKETS; nbfi_active_pkt_old_state then    *)
(* stands for it.                                                          *)
(***************************************************************************)
Handled == {"WAIT_ACK", "SENT_NOACKED", "QUEUED_AGAIN", "LOST", "DELIVERED"}

Meant(p, c, a, o) ==
    IF c = a /\ p.st = "WAIT_FOR_EXTRA_PACKETS" THEN o ELSE p.st

Owned(W, p, c, a, o) ==
    /\ Meant(p, c, a, o) \in Handled => p.id \in W
    /\ p.hs /\ Mode = "CRX" => p.id \in W

RingOwned(W, r, a, o) ==
    /\ r.pkt[Idle].id = 0
    /\ \A c \in Cells : Owned(W, r.pkt[c], c, a, o)

OwnerInv ==
    /\ TypeOK
    /\ RingOwned(confirm \cup {0}, ring, active, oldState)
    /\ UnconfirmedNeverLost

(***************************************************************************)
(* Nearly every operator on the ring is calm: it replaces a packet by one  *)
(* of the stack's own, or moves it without entering the handled states.    *)
(***************************************************************************)
Tame(p, q) ==
    \/ q.id = 0
    \/ /\ q.id = p.id /\ q.hs = p.hs
       /\ q.st \in Handled => p.st \in Handled
       /\ q.st = "WAIT_FOR_EXTRA_PACKETS" => p.st = "WAIT_FOR_EXTRA_PACKETS"

Calm(r, q) == \A c \in Cells : Tame(r.pkt[c], q.pkt[c])

LEMMA CalmRefl == ASSUME NEW r PROVE Calm(r, r)
BY DEF Calm, Tame

LEMMA CalmTrans ==
    ASSUME NEW r, NEW q, NEW t, Calm(r, q), Calm(q, t)
    PROVE Calm(r, t)
BY DEF Calm, Tame

LEMMA CalmOwned ==
    ASSUME NEW W, 0 \in W, NEW r, NEW q, NEW a, NEW o,
           RingOwned(W, r, a, o), Calm(r, q)
    PROVE RingOwned(W, q, a, o)
<1>1. q.pkt[Idle].id = 0
  BY CellFacts DEF RingOwned, Calm, Tame
<1>2. ASSUME NEW c \in Cells PROVE Owned(W, q.pkt[c], c, a, o)
  <2>1. Owned(W, r.pkt[c], c, a, o) /\ Tame(r.pkt[c], q.pkt[c])
    BY DEF RingOwned, Calm
  <2>2. QED BY <2>1 DEF Owned, Tame, Meant, Handled
<1>3. QED BY <1>1, <1>2 DEF RingOwned

LEMMA SetPktCalm ==
    ASSUME NEW r \in Ring, NEW s \in Cells, NEW p, Tame(r.pkt[s], p)
    PROVE Calm(r, SetPkt(r, s, p))
BY DEF SetPkt, Calm, Tame, Ring

LEMMA SetStCalm ==
    ASSUME NEW r \in Ring, NEW s \in Cells, NEW st \in States,
           st \in Handled => r.pkt[s].st \in Handled,
           st # "WAIT_FOR_EXTRA_PACKETS"
    PROVE Calm(r, SetSt(r, s, st))
<1>1. SetSt(r, s, st) = SetPkt(r, s, [r.pkt[s] EXCEPT !.st = st])
  BY DEF SetSt, SetPkt, Ring
<1>2. Tame(r.pkt[s], [r.pkt[s] EXCEPT !.st = st])
  BY RingPkt DEF Tame, Packet
<1>3. QED BY <1>1, <1>2, SetPktCalm

LEMMA AllocCalm ==
    ASSUME NEW r \in Ring, NEW p, p.id = 0
    PROVE Calm(r, Alloc(r, p))
<1>1. r.head \in Cells
  BY CellFacts DEF Ring
<1>2. QED BY <1>1 DEF Alloc, Calm, Tame, Ring

LEMMA SysPktId == ASSUME NEW kind, NEW st, NEW i PROVE SysPkt(kind, st, i).id = 0
BY DEF SysPkt, FreePkt

LEMMA RequeueCalm == ASSUME NEW r \in Ring, NEW s PROVE Calm(r, Requeue(r, s))
BY SetStCalm, CalmRefl, CellFacts DEF Requeue, Handled, States

LEMMA SweepCalm == ASSUME NEW r \in Ring, NEW a PROVE Calm(r, Sweep(r, a))
BY RequeueCalm DEF Sweep

LEMMA CountSweepCalm == ASSUME NEW r \in Ring, NEW a PROVE Calm(r, CountSweep(r, a))
BY RequeueCalm, CalmRefl DEF CountSweep

LEMMA CloseActiveCalm ==
    ASSUME NEW r \in Ring, NEW a, r.pkt[a].st \in Handled
    PROVE Calm(r, CloseActive(r, a))
<1>1. ASSUME NEW c \in Cells, r.pkt[c].st \in Handled
      PROVE Tame(r.pkt[c], [r.pkt[c] EXCEPT !.st = "LOST"])
  BY <1>1, RingPkt DEF Tame, Packet
<1>2. ASSUME NEW c \in Cells
      PROVE Tame(r.pkt[c], CloseActive(r, a).pkt[c])
  <2>1. CloseActive(r, a).pkt[c] =
          IF c = a \/ (c \in Slots /\ r.pkt[c].st = "SENT_NOACKED")
          THEN [r.pkt[c] EXCEPT !.st = "LOST"] ELSE r.pkt[c]
    BY DEF CloseActive, Ring
  <2>2. CASE c = a \/ (c \in Slots /\ r.pkt[c].st = "SENT_NOACKED")
    BY <1>1, <2>1, <2>2 DEF Handled
  <2>3. QED BY <2>1, <2>2 DEF Tame
<1>3. QED BY <1>2 DEF Calm

LEMMA SendSyncCalm ==
    ASSUME NEW r \in Ring, NEW i PROVE Calm(r, SendSync(r, i))
<1> DEFINE f == [c \in Cells |-> IF c \in SysQueued(r, "SYNC") THEN FreePkt ELSE r.pkt[c]]
           q == [r EXCEPT !.pkt = f]
<1>1. f \in [Cells -> Packet]
  BY RingPkt, FreePktType
<1>2. q \in Ring /\ q.pkt = f
  <2> HIDE DEF f
  <2> QED BY <1>1, PktsType DEF Ring
<1>3. Calm(r, q)
  <2>1. \A c \in Cells : f[c] = FreePkt \/ f[c] = r.pkt[c]
    OBVIOUS
  <2> HIDE DEF f, q
  <2>2. QED BY <1>2, <2>1 DEF Calm, Tame, FreePkt
<1>4. SendSync(r, i) = Alloc(q, SysPkt("SYNC", "NEED_TO_SEND_RIGHT_NOW", i))
  BY DEF SendSync
<1> HIDE DEF f, q
<1>5. QED BY <1>2, <1>3, <1>4, SysPktId, AllocCalm, CalmTrans

LEMMA SendClearCalm ==
    ASSUME NEW r \in Ring, NEW i PROVE Calm(r, SendClear(r, i))
BY SysPktId, AllocCalm DEF SendClear

LEMMA AfterLossCalm ==
    ASSUME NEW r \in Ring, NEW policy PROVE Calm(r, AfterLoss(r, policy))
BY SendSyncCalm, CalmRefl DEF AfterLoss

LEMMA LookAtQueueCalm ==
    ASSUME NEW r \in Ring, NEW a PROVE Calm(r, LookAtQueue(r, a))
BY SweepType, SweepCalm, CountSweepCalm, CalmTrans DEF LookAtQueue

LEMMA ClearTxCalm == ASSUME NEW r \in Ring PROVE Calm(r, ClearTx(r))
BY DEF ClearTx, Calm, Tame, FreePkt, Ring

\* Every packet the walk of NBFi_Resend_Pkt meets is in a handled state.
LEMMA AtHandled ==
    ASSUME NEW r \in Ring, NEW a, NEW k, At(r, a, k) # None
    PROVE r.pkt[At(r, a, k)].st \in Handled
<1> DEFINE i == (r.pkt[a].iter - k) % IterMod
           S == {s \in Slots :
                   /\ r.pkt[s].kind \in AppKinds
                   /\ r.pkt[s].st \in {"SENT_NOACKED", "WAIT_ACK", "LOST", "DELIVERED"}
                   /\ r.pkt[s].iter = i}
<1>1. At(r, a, k) = Newest(r.head, S)
  BY DEF At, SentByIter
<1>2. At(r, a, k) \in S
  <2> HIDE DEF S
  <2> QED BY <1>1, NewestIn
<1>3. QED BY <1>2 DEF Handled

LEMMA WalkedAt ==
    ASSUME NEW r \in Ring, NEW a \in Cells, NEW has, NEW k,
           \/ k \in Walked(r, a, has)
           \/ k \in GivenUp(r, a, has)
    PROVE At(r, a, k) # None
<1>1. AckWindow(r, a) \subseteq Nat
  BY RingPkt DEF AckWindow, Packet
<1>2. CASE k \in Walked(r, a, has)
  <2>1. k \in AckWindow(r, a) /\ \A j \in Stops(r, a, has) : k < j
    BY <1>2 DEF Walked
  <2>2. k \notin Stops(r, a, has)
    BY <1>1, <2>1
  <2>3. QED BY <2>1, <2>2 DEF Stops
<1>3. CASE k \in GivenUp(r, a, has)
  BY <1>3 DEF GivenUp
<1>4. QED BY <1>2, <1>3

LEMMA MarkedCalm ==
    ASSUME NEW r \in Ring, NEW a \in Cells, NEW has
    PROVE Calm(r, Marked(r, a, has))
<1> DEFINE m(c) == Marked(r, a, has).pkt[c]
<1>1. ASSUME NEW c \in Cells PROVE Tame(r.pkt[c], m(c))
  <2>1. r.pkt[c] \in Packet
    BY RingPkt
  <2>2. \/ m(c) = r.pkt[c]
        \/ m(c) = [r.pkt[c] EXCEPT !.retry = @ + 1]
        \/ /\ r.pkt[c].st \in Handled
           /\ \/ m(c) = [r.pkt[c] EXCEPT !.st = "QUEUED_AGAIN", !.retry = @ + 1]
              \/ m(c) = [r.pkt[c] EXCEPT !.st = "DELIVERED"]
    <3>1. \A k : k \in Walked(r, a, has) => r.pkt[At(r, a, k)].st \in Handled
      BY WalkedAt, AtHandled
    <3>2. Absent(r, a, has) \subseteq Walked(r, a, has)
      BY DEF Absent
    <3>3. m(c) =
            IF \E k \in Absent(r, a, has) : At(r, a, k) = c
            THEN [r.pkt[c] EXCEPT !.st = "QUEUED_AGAIN", !.retry = @ + 1]
            ELSE IF \E k \in Walked(r, a, has) : At(r, a, k) = c
            THEN [r.pkt[c] EXCEPT !.st = "DELIVERED"]
            ELSE IF \E k \in GivenUp(r, a, has) : At(r, a, k) = c
            THEN [r.pkt[c] EXCEPT !.retry = @ + 1]
            ELSE r.pkt[c]
      BY DEF Marked, Ring
    <3> HIDE DEF m
    <3>4. QED BY <3>1, <3>2, <3>3
  <2> HIDE DEF m
  <2>3. QED BY <2>1, <2>2 DEF Tame, Handled, Packet
<1>2. QED BY <1>1 DEF Calm

LEMMA AskAgainCalm ==
    ASSUME NEW r \in Ring, NEW a \in Cells, NEW s \in Cells
    PROVE Calm(r, AskAgain(r, a, s))
<1> DEFINE m == (r.pkt[a].mack - ((r.pkt[a].iter - r.pkt[s].iter) % IterMod)) % 64
           p == [r.pkt[s] EXCEPT !.ack = TRUE, !.mack = m]
<1>1. AskAgain(r, a, s) = SetPkt(r, s, p)
  BY DEF AskAgain, SetPkt, Ring
<1>2. Tame(r.pkt[s], p)
  <2> HIDE DEF m
  <2> QED BY RingPkt DEF Tame, Packet
<1> HIDE DEF p
<1>3. QED BY <1>1, <1>2, SetPktCalm

\* The walk starts with the active packet itself, whose state it may change,
\* but only from one handled state to another.
LEMMA MarkedActive ==
    ASSUME NEW r \in Ring, NEW a \in Cells, NEW has, r.pkt[a].st \in Handled
    PROVE Marked(r, a, has).pkt[a].st \in Handled
BY RingPkt DEF Marked, Handled, Ring, Packet

-----------------------------------------------------------------------------
\* Which statuses LOST a call of NBFi_Set_UL_Status can create.
LEMMA SetStatusLost ==
    ASSUME NEW u, NEW n, NEW id8, NEW st, NEW id \in Ids,
           SetStatus(u, n, id8, st)[id].st = "LOST",
           u[id].st # "LOST"
    PROVE st = "LOST" /\ id % IdMod = id8
BY DEF SetStatus, Matching

LEMMA SmallId ==
    ASSUME MaxMsgs < IdMod, NEW id \in Ids
    PROVE id % IdMod = id /\ id # 0
BY StatAssumption DEF Ids

\* The statuses a table may show: LOST only for what is in the set C.
Confined(u, C) == \A id \in Ids : u[id].st = "LOST" => id \in C

LEMMA ConfinedOther ==
    ASSUME NEW u, NEW C, Confined(u, C), NEW n, NEW id8, NEW st, st # "LOST"
    PROVE Confined(SetStatus(u, n, id8, st), C)
BY SetStatusLost DEF Confined

LEMMA ConfinedLost ==
    ASSUME MaxMsgs < IdMod, NEW u, NEW C, Confined(u, C),
           NEW n, NEW id8 \in C \cup {0}
    PROVE Confined(SetStatus(u, n, id8, "LOST"), C)
BY SetStatusLost, SmallId DEF Confined

LEMMA ResendOwned ==
    ASSUME MaxMsgs < IdMod, TypeOK, NEW r \in Ring, NEW has, NEW policy,
           NEW C, RingOwned(C \cup {0}, r, active, oldState),
           r.pkt[active].st = "WAIT_ACK", Confined(ul, C)
    PROVE /\ Calm(r, Resend(r, active, has, policy).ring)
          /\ Confined(Resend(r, active, has, policy).ul, C)
<1> DEFINE mk == Marked(r, active, has)
           r1 == IF GivenUp(r, active, has) = {} THEN mk
                 ELSE AfterLoss(CloseActive(mk, active), policy)
           u1 == GaveUpStatus(r, active, has, ul)
           k0 == FirstAbsent(r, active, has)
           r2 == IF LeftOver(r, active, has) = {} THEN SendClear(r1, r1.pkt[active].iter)
                 ELSE r1
<1>1. active \in Cells /\ ulIter \in Iters
  BY DEF TypeOK
<1>2. mk \in Ring /\ Calm(r, mk) /\ mk.pkt[active].st \in Handled
  BY <1>1, MarkedType, MarkedCalm, MarkedActive DEF Handled
<1>3. r1 \in Ring /\ Calm(r, r1)
  <2> HIDE DEF mk
  <2>1. CloseActive(mk, active) \in Ring /\ Calm(r, CloseActive(mk, active))
    BY <1>2, CloseActiveType, CloseActiveCalm, CalmTrans
  <2>2. QED
    BY <1>1, <1>2, <2>1, AfterLossType, AfterLossCalm, CalmTrans
<1>4. Confined(u1, C)
  <2>1. CASE GivenUp(r, active, has) = {}
    BY <2>1 DEF GaveUpStatus
  <2>2. CASE GivenUp(r, active, has) # {}
    <3> DEFINE k == CHOOSE k \in GivenUp(r, active, has) : TRUE
               s == At(r, active, k)
    <3>1. k \in GivenUp(r, active, has)
      BY <2>2
    <3>2. s # None /\ s \in Cells /\ r.pkt[s].st \in Handled
      BY <1>1, <3>1, WalkedAt, AtHandled, AtIn, CellFacts
    <3>3. r.pkt[s].id \in C \cup {0}
      <4> HIDE DEF s
      <4> QED BY <3>2 DEF RingOwned, Owned, Meant, Handled
    <3>4. u1 = SetStatus(ul, sentId, r.pkt[s].id, "LOST")
      BY <2>2 DEF GaveUpStatus
    <3> HIDE DEF s, u1
    <3>5. QED BY <3>3, <3>4, ConfinedLost
  <2>3. QED BY <2>1, <2>2
<1>5. r2 \in Ring /\ Calm(r, r2)
  <2>1. r1.pkt[active].iter \in Iters
    BY <1>1, <1>3, RingPkt DEF Packet
  <2> HIDE DEF r1
  <2>2. QED BY <1>3, <2>1, SendClearType, SendClearCalm, CalmTrans
<1>6. CASE k0 # None
  <2> DEFINE s == At(r, active, k0)
  <2>1. Resend(r, active, has, policy) = [ring |-> AskAgain(r1, active, s), ul |-> u1]
    BY <1>6 DEF Resend
  <2>2. k0 \in Walked(r, active, has)
    <3>1. k0 \in Absent(r, active, has)
      BY <1>6, AnyOfIn DEF FirstAbsent
    <3>2. QED BY <3>1 DEF Absent
  <2>3. s \in Cells
    <3> HIDE DEF k0
    <3> QED BY <1>1, <2>2, WalkedAt, AtIn, CellFacts
  <2> HIDE DEF r1, u1, s
  <2>4. Calm(r, AskAgain(r1, active, s))
    BY <1>1, <1>3, <2>3, AskAgainCalm, CalmTrans
  <2>5. QED BY <1>4, <2>1, <2>4
<1>7. CASE k0 = None
  <2>1. Resend(r, active, has, policy)
          = [ring |-> r2, ul |-> SetStatus(u1, sentId, r2.pkt[active].id, "DELIVERED")]
    BY <1>7 DEF Resend
  <2> HIDE DEF r2, u1
  <2>2. Confined(SetStatus(u1, sentId, r2.pkt[active].id, "DELIVERED"), C)
    BY <1>4, ConfinedOther
  <2>3. QED BY <1>5, <2>1, <2>2
<1>8. QED BY <1>6, <1>7

LEMMA TakeAckOwned ==
    ASSUME MaxMsgs < IdMod, TypeOK, NEW r \in Ring, NEW reply, NEW policy,
           NEW C, RingOwned(C \cup {0}, r, active, oldState),
           r.pkt[active].st = "WAIT_ACK", Confined(ul, C)
    PROVE /\ Calm(r, TakeAck(r, reply, policy).ring)
          /\ Confined(TakeAck(r, reply, policy).ul, C)
<1>1. active \in Cells
  BY DEF TypeOK
<1> DEFINE t == TakeAck(r, reply, policy)
<1>2. CASE r.pkt[active].mack # 0
  <2>1. t = Resend(r, active, reply.has, policy) \/ t = [ring |-> r, ul |-> ul]
    BY <1>2 DEF TakeAck
  <2>2. QED BY <2>1, ResendOwned, CalmRefl
<1>3. CASE r.pkt[active].mack = 0
  <2> HIDE DEF t
  <2>1. PICK d \in Packet, r1 \in Ring :
          /\ AsDelivered(d, r.pkt[active]) /\ r1 = SetPkt(r, active, d)
          /\ t.ring = r1 \/ t.ring = SendClear(r1, d.iter)
          /\ \/ t.ul = ul
             \/ t.ul = SetStatus(ul, sentId, t.ring.pkt[active].id, "DELIVERED")
    BY <1>1, <1>3, TakeAckEmpty DEF t
  <2>2. Tame(r.pkt[active], d)
    BY <2>1 DEF Tame, AsDelivered, Handled
  <2>3. Calm(r, r1)
    BY <1>1, <2>1, <2>2, SetPktCalm
  <2>4. Calm(r, t.ring)
    BY <2>1, <2>3, SendClearType, SendClearCalm, CalmTrans DEF Packet
  <2>5. Confined(t.ul, C)
    BY <2>1, ConfinedOther
  <2>6. QED BY <2>4, <2>5 DEF t
<1>4. QED BY <1>2, <1>3

-----------------------------------------------------------------------------
\* What happens to the invariant when the active packet or its saved state
\* changes.
LEMMA MoveActive ==
    ASSUME NEW W, 0 \in W, NEW r, NEW a, NEW o, RingOwned(W, r, a, o),
           NEW b, b = Idle \/ r.pkt[b].st # "WAIT_FOR_EXTRA_PACKETS"
    PROVE RingOwned(W, r, b, o)
BY DEF RingOwned, Owned, Meant, Handled

LEMMA RestoredOwned ==
    ASSUME NEW W, TypeOK, 0 \in W, RingOwned(W, ring, active, oldState)
    PROVE RingOwned(W, Restored(ring), active, oldState)
<1> DEFINE q == SetSt(ring, active, oldState)
<1>1. active \in Cells /\ ring \in Ring
  BY DEF TypeOK
<1>2. CASE ring.pkt[active].st = "WAIT_FOR_EXTRA_PACKETS"
  <2>1. q = SetPkt(ring, active, [ring.pkt[active] EXCEPT !.st = oldState])
    BY <1>1 DEF SetSt, SetPkt, Ring
  <2>2. /\ \A c \in Cells : c # active => q.pkt[c] = ring.pkt[c]
        /\ q.pkt[active] = [ring.pkt[active] EXCEPT !.st = oldState]
    <3> HIDE DEF q
    <3> QED BY <1>1, <2>1 DEF SetPkt, Ring
  <2>3. ring.pkt[active] \in Packet
    BY <1>1, RingPkt
  <2>4. q.pkt[Idle].id = 0
    <3> HIDE DEF q
    <3> QED BY <2>2, <2>3, CellFacts DEF RingOwned, Packet
  <2>5. ASSUME NEW c \in Cells PROVE Owned(W, q.pkt[c], c, active, oldState)
    <3>1. Owned(W, ring.pkt[c], c, active, oldState)
      BY DEF RingOwned
    <3> HIDE DEF q
    <3>2. CASE c = active
      BY <1>2, <2>2, <2>3, <3>1, <3>2 DEF Owned, Meant, Packet
    <3>3. CASE c # active
      BY <2>2, <3>1, <3>3
    <3>4. QED BY <3>2, <3>3
  <2> HIDE DEF q
  <2>6. RingOwned(W, q, active, oldState)
    BY <2>4, <2>5 DEF RingOwned
  <2>7. QED BY <1>2, <2>6 DEF Restored, q
<1>3. CASE ring.pkt[active].st # "WAIT_FOR_EXTRA_PACKETS"
  BY <1>3 DEF Restored
<1>4. QED BY <1>2, <1>3

LEMMA ConfinedIsProperty == UnconfirmedNeverLost <=> Confined(ul, confirm)
BY DEF UnconfirmedNeverLost, Confined

\* A step that calms the ring and leaves the active packet, the saved state
\* and the statuses alone.
LEMMA QuietStep ==
    ASSUME OwnerInv, TypeOK', Calm(ring, ring'),
           UNCHANGED <<active, oldState, ul, confirm>>
    PROVE OwnerInv'
<1>1. RingOwned(confirm \cup {0}, ring', active, oldState)
  BY CalmOwned DEF OwnerInv
<1>2. UnconfirmedNeverLost'
  BY DEF OwnerInv, UnconfirmedNeverLost
<1>3. QED BY <1>1, <1>2 DEF OwnerInv

LEMMA OwnerInit == Init => OwnerInv
<1>1. SUFFICES ASSUME Init PROVE OwnerInv
  OBVIOUS
<1> DEFINE W == confirm \cup {0}
<1>2. RingOwned(W, EmptyRing, Idle, "FREE")
  BY CellFacts DEF RingOwned, Owned, EmptyRing, FreePkt
<1>3. Calm(EmptyRing, ring)
  <2>1. SendSync(EmptyRing, 0) \in Ring
    BY EmptyRingType, SendSyncType DEF Iters
  <2>2. Calm(EmptyRing, SendClear(SendSync(EmptyRing, 0), 0))
    BY <2>1, EmptyRingType, SendSyncCalm, SendClearCalm, CalmTrans
  <2>3. QED BY <1>1, <2>2, CalmRefl DEF Init
<1>4. RingOwned(W, ring, active, oldState)
  <2>1. 0 \in W /\ active = Idle /\ oldState = "FREE"
    BY <1>1 DEF Init
  <2> HIDE DEF W
  <2>2. QED BY <1>2, <1>3, <2>1, CalmOwned
<1>5. UnconfirmedNeverLost
  BY <1>1 DEF Init, UnconfirmedNeverLost
<1>6. QED BY <1>1, <1>4, <1>5, TypeOKInit DEF OwnerInv

LEMMA Send5Owned ==
    ASSUME MaxMsgs < IdMod, OwnerInv, TypeOK',
           NEW len \in Lengths, NEW flags \in FlagSets, Send5(len, flags)
    PROVE OwnerInv'
<1> DEFINE r     == CountSweep(ring, active)
           id    == sentId + 1
           n     == Fragments(len)
           k     == Allocatable(r, n)
           first == IF "SAME_TX_ITER" \in flags /\ k > 0 THEN lastIter ELSE ulIter
           room  == IF len <= MaxPayload THEN FreeSlots(ring, active, transmit) >= Mack + 3
                    ELSE FreeSlots(ring, active, transmit) >= len \div MaxPayload + 3
           W     == confirm \cup {0}
           V     == confirm' \cup {0}
<1>1. TypeOK /\ ring \in Ring /\ active' = active /\ oldState' = oldState
  BY DEF OwnerInv, TypeOK, Send5
<1>2. RingOwned(W, r, active, oldState)
  <2>1. RingOwned(W, ring, active, oldState)
    BY DEF OwnerInv
  <2>2. Calm(ring, r)
    BY <1>1, CountSweepCalm
  <2> HIDE DEF r
  <2>3. QED BY <2>1, <2>2, CalmOwned
<1>3. CASE ~room
  BY <1>1, <1>3, CountSweepCalm, QuietStep DEF Send5
<1>4. CASE room
  <2>1. id \in Ids /\ id % IdMod = id
    BY <1>1, SmallId, StatAssumption DEF Send5, TypeOK, Ids
  <2>2. ul' = [ul EXCEPT ![id] = [st |-> "QUEUED", rep |-> FALSE]]
    BY <1>4 DEF Send5
  <2>3. confirm' = IF Asks(flags) /\ AckMode(mode) THEN confirm \cup {id} ELSE confirm
    BY <1>4 DEF Send5
  <2>4. ring'.pkt = [c \in Cells |->
            IF c \in Slots /\ Age(r.head, c) < k
            THEN Fragment(id, len, flags, first, Age(r.head, c), n, notAcked, mode)
            ELSE r.pkt[c]]
    BY <1>4 DEF Send5
  <2>5. UnconfirmedNeverLost'
    <3>1. \A i \in Ids : ul'[i].st = "LOST" => ul[i].st = "LOST"
      BY <1>1, <2>2 DEF TypeOK
    <3>2. confirm \subseteq confirm'
      BY <2>3
    <3>3. QED BY <3>1, <3>2 DEF OwnerInv, UnconfirmedNeverLost
  <2>6. Mode = "CRX" => AckMode(mode)
    BY <1>1 DEF TypeOK, AckMode
  <2>7. RingOwned(V, ring', active, oldState)
    <3>1. ring'.pkt[Idle].id = 0
      BY <1>2, <2>4, CellFacts DEF RingOwned
    <3>2. ASSUME NEW c \in Cells PROVE Owned(V, ring'.pkt[c], c, active, oldState)
      <4>1. CASE c \in Slots /\ Age(r.head, c) < k
        <5> DEFINE p == Fragment(id, len, flags, first, Age(r.head, c), n, notAcked, mode)
        <5>1. p.st = "QUEUED" /\ p.hs = Asks(flags) /\ p.id = id % IdMod
          BY DEF Fragment
        <5>2. ring'.pkt[c] = p
          BY <2>4, <4>1
        <5> HIDE DEF p
        <5>3. QED BY <2>1, <2>3, <2>6, <5>1, <5>2 DEF Owned, Meant, Handled
      <4>2. CASE ~(c \in Slots /\ Age(r.head, c) < k)
        <5>1. ring'.pkt[c] = r.pkt[c]
          BY <2>4, <4>2
        <5>2. Owned(W, r.pkt[c], c, active, oldState)
          BY <1>2 DEF RingOwned
        <5>3. W \subseteq V
          BY <2>3
        <5> HIDE DEF r, W, V
        <5>4. QED BY <5>1, <5>2, <5>3 DEF Owned
      <4>3. QED BY <4>1, <4>2
    <3> HIDE DEF V
    <3>3. QED BY <3>1, <3>2 DEF RingOwned
  <2>8. QED BY <1>1, <2>5, <2>7 DEF OwnerInv
<1>5. QED BY <1>3, <1>4

LEMMA AfterAirOwned ==
    ASSUME TypeOK, mode # "OFF", NEW W, 0 \in W, NEW p \in Packet,
           p.hs /\ Mode = "CRX" => p.id \in W, NEW c, NEW a, NEW o
    PROVE /\ Owned(W, AfterAir(p), c, a, o)
          /\ AfterAir(p).st # "WAIT_FOR_EXTRA_PACKETS"
<1>1. CASE StateOnAir(p) = "SENT"
  BY <1>1 DEF AfterAir, FreePkt, Owned
<1>2. CASE StateOnAir(p) # "SENT"
  <2>1. p.hs /\ Mode = "CRX"
    BY <1>2, ModeAssumption DEF StateOnAir, AckMode, TypeOK
  <2>2. StateOnAir(p) \in {"WAIT_ACK", "SENT_NOACKED"}
    BY <1>2 DEF StateOnAir
  <2>3. AfterAir(p).id = p.id /\ AfterAir(p).st = StateOnAir(p)
    BY <1>2 DEF AfterAir, Packet
  <2>4. QED BY <2>1, <2>2, <2>3 DEF Owned
<1>3. QED BY <1>1, <1>2

LEMMA SendNextOwned ==
    ASSUME OwnerInv, TypeOK', SendNext
    PROVE OwnerInv'
<1> DEFINE W  == confirm \cup {0}
           r  == Sweep(ring, active)
           s  == Queued(ring, active)
           p  == r.pkt[s]
           st == StateOnAir(p)
           r1 == SetPkt(r, s, AfterAir(p))
           r2 == IF ~p.ack /\ IsSystem(p) THEN Sweep(r1, s) ELSE r1
           u  == SetStatus(ul, sentId, p.id, "INPROCESS")
           more == Queued(r1, s) # None
           q    == [r2.pkt[s] EXCEPT !.multi = more]
<1>1. /\ s \in Slots /\ s \in Cells /\ active \in Cells /\ TypeOK
      /\ mode # "OFF" /\ oldState' = oldState /\ confirm' = confirm
  BY QueuedIn, CellFacts DEF SendNext, OwnerInv, TypeOK
<1>0. Transmit(r, s)
  BY DEF SendNext
<1>2. r \in Ring /\ p \in Packet
  BY <1>1, SweepType, RingPkt DEF OwnerInv, TypeOK
<1>3. r1 \in Ring
  BY <1>1, <1>2, AfterAirType, SetPktType
<1>4. r2 \in Ring /\ Calm(r1, r2)
  <2> HIDE DEF r1
  <2> QED BY <1>3, SweepType, SweepCalm, CalmRefl
<1>5. RingOwned(W, r, Idle, oldState)
  <2>1. RingOwned(W, ring, active, oldState) /\ 0 \in W
    BY DEF OwnerInv
  <2>2. RingOwned(W, ring, Idle, oldState)
    <3> HIDE DEF W
    <3> QED BY <2>1, MoveActive
  <2>3. Calm(ring, r)
    BY <1>1, SweepCalm DEF TypeOK
  <2> HIDE DEF W, r
  <2>4. QED BY <2>1, <2>2, <2>3, CalmOwned
<1>6. RingOwned(W, r1, Idle, oldState) /\ r1.pkt[s].st # "WAIT_FOR_EXTRA_PACKETS"
  <2>1. 0 \in W
    OBVIOUS
  <2>2. p.hs /\ Mode = "CRX" => p.id \in W
    <3> HIDE DEF W, r, s
    <3> QED BY <1>1, <1>5 DEF RingOwned, Owned
  <2>3. /\ Owned(W, AfterAir(p), s, Idle, oldState)
        /\ AfterAir(p).st # "WAIT_FOR_EXTRA_PACKETS"
    <3> HIDE DEF W, p
    <3> QED BY <1>1, <1>2, <2>1, <2>2, AfterAirOwned
  <2>4. \A c \in Cells : r1.pkt[c] = IF c = s THEN AfterAir(p) ELSE r.pkt[c]
    <3> HIDE DEF r, s, p
    <3> QED BY <1>1, <1>2 DEF SetPkt, Ring
  <2>5. r1.pkt[Idle] = r.pkt[Idle]
    BY <1>1, <2>4, CellFacts
  <2> HIDE DEF W, r, s, p, r1
  <2>6. QED BY <1>1, <1>5, <2>3, <2>4, <2>5 DEF RingOwned
<1>7. Calm(r2, ring')
  <2>1. ring' = r2 \/ ring' = [r2 EXCEPT !.pkt[s].multi = more]
    <3>1. ring' = IF (~p.ack /\ IsSystem(p)) /\ st # "SENT"
                  THEN [r2 EXCEPT !.pkt[s].multi = more] ELSE r2
      BY <1>0 DEF Transmit
    <3> HIDE DEF p, s, r2, more, st
    <3>2. QED BY <3>1
  <2>2. Tame(r2.pkt[s], q)
    <3> HIDE DEF r2, more
    <3> QED BY <1>1, <1>4, RingPkt DEF Tame, Packet
  <2>3. [r2 EXCEPT !.pkt[s].multi = more] = SetPkt(r2, s, q)
    <3> HIDE DEF r2, more
    <3> QED BY <1>1, <1>4 DEF SetPkt, Ring
  <2> HIDE DEF r2, q, s
  <2>4. QED BY <1>1, <1>4, <2>1, <2>2, <2>3, SetPktCalm, CalmRefl
<1>8. active' = Idle \/ active' = s
  BY <1>0 DEF Transmit
<1>9. RingOwned(W, ring', active', oldState)
  <2>1. 0 \in W
    OBVIOUS
  <2> HIDE DEF W, r1, r2, s
  <2>2. RingOwned(W, r1, active', oldState)
    BY <1>6, <1>8, <2>1, MoveActive
  <2>3. QED BY <1>4, <1>7, <2>1, <2>2, CalmOwned, CalmTrans
<1>10. UnconfirmedNeverLost'
  <2>1. Confined(ul, confirm)
    BY ConfinedIsProperty DEF OwnerInv
  <2>2. ul' = u \/ ul' = SetStatus(u, sentId, p.id, "DELIVERED")
    BY <1>0 DEF Transmit
  <2>3. Confined(u, confirm)
    BY <2>1, ConfinedOther
  <2> HIDE DEF u
  <2>4. Confined(ul', confirm)
    BY <2>2, <2>3, ConfinedOther
  <2>5. QED BY <1>1, <2>4 DEF Confined, UnconfirmedNeverLost
<1> HIDE DEF W, r, s, p, st, r1, r2, u, more, q
<1>11. QED BY <1>1, <1>9, <1>10 DEF OwnerInv, W

LEMMA ReceiveTimeoutOwned ==
    ASSUME MaxMsgs < IdMod, OwnerInv, TypeOK', ReceiveTimeout
    PROVE OwnerInv'
<1> DEFINE p  == ring.pkt[active]
           p1 == [p EXCEPT !.retry = p.retry + 1]
           R  == [ring EXCEPT !.pkt[active].retry = @ + 1]
<1>0. UNCHANGED <<active, oldState, confirm>>
  BY DEF ReceiveTimeout, histVars
<1>1. TypeOK /\ active \in Cells /\ ring \in Ring
  BY DEF OwnerInv, TypeOK
<1>2. p \in Packet /\ p.retry + 1 \in Nat
  BY <1>1, RingPkt DEF Packet
<1>3. R = SetPkt(ring, active, p1) /\ R \in Ring
  <2>1. p1 \in Packet
    BY <1>2, PktRetryType
  <2>2. R = SetPkt(ring, active, p1)
    BY <1>1 DEF SetPkt, Ring
  <2> HIDE DEF R, p1
  <2>3. QED BY <1>1, <2>1, <2>2, SetPktType
<1>4. CASE p.st # "WAIT_ACK"
  BY <1>0, <1>4, CalmRefl, QuietStep DEF ReceiveTimeout
<1>5. ASSUME p.st = "WAIT_ACK", TimeoutRetry PROVE OwnerInv'
  <2> DEFINE p2 == [p1 EXCEPT !.st = "QUEUED_AGAIN"]
  <2>1. ring' = SetPkt(ring, active, p2)
    BY <1>1, <1>2, <1>5 DEF TimeoutRetry, SetPkt, Ring, Packet
  <2>2. Tame(p, p2)
    BY <1>2, <1>5 DEF Tame, Handled, Packet
  <2> HIDE DEF p2
  <2>3. ul' = ul
    BY <1>5 DEF TimeoutRetry
  <2>4. QED BY <1>0, <1>1, <2>1, <2>2, <2>3, SetPktCalm, QuietStep
<1>6. ASSUME p.st = "WAIT_ACK", NEW policy, TimeoutLost(policy) PROVE OwnerInv'
  <2> DEFINE r1 == CloseActive(R, active)
             q  == [r1.pkt[active] EXCEPT !.retry = 0]
             q2 == [q EXCEPT !.st = "QUEUED"]
             r2 == IF policy = "requeue"
                   THEN [r1 EXCEPT !.pkt[active].retry = 0, !.pkt[active].st = "QUEUED"]
                   ELSE r1
  <2>1. Calm(ring, R) /\ R.pkt[active].st = "WAIT_ACK"
    <3>1. Tame(p, p1) /\ p1.st = "WAIT_ACK"
      BY <1>2, <1>6 DEF Tame, Packet
    <3>2. Calm(ring, SetPkt(ring, active, p1))
      <4> HIDE DEF p1
      <4> QED BY <1>1, <3>1, SetPktCalm
    <3>3. SetPkt(ring, active, p1).pkt[active] = p1
      <4> HIDE DEF p1
      <4> QED BY <1>1 DEF SetPkt, Ring
    <3> HIDE DEF R, p1
    <3>4. QED BY <1>3, <3>1, <3>2, <3>3
  <2>2. r1 \in Ring /\ Calm(ring, r1)
    <3> HIDE DEF R
    <3> QED BY <1>3, <2>1, CloseActiveType, CloseActiveCalm, CalmTrans DEF Handled
  <2>3. r2 \in Ring /\ Calm(ring, r2)
    <3> HIDE DEF r1
    <3>1. q \in Packet /\ q2 \in Packet
      BY <1>1, <2>2, RingPkt, PktRetryType, PktStType DEF States
    <3>2. Tame(r1.pkt[active], q2)
      BY <1>1, <2>2, RingPkt DEF Tame, Handled, Packet
    <3>3. [r1 EXCEPT !.pkt[active].retry = 0, !.pkt[active].st = "QUEUED"]
            = SetPkt(r1, active, q2)
      BY <1>1, <2>2 DEF SetPkt, Ring, Packet
    <3> HIDE DEF q2
    <3>4. QED BY <1>1, <2>2, <3>1, <3>2, <3>3, SetPktType, SetPktCalm, CalmTrans
  <2>4. Calm(ring, ring')
    <3>1. ring' = AfterLoss(r2, policy)
      BY <1>6 DEF TimeoutLost
    <3> HIDE DEF r2
    <3>2. QED BY <2>3, <3>1, AfterLossCalm, CalmTrans
  <2>5. p.id \in confirm \cup {0}
    BY <1>1, <1>6 DEF OwnerInv, RingOwned, Owned, Meant, Handled
  <2>6. Confined(ul', confirm)
    <3>1. ul' = SetStatus(ul, sentId, p.id, "LOST")
      BY <1>6 DEF TimeoutLost
    <3>2. QED BY <2>5, <3>1, ConfinedIsProperty, ConfinedLost DEF OwnerInv
  <2>7. RingOwned(confirm \cup {0}, ring', active, oldState)
    BY <2>4, CalmOwned DEF OwnerInv
  <2>8. UnconfirmedNeverLost'
    BY <1>0, <2>6 DEF Confined, UnconfirmedNeverLost
  <2>9. QED BY <1>0, <2>7, <2>8 DEF OwnerInv
<1>7. QED BY <1>4, <1>5, <1>6 DEF ReceiveTimeout

LEMMA RxAckOwned ==
    ASSUME MaxMsgs < IdMod, OwnerInv, TypeOK', RxAck
    PROVE OwnerInv'
<1> DEFINE r == Restored(ring)
           W == confirm \cup {0}
<1>1. UNCHANGED <<active, oldState, confirm>>
  BY DEF RxAck, histVars
<1>2. TypeOK /\ r \in Ring
  BY RestoredType DEF OwnerInv, TypeOK
<1>3. RingOwned(W, r, active, oldState)
  BY RestoredOwned DEF OwnerInv
<1>4. Confined(ul, confirm)
  BY ConfinedIsProperty DEF OwnerInv
<1>5. Calm(r, ring') /\ Confined(ul', confirm)
  <2>1. CASE AckAccepted(r, station.reply)
    <3>1. PICK policy \in LossPolicies :
            /\ ring' = LookAtQueue(TakeAck(r, station.reply, policy).ring, active)
            /\ ul' = TakeAck(r, station.reply, policy).ul
      BY <2>1 DEF RxAck
    <3>2. r.pkt[active].st = "WAIT_ACK"
      BY <2>1 DEF AckAccepted
    <3> HIDE DEF r
    <3>3. /\ Calm(r, TakeAck(r, station.reply, policy).ring)
          /\ Confined(TakeAck(r, station.reply, policy).ul, confirm)
      BY <1>2, <1>3, <1>4, <3>2, TakeAckOwned
    <3>4. TakeAck(r, station.reply, policy).ring \in Ring
      BY <1>2, TakeAckType
    <3>5. QED BY <3>1, <3>3, <3>4, LookAtQueueCalm, CalmTrans
  <2>2. CASE ~AckAccepted(r, station.reply)
    <3>1. ring' = LookAtQueue(r, active) /\ ul' = ul
      BY <2>2 DEF RxAck
    <3> HIDE DEF r
    <3>2. QED BY <1>2, <1>4, <3>1, LookAtQueueCalm
  <2>3. QED BY <2>1, <2>2
<1>6. RingOwned(W, ring', active, oldState)
  <2>1. 0 \in W
    OBVIOUS
  <2> HIDE DEF r, W
  <2>2. QED BY <1>3, <1>5, <2>1, CalmOwned
<1>7. UnconfirmedNeverLost'
  BY <1>1, <1>5 DEF Confined, UnconfirmedNeverLost
<1>8. QED BY <1>1, <1>6, <1>7 DEF OwnerInv

LEMMA RxSystemOwned ==
    ASSUME OwnerInv, TypeOK', NEW answer, NEW ack, RxSystem(answer, ack)
    PROVE OwnerInv'
<1> DEFINE W  == confirm \cup {0}
           c1 == SysPkt("CONFIG", "NEED_TO_SEND_RIGHT_NOW", 0)
           c2 == SysPkt("ACK_ON_SYS", "NEED_TO_SEND_RIGHT_NOW", 0)
           r1 == Restored(ring)
           r2 == IF answer THEN Alloc(r1, c1) ELSE r1
           r3 == IF ack /\ SysQueued(r2, "ACK_ON_SYS") = {} THEN Alloc(r2, c2) ELSE r2
<1>1. UNCHANGED <<active, oldState, ul, confirm>> /\ ring' = LookAtQueue(r3, active)
  BY DEF RxSystem, histVars
<1>2. r1 \in Ring /\ RingOwned(W, r1, active, oldState) /\ 0 \in W
  BY RestoredType, RestoredOwned DEF OwnerInv, TypeOK
<1>3. c1 \in Packet /\ c2 \in Packet /\ c1.id = 0 /\ c2.id = 0
  BY SysPktType, SysPktId DEF SysKinds, States, Iters
<1>4. r2 \in Ring /\ Calm(r1, r2)
  <2> HIDE DEF r1, c1
  <2> QED BY <1>2, <1>3, AllocType, AllocCalm, CalmRefl
<1>5. r3 \in Ring /\ Calm(r2, r3)
  <2> HIDE DEF r2, c2
  <2> QED BY <1>3, <1>4, AllocType, AllocCalm, CalmRefl
<1>6. Calm(r1, ring')
  <2> HIDE DEF r1, r2, r3
  <2> QED BY <1>1, <1>4, <1>5, LookAtQueueCalm, CalmTrans
<1>7. RingOwned(W, ring', active, oldState)
  <2> HIDE DEF r1, W
  <2> QED BY <1>2, <1>6, CalmOwned
<1>8. UnconfirmedNeverLost'
  BY <1>1 DEF OwnerInv, UnconfirmedNeverLost
<1>9. QED BY <1>1, <1>7, <1>8 DEF OwnerInv

\* The active packet is set to wait for extra packets and its state saved.
LEMMA SavedOwned ==
    ASSUME NEW W, NEW r \in Ring, NEW a \in Cells, NEW o, RingOwned(W, r, a, o),
           NEW o2, o2 = IF r.pkt[a].st # "WAIT_FOR_EXTRA_PACKETS"
                        THEN r.pkt[a].st ELSE o
    PROVE RingOwned(W, SetSt(r, a, "WAIT_FOR_EXTRA_PACKETS"), a, o2)
<1> DEFINE q == SetSt(r, a, "WAIT_FOR_EXTRA_PACKETS")
<1>1. r.pkt[a] \in Packet
  BY RingPkt
<1>2. \A c \in Cells : q.pkt[c] =
          IF c = a THEN [r.pkt[a] EXCEPT !.st = "WAIT_FOR_EXTRA_PACKETS"] ELSE r.pkt[c]
  BY DEF SetSt, Ring
<1> HIDE DEF q
<1>3. q.pkt[Idle].id = 0
  BY <1>1, <1>2, CellFacts DEF RingOwned, Packet
<1>4. ASSUME NEW c \in Cells PROVE Owned(W, q.pkt[c], c, a, o2)
  <2>1. Owned(W, r.pkt[c], c, a, o)
    BY DEF RingOwned
  <2>2. CASE c = a
    <3>1. /\ q.pkt[c].id = r.pkt[c].id /\ q.pkt[c].hs = r.pkt[c].hs
          /\ q.pkt[c].st = "WAIT_FOR_EXTRA_PACKETS"
      BY <1>1, <1>2, <2>2 DEF Packet
    <3>2. QED BY <2>1, <2>2, <3>1 DEF Owned, Meant
  <2>3. CASE c # a
    BY <1>2, <2>1, <2>3 DEF Owned, Meant
  <2>4. QED BY <2>2, <2>3
<1>5. QED BY <1>3, <1>4 DEF RingOwned, q

LEMMA RxMessageOwned ==
    ASSUME OwnerInv, TypeOK',
           NEW ack, NEW multi \in BOOLEAN, NEW repeated,
           ack \in BOOLEAN, RxMessage(ack, multi, repeated)
    PROVE OwnerInv'
<1>0. UNCHANGED <<ul, histVars>>
  BY Zenon DEF RxMessage
<1> DEFINE W    == confirm \cup {0}
           r1   == Restored(ring)
           drop == ~repeated /\ r1.pkt[active].st \in {"QUEUED", "QUEUED_AGAIN", "WAIT_ACK"}
           a    == IF drop THEN Idle ELSE active
           r2   == IF ack /\ multi /\ ~repeated THEN Sweep(r1, a) ELSE r1
           p    == [SysPkt("ACK", "NEED_TO_SEND_RIGHT_NOW", 0) EXCEPT !.multi = multi]
           r3   == IF ack /\ SysQueued(r2, "ACK") = {} THEN Alloc(r2, p) ELSE r2
           more == multi /\ ~ack
           r4   == IF more THEN SetSt(r3, a, "WAIT_FOR_EXTRA_PACKETS") ELSE r3
<1>1. /\ active' = a /\ ring' = LookAtQueue(r4, a)
      /\ oldState' = IF more /\ r3.pkt[a].st # "WAIT_FOR_EXTRA_PACKETS"
                     THEN r3.pkt[a].st ELSE oldState
  <2>1. active' = a
    BY Zenon DEF RxMessage
  <2>2. ring' = LookAtQueue(r4, a)
    BY Zenon DEF RxMessage
  <2>3. oldState' = IF more /\ r3.pkt[a].st # "WAIT_FOR_EXTRA_PACKETS"
                    THEN r3.pkt[a].st ELSE oldState
    BY Zenon DEF RxMessage
  <2> HIDE DEF a, r3, r4, more
  <2>4. QED BY <2>1, <2>2, <2>3
<1>2. UNCHANGED <<ul, confirm>>
  BY <1>0 DEF histVars
<1>3. r1 \in Ring /\ RingOwned(W, r1, active, oldState) /\ 0 \in W
  BY RestoredType, RestoredOwned DEF OwnerInv, TypeOK
<1>4. a \in Cells /\ RingOwned(W, r1, a, oldState)
  <2> HIDE DEF W, r1
  <2> QED BY <1>3, MoveActive, CellFacts DEF OwnerInv, TypeOK
<1>5. r2 \in Ring /\ Calm(r1, r2)
  <2> HIDE DEF r1, a
  <2> QED BY <1>3, SweepType, SweepCalm, CalmRefl
<1>6. p \in Packet /\ p.id = 0
  <2>1. SysPkt("ACK", "NEED_TO_SEND_RIGHT_NOW", 0) \in Packet
    BY SysPktType DEF SysKinds, States, Iters
  <2>2. QED BY <2>1, SysPktId DEF Packet
<1>7. r3 \in Ring /\ Calm(r2, r3)
  <2> HIDE DEF r2, p
  <2> QED BY <1>5, <1>6, AllocType, AllocCalm, CalmRefl
<1>8. RingOwned(W, r3, a, oldState)
  <2> HIDE DEF W, r1, r2, r3, a
  <2> QED BY <1>3, <1>4, <1>5, <1>7, CalmOwned, CalmTrans
<1>9. r4 \in Ring /\ RingOwned(W, r4, a, oldState')
  <2>1. CASE more
    <3> HIDE DEF W, r3, a
    <3> QED BY <1>1, <1>4, <1>7, <1>8, <2>1, SavedOwned, SetStType DEF States
  <2>2. CASE ~more
    <3> HIDE DEF W, r3, a, more
    <3> QED BY <1>1, <1>7, <1>8, <2>2
  <2>3. QED BY <2>1, <2>2
<1>10. RingOwned(W, ring', active', oldState')
  <2> HIDE DEF W, r4, a
  <2> QED BY <1>1, <1>3, <1>9, LookAtQueueCalm, CalmOwned
<1>11. UnconfirmedNeverLost'
  BY <1>2 DEF OwnerInv, UnconfirmedNeverLost
<1> HIDE DEF r1, r2, r3, r4, p, a, more, drop
<1>12. QED BY <1>2, <1>10, <1>11 DEF OwnerInv

LEMMA HeartBeatOwned ==
    ASSUME OwnerInv, TypeOK', HeartBeat PROVE OwnerInv'
<1> DEFINE p == [SysPkt("HEARTBEAT", "QUEUED", ulIter) EXCEPT
                   !.hs = Handshake /\ AckMode(mode), !.ack = Handshake /\ AckMode(mode)]
<1>1. p.id = 0
  BY DEF SysPkt, FreePkt
<1>2. ring' = Alloc(ring, p) \/ ring' = ring
  BY DEF HeartBeat
<1>3. UNCHANGED <<active, oldState, ul, confirm>>
  BY DEF HeartBeat, histVars
<1>4. ring \in Ring
  BY DEF OwnerInv, TypeOK
<1> HIDE DEF p
<1>5. QED BY <1>1, <1>2, <1>3, <1>4, AllocCalm, CalmRefl, QuietStep

\* Emptying the transmit buffer leaves only packets without an id.
LEMMA ClearedOwned ==
    ASSUME OwnerInv, TypeOK', ring' = ClearTx(ring), active' = Idle,
           UNCHANGED <<oldState, ul, confirm>>
    PROVE OwnerInv'
<1> DEFINE W == confirm \cup {0}
<1>1. RingOwned(W, ring, active, oldState) /\ ring \in Ring /\ 0 \in W
  BY DEF OwnerInv, TypeOK
<1>2. RingOwned(W, ring', Idle, oldState)
  <2> HIDE DEF W
  <2> QED BY <1>1, MoveActive, ClearTxCalm, CalmOwned
<1>3. UnconfirmedNeverLost'
  BY DEF OwnerInv, UnconfirmedNeverLost
<1>4. QED BY <1>2, <1>3 DEF OwnerInv

LEMMA OwnerNext ==
    ASSUME MaxMsgs < IdMod, OwnerInv, [Next]_vars PROVE OwnerInv'
<1>0. TypeOK' /\ TypeOK /\ ring \in Ring
  BY TypeOKNext DEF OwnerInv, TypeOK
<1>1. CASE UNCHANGED vars
  BY <1>0, <1>1, CalmRefl, QuietStep DEF vars, devVars, histVars
<1>2. ASSUME NEW len \in Lengths, NEW flags \in FlagSets, Send5(len, flags)
      PROVE OwnerInv'
  BY <1>0, <1>2, Send5Owned
<1>3. CASE SendNext
  BY <1>0, <1>3, SendNextOwned
<1>4. CASE ArmTimer
  BY <1>0, <1>4, CalmRefl, QuietStep DEF ArmTimer, histVars
<1>5. CASE ProcessOff
  BY <1>0, <1>5, ClearedOwned DEF ProcessOff, histVars
<1>6. CASE TxFinished
  BY <1>0, <1>6, SweepCalm, CalmRefl, QuietStep DEF TxFinished, histVars
<1>7. CASE ReceiveTimeout
  BY <1>0, <1>7, ReceiveTimeoutOwned
<1>8. CASE RxAck
  BY <1>0, <1>8, RxAckOwned
<1>9. ASSUME NEW answer \in BOOLEAN, NEW ack \in BOOLEAN, RxSystem(answer, ack)
      PROVE OwnerInv'
  BY <1>0, <1>9, RxSystemOwned
<1>10. ASSUME NEW ack \in BOOLEAN, NEW multi \in BOOLEAN, NEW repeated \in BOOLEAN,
              RxMessage(ack, multi, repeated)
       PROVE OwnerInv'
  BY <1>0, <1>10, RxMessageOwned
<1>11. CASE WaitExtraTimeout
  <2> DEFINE r == Restored(ring)
             W == confirm \cup {0}
  <2>1. ring' = Sweep(r, active) /\ UNCHANGED <<active, oldState, ul, confirm>>
    BY <1>11 DEF WaitExtraTimeout, histVars
  <2>2. r \in Ring /\ RingOwned(W, r, active, oldState) /\ 0 \in W
    BY <1>0, RestoredType, RestoredOwned DEF OwnerInv, TypeOK
  <2>3. RingOwned(W, ring', active, oldState)
    <3> HIDE DEF r, W
    <3> QED BY <2>1, <2>2, SweepCalm, CalmOwned
  <2>4. UnconfirmedNeverLost'
    BY <2>1 DEF OwnerInv, UnconfirmedNeverLost
  <2>5. QED BY <1>0, <2>1, <2>3, <2>4 DEF OwnerInv
<1>12. CASE WaitClearTimeout
  BY <1>0, <1>12, CalmRefl, QuietStep DEF WaitClearTimeout, histVars
<1>13. CASE HeartBeat
  BY <1>0, <1>13, HeartBeatOwned
<1>14. CASE ReportStatus
  <2>1. PICK id \in Ids : ul' = [ul EXCEPT ![id].rep = TRUE]
    BY <1>14 DEF ReportStatus
  <2>2. UNCHANGED <<ring, active, oldState, confirm>>
    BY <1>14 DEF ReportStatus
  <2>3. \A i \in Ids : ul'[i].st = ul[i].st
    BY <1>0, <2>1 DEF TypeOK
  <2>4. UnconfirmedNeverLost'
    BY <2>2, <2>3 DEF OwnerInv, UnconfirmedNeverLost
  <2>5. QED BY <1>0, <2>2, <2>4 DEF OwnerInv
<1>15. CASE GoToSleep
  BY <1>0, <1>15, ClearedOwned DEF GoToSleep, histVars
<1>16. CASE WakeUp
  <2>1. SendSync(ring, ulIter) \in Ring
    BY <1>0, SendSyncType DEF TypeOK
  <2>2. Calm(ring, SendClear(SendSync(ring, ulIter), 0))
    BY <1>0, <2>1, SendSyncCalm, SendClearCalm, CalmTrans
  <2>3. QED BY <1>0, <1>16, <2>2, QuietStep DEF WakeUp, histVars
<1>17. QED
  BY <1>1, <1>2, <1>3, <1>4, <1>5, <1>6, <1>7, <1>8, <1>9, <1>10, <1>11, <1>12,
     <1>13, <1>14, <1>15, <1>16 DEF Next

\* Only a message sent with a handshake can be declared LOST: no interleaving
\* of sending, acknowledgements, timeouts, downlinks, configuration frames,
\* heartbeats and sleep brings a packet the stack does not wait for into the
\* code that gives packets up.  It needs message ids that fit the 8 bits
\* packet->id keeps of them.
THEOREM OnlyConfirmedLost ==
    ASSUME MaxMsgs < IdMod PROVE Spec => []UnconfirmedNeverLost
<1>1. Init => OwnerInv
  BY OwnerInit
<1>2. OwnerInv /\ [Next]_vars => OwnerInv'
  BY OwnerNext
<1>3. OwnerInv => UnconfirmedNeverLost
  BY DEF OwnerInv
<1>4. QED BY <1>1, <1>2, <1>3, PTL DEF Spec
=============================================================================
