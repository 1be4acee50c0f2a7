---------------------------- MODULE NbfiTxSafety ----------------------------
(***************************************************************************)
(* More theorems about NbfiTx, on the lemmas of NbfiTxProofs.              *)
(*                                                                         *)
(* Part 1: what the operators of the ring leave as it was.                 *)
(* Part 2: a message is declared LOST only after all its tries.            *)
(* Part 3: a message of one packet gets one verdict, after which nothing   *)
(*         of it is left to send.                                          *)
(* Part 4: a message of one packet is declared DELIVERED only when the     *)
(*         base station has it, and NbfiTx implements UlService.           *)
(* Part 5: without downlink messages no packet is sent more often than the *)
(*         retry limit allows.                                             *)
(* Part 6: the packets of a group that an ACK marks DELIVERED were heard.  *)
(* Part 7: messages keep their order as long as none is forgotten.         *)
(* Part 8: undisturbed by downlinks and naps, no message is forgotten.     *)
(***************************************************************************)
EXTENDS NbfiTxProofs, NbfiLemmas, FiniteSetTheorems

USE TxSizeAssumption, IterAssumption, IdAssumption, RetryAssumption

-----------------------------------------------------------------------------
(***************************************************************************)
(* Part 1.  Nearly every operator on the ring is still: it replaces a      *)
(* packet by a free one or by one of the stack's own, turns a packet that  *)
(* waits for its ACK into a retransmission, or sets the MULTI bit; and it  *)
(* keeps the packets of the application in the order they were queued in.  *)
(***************************************************************************)
Own(q) == /\ q.id = 0
          /\ q.mack = 0
          /\ q.kind \in AppKinds => q.st = "FREE"

Alike(p, q) ==
    /\ q.id = p.id /\ q.kind = p.kind /\ q.hs = p.hs /\ q.ack = p.ack
    /\ q.iter = p.iter /\ q.mack = p.mack /\ q.retry = p.retry /\ q.sent = p.sent

Still(p, q) ==
    \/ Own(q)
    \/ /\ Alike(p, q)
       /\ q.st = p.st \/ (p.st = "WAIT_ACK" /\ q.st = "QUEUED_AGAIN")

Ahead(r, c, d) == Age(r.head, c) < Age(r.head, d)

InLine(r, q) ==
    \A c, d \in Slots :
        q.pkt[c].id # 0 /\ q.pkt[d].id # 0 /\ Ahead(q, c, d) => Ahead(r, c, d)

StillRing(r, q) ==
    /\ q.pkt[Idle] = r.pkt[Idle]
    /\ \A c \in Slots : Still(r.pkt[c], q.pkt[c])
    /\ InLine(r, q)

LEMMA StillRefl == ASSUME NEW r PROVE StillRing(r, r)
BY DEF StillRing, Still, Alike, InLine

LEMMA StillTrans ==
    ASSUME NEW r, NEW q, NEW t, StillRing(r, q), StillRing(q, t)
    PROVE StillRing(r, t)
<1>1. ASSUME NEW c \in Slots PROVE Still(r.pkt[c], t.pkt[c])
  <2>1. Still(r.pkt[c], q.pkt[c]) /\ Still(q.pkt[c], t.pkt[c])
    BY DEF StillRing
  <2>2. QED BY <2>1 DEF Still, Own, Alike
<1>2. ASSUME NEW c \in Slots, NEW d \in Slots, t.pkt[c].id # 0, t.pkt[d].id # 0,
             Ahead(t, c, d)
      PROVE Ahead(r, c, d)
  <2>1. Still(q.pkt[c], t.pkt[c]) /\ Still(q.pkt[d], t.pkt[d])
    BY DEF StillRing
  <2>2. q.pkt[c].id # 0 /\ q.pkt[d].id # 0
    BY <1>2, <2>1 DEF Still, Own, Alike
  <2>3. QED BY <1>2, <2>2 DEF StillRing, InLine
<1>3. QED BY <1>1, <1>2 DEF StillRing, InLine

\* A packet is replaced and the head stays.
LEMMA SetPktStill ==
    ASSUME NEW r \in Ring, NEW s \in Slots, NEW p, Still(r.pkt[s], p)
    PROVE StillRing(r, SetPkt(r, s, p))
<1> DEFINE q == SetPkt(r, s, p)
<1>1. /\ q.head = r.head
      /\ \A c \in Cells : q.pkt[c] = IF c = s THEN p ELSE r.pkt[c]
  BY CellFacts DEF SetPkt, Ring
<1> HIDE DEF q
<1>2. q.pkt[Idle] = r.pkt[Idle]
  BY <1>1, CellFacts
<1>3. \A c \in Slots : Still(r.pkt[c], q.pkt[c])
  BY <1>1, CellFacts DEF Still, Alike
<1>4. InLine(r, q)
  BY <1>1 DEF InLine, Ahead
<1>5. QED BY <1>2, <1>3, <1>4 DEF StillRing, q

LEMMA RequeueStill == ASSUME NEW r \in Ring, NEW s PROVE StillRing(r, Requeue(r, s))
<1>1. CASE s \in Slots /\ r.pkt[s].st = "WAIT_ACK"
  <2> DEFINE p == [r.pkt[s] EXCEPT !.st = "QUEUED_AGAIN"]
  <2>1. Requeue(r, s) = SetPkt(r, s, p)
    BY <1>1, CellFacts DEF Requeue, SetSt, SetPkt, Ring
  <2>2. Still(r.pkt[s], p)
    BY <1>1, RingPkt, CellFacts DEF Still, Alike, Packet
  <2> HIDE DEF p
  <2>3. QED BY <1>1, <2>1, <2>2, SetPktStill
<1>2. CASE ~(s \in Slots /\ r.pkt[s].st = "WAIT_ACK")
  BY <1>2, StillRefl DEF Requeue
<1>3. QED BY <1>1, <1>2

LEMMA SweepStill == ASSUME NEW r \in Ring, NEW a PROVE StillRing(r, Sweep(r, a))
BY RequeueStill DEF Sweep

LEMMA CountSweepStill ==
    ASSUME NEW r \in Ring, NEW a PROVE StillRing(r, CountSweep(r, a))
BY RequeueStill, StillRefl DEF CountSweep

LEMMA LookAtQueueStill ==
    ASSUME NEW r \in Ring, NEW a PROVE StillRing(r, LookAtQueue(r, a))
BY SweepType, SweepStill, CountSweepStill, StillTrans DEF LookAtQueue

\* The slot at head becomes the newest one.
LEMMA AgeNext ==
    ASSUME NEW h \in Slots, NEW c \in Slots
    PROVE Age((h + 1) % TxSize, c) = IF c = h THEN TxSize - 1 ELSE Age(h, c) - 1
<1>1. (h + 1) % TxSize = IF h = TxSize - 1 THEN 0 ELSE h + 1
  BY DEF Slots
<1> DEFINE g == (h + 1) % TxSize
<1> HIDE DEF g
<1>2. g = IF h = TxSize - 1 THEN 0 ELSE h + 1
  BY <1>1 DEF g
<1>3. TxSize \in Nat /\ h \in Int /\ c \in Int /\ 0 <= h /\ h < TxSize /\ 0 <= c /\ c < TxSize
  BY DEF Slots
<1>4. Age(g, c) = IF c = h THEN TxSize - 1 ELSE Age(h, c) - 1
  BY <1>2, <1>3 DEF Age
<1>5. QED BY <1>4 DEF g

LEMMA AgeFacts ==
    ASSUME NEW h \in Slots, NEW c \in Slots
    PROVE /\ Age(h, c) \in 0 .. TxSize - 1
          /\ \A d \in Slots : Age(h, d) = Age(h, c) => d = c
BY DEF Age, Slots

LEMMA AllocStill ==
    ASSUME NEW r \in Ring, NEW p, Own(p)
    PROVE StillRing(r, Alloc(r, p))
<1>1. r.head \in Slots /\ r.head \in Cells
  BY CellFacts DEF Ring
<1>2. CASE CanAlloc(r)
  <2> DEFINE q == Alloc(r, p)
  <2>1. /\ q.head = (r.head + 1) % TxSize
        /\ \A c \in Cells : q.pkt[c] = IF c = r.head THEN p ELSE r.pkt[c]
    BY <1>1, <1>2 DEF Alloc, Ring
  <2> HIDE DEF q
  <2>2. q.pkt[Idle] = r.pkt[Idle]
    BY <1>1, <2>1, CellFacts
  <2>3. \A c \in Slots : Still(r.pkt[c], q.pkt[c])
    BY <2>1, CellFacts DEF Still, Alike
  <2>4. ASSUME NEW c \in Slots, NEW d \in Slots, q.pkt[c].id # 0, q.pkt[d].id # 0,
               Ahead(q, c, d)
        PROVE Ahead(r, c, d)
    <3>1. c # r.head /\ d # r.head
      BY <2>1, <2>4, CellFacts DEF Own
    <3>2. Age(q.head, c) = Age(r.head, c) - 1 /\ Age(q.head, d) = Age(r.head, d) - 1
      BY <1>1, <2>1, <3>1, AgeNext
    <3>3. Age(r.head, c) \in Int /\ Age(r.head, d) \in Int
      BY <1>1, AgeFacts
    <3>4. QED BY <2>4, <3>2, <3>3 DEF Ahead
  <2>5. QED BY <2>2, <2>3, <2>4 DEF StillRing, InLine, q
<1>3. CASE ~CanAlloc(r)
  BY <1>3, StillRefl DEF Alloc
<1>4. QED BY <1>2, <1>3

LEMMA SysPktOwn ==
    ASSUME NEW kind \in SysKinds, NEW st, NEW i PROVE Own(SysPkt(kind, st, i))
BY DEF Own, SysPkt, FreePkt, SysKinds, AppKinds

\* Slots are emptied and the head stays.
LEMMA EmptiedStill ==
    ASSUME NEW r \in Ring, NEW q, q.head = r.head, q.pkt[Idle] = r.pkt[Idle],
           \A c \in Slots : q.pkt[c] = FreePkt \/ q.pkt[c] = r.pkt[c]
    PROVE StillRing(r, q)
<1>1. \A c \in Slots : Still(r.pkt[c], q.pkt[c])
  BY DEF Still, Own, Alike, FreePkt
<1>2. InLine(r, q)
  BY DEF InLine, Ahead
<1>3. QED BY <1>1, <1>2 DEF StillRing

LEMMA ClearTxStill == ASSUME NEW r \in Ring PROVE StillRing(r, ClearTx(r))
<1> DEFINE q == ClearTx(r)
<1>1. q.head = r.head /\ q.pkt[Idle] = r.pkt[Idle] /\ \A c \in Slots : q.pkt[c] = FreePkt
  BY CellFacts DEF ClearTx, Ring
<1> HIDE DEF q
<1>2. QED BY <1>1, EmptiedStill DEF q

LEMMA SendSyncStill ==
    ASSUME NEW r \in Ring, NEW i PROVE StillRing(r, SendSync(r, i))
<1> DEFINE f == [c \in Cells |-> IF c \in SysQueued(r, "SYNC") THEN FreePkt ELSE r.pkt[c]]
           q == [r EXCEPT !.pkt = f]
<1>1. f \in [Cells -> Packet]
  BY RingPkt, FreePktType
<1>2. q \in Ring /\ q.pkt = f /\ q.head = r.head
  <2> HIDE DEF f
  <2> QED BY <1>1, PktsType DEF Ring
<1>3. StillRing(r, q)
  <2>1. \A c \in Slots : f[c] = FreePkt \/ f[c] = r.pkt[c]
    BY CellFacts
  <2>2. f[Idle] = r.pkt[Idle]
    BY CellFacts DEF SysQueued
  <2> HIDE DEF f, q
  <2>3. QED BY <1>2, <2>1, <2>2, EmptiedStill
<1>4. SendSync(r, i) = Alloc(q, SysPkt("SYNC", "NEED_TO_SEND_RIGHT_NOW", i))
  BY DEF SendSync
<1>5. Own(SysPkt("SYNC", "NEED_TO_SEND_RIGHT_NOW", i))
  BY SysPktOwn DEF SysKinds
<1> HIDE DEF f, q
<1>6. QED BY <1>2, <1>3, <1>4, <1>5, AllocStill, StillTrans

LEMMA SendClearStill ==
    ASSUME NEW r \in Ring, NEW i PROVE StillRing(r, SendClear(r, i))
BY SysPktOwn, AllocStill DEF SendClear, SysKinds

LEMMA AfterLossStill ==
    ASSUME NEW r \in Ring, NEW policy PROVE StillRing(r, AfterLoss(r, policy))
BY SendSyncStill, StillRefl DEF AfterLoss

-----------------------------------------------------------------------------
\* The state a packet stands for does not depend on which packet is active,
\* as long as neither the old nor the new one waits for extra packets.
LEMMA MeantMoved ==
    ASSUME NEW r, NEW a, NEW b, NEW o, NEW c \in Slots,
           b = a \/ /\ b = Idle \/ r.pkt[b].st # "WAIT_FOR_EXTRA_PACKETS"
                    /\ a = Idle \/ r.pkt[a].st # "WAIT_FOR_EXTRA_PACKETS"
    PROVE Meant(r.pkt[c], c, b, o) = Meant(r.pkt[c], c, a, o)
BY CellFacts DEF Meant

\* The active packet gets its state back.
LEMMA RestoredAlike ==
    ASSUME TypeOK
    PROVE /\ Restored(ring).head = ring.head
          /\ \A c \in Cells :
                /\ Alike(ring.pkt[c], Restored(ring).pkt[c])
                /\ Meant(Restored(ring).pkt[c], c, active, oldState)
                     = Meant(ring.pkt[c], c, active, oldState)
<1> DEFINE q == Restored(ring)
<1>1. active \in Cells /\ ring \in Ring
  BY DEF TypeOK
<1>2. CASE ring.pkt[active].st = "WAIT_FOR_EXTRA_PACKETS"
  <2>1. /\ q.head = ring.head
        /\ \A c \in Cells : q.pkt[c] = IF c = active
                                       THEN [ring.pkt[active] EXCEPT !.st = oldState]
                                       ELSE ring.pkt[c]
    BY <1>1, <1>2 DEF Restored, SetSt, Ring
  <2> HIDE DEF q
  <2>2. \A c \in Cells : Alike(ring.pkt[c], q.pkt[c])
    BY <1>1, <2>1, RingPkt DEF Alike, Packet
  <2>3. q.pkt[active].st = oldState
    BY <1>1, <2>1, RingPkt DEF Packet
  <2>4. \A c \in Cells : Meant(q.pkt[c], c, active, oldState)
                           = Meant(ring.pkt[c], c, active, oldState)
    BY <1>2, <2>1, <2>3 DEF Meant
  <2>5. QED BY <2>1, <2>2, <2>4 DEF q
<1>3. CASE ring.pkt[active].st # "WAIT_FOR_EXTRA_PACKETS"
  BY <1>3 DEF Restored, Alike
<1>4. QED BY <1>2, <1>3

\* A downlink message, step by step: the active packet gets its state back;
\* the ring is still; the packet that is active now may be set to wait for
\* extra packets and its state saved; the ring is still.
Saved(r, q, a, o, o2) ==
    \/ q = r /\ o2 = o
    \/ /\ q = SetSt(r, a, "WAIT_FOR_EXTRA_PACKETS")
       /\ o2 = IF r.pkt[a].st # "WAIT_FOR_EXTRA_PACKETS" THEN r.pkt[a].st ELSE o

LEMMA RxMessageShape ==
    ASSUME TypeOK, NEW ack \in BOOLEAN, NEW multi \in BOOLEAN, NEW repeated \in BOOLEAN,
           RxMessage(ack, multi, repeated)
    PROVE /\ UNCHANGED <<ul, sentId, notAcked, station, histVars>>
          /\ \/ active' = active
             \/ active' = Idle /\ Restored(ring).pkt[active].st # "WAIT_FOR_EXTRA_PACKETS"
          /\ \E r \in Ring, q \in Ring :
                /\ StillRing(Restored(ring), r)
                /\ Saved(r, q, active', oldState, oldState')
                /\ StillRing(q, ring')
<1> DEFINE r1   == Restored(ring)
           drop == ~repeated /\ r1.pkt[active].st \in {"QUEUED", "QUEUED_AGAIN", "WAIT_ACK"}
           a    == IF drop THEN Idle ELSE active
           r2   == IF ack /\ multi /\ ~repeated THEN Sweep(r1, a) ELSE r1
           p    == [SysPkt("ACK", "NEED_TO_SEND_RIGHT_NOW", 0) EXCEPT !.multi = multi]
           r3   == IF ack /\ SysQueued(r2, "ACK") = {} THEN Alloc(r2, p) ELSE r2
           more == multi /\ ~ack
           r4   == IF more THEN SetSt(r3, a, "WAIT_FOR_EXTRA_PACKETS") ELSE r3
<1>1. /\ active' = a /\ ring' = LookAtQueue(r4, a)
      /\ oldState' = IF more /\ r3.pkt[a].st # "WAIT_FOR_EXTRA_PACKETS"
                     THEN r3.pkt[a].st ELSE oldState
  <2>1. active' = a
    BY Zenon DEF RxMessage
  <2>2. ring' = LookAtQueue(r4, a)
    BY Zenon DEF RxMessage
  <2>3. oldState' = IF more /\ r3.pkt[a].st # "WAIT_FOR_EXTRA_PACKETS"
                    THEN r3.pkt[a].st ELSE oldState
    BY Zenon DEF RxMessage
  <2> HIDE DEF a, r3, r4, more
  <2>4. QED BY <2>1, <2>2, <2>3
<1>2. UNCHANGED <<ul, sentId, notAcked, station, histVars>>
  BY Zenon DEF RxMessage
<1>3. r1 \in Ring
  BY RestoredType DEF TypeOK
<1>4. a \in Cells
  BY CellFacts DEF TypeOK
<1>5. r2 \in Ring /\ StillRing(r1, r2)
  <2> HIDE DEF r1, a
  <2> QED BY <1>3, SweepType, SweepStill, StillRefl
<1>6. p \in Packet /\ Own(p)
  <2>1. SysPkt("ACK", "NEED_TO_SEND_RIGHT_NOW", 0) \in Packet
    BY SysPktType DEF SysKinds, States, Iters
  <2>2. Own(SysPkt("ACK", "NEED_TO_SEND_RIGHT_NOW", 0))
    BY SysPktOwn DEF SysKinds
  <2>3. QED BY <2>1, <2>2 DEF Packet, Own
<1>7. r3 \in Ring /\ StillRing(r1, r3)
  <2> HIDE DEF r1, r2, p
  <2> QED BY <1>5, <1>6, AllocType, AllocStill, StillRefl, StillTrans
<1>8. r4 \in Ring /\ Saved(r3, r4, a, oldState, oldState')
  <2>1. CASE more
    <3> HIDE DEF r3, a
    <3> QED BY <1>1, <1>4, <1>7, <2>1, SetStType DEF Saved, States
  <2>2. CASE ~more
    <3> HIDE DEF r3, a, more
    <3> QED BY <1>1, <1>7, <2>2 DEF Saved
  <2>3. QED BY <2>1, <2>2
<1>9. StillRing(r4, ring')
  <2> HIDE DEF r4, a
  <2> QED BY <1>1, <1>8, LookAtQueueStill
<1>10. active' = active \/ (active' = Idle /\ r1.pkt[active].st # "WAIT_FOR_EXTRA_PACKETS")
  BY <1>1
<1> HIDE DEF r1, r3, r4, a
<1>11. QED BY <1>1, <1>2, <1>7, <1>8, <1>9, <1>10 DEF r1

\* A configuration frame: the active packet gets its state back, and the ring
\* is still.
LEMMA RxSystemShape ==
    ASSUME TypeOK, NEW answer \in BOOLEAN, NEW ack \in BOOLEAN, RxSystem(answer, ack)
    PROVE /\ UNCHANGED <<active, oldState, ul, sentId, notAcked, station, histVars>>
          /\ StillRing(Restored(ring), ring')
<1> DEFINE c1 == SysPkt("CONFIG", "NEED_TO_SEND_RIGHT_NOW", 0)
           c2 == SysPkt("ACK_ON_SYS", "NEED_TO_SEND_RIGHT_NOW", 0)
           r1 == Restored(ring)
           r2 == IF answer THEN Alloc(r1, c1) ELSE r1
           r3 == IF ack /\ SysQueued(r2, "ACK_ON_SYS") = {} THEN Alloc(r2, c2) ELSE r2
<1>1. ring' = LookAtQueue(r3, active)
  BY DEF RxSystem
<1>2. r1 \in Ring
  BY RestoredType DEF TypeOK
<1>3. c1 \in Packet /\ c2 \in Packet /\ Own(c1) /\ Own(c2)
  BY SysPktType, SysPktOwn DEF SysKinds, States, Iters
<1>4. r2 \in Ring /\ StillRing(r1, r2)
  <2> HIDE DEF r1, c1
  <2> QED BY <1>2, <1>3, AllocType, AllocStill, StillRefl
<1>5. r3 \in Ring /\ StillRing(r2, r3)
  <2> HIDE DEF r2, c2
  <2> QED BY <1>3, <1>4, AllocType, AllocStill, StillRefl
<1>6. StillRing(r1, ring')
  <2> HIDE DEF r1, r2, r3
  <2> QED BY <1>1, <1>4, <1>5, LookAtQueueStill, StillTrans
<1>7. QED BY <1>6 DEF RxSystem, r1

\* The next packet goes on the air: the ring is still, the packet the search
\* found is marked as sent, and the ring is still again.
LEMMA SendNextShape ==
    ASSUME TypeOK, SendNext
    PROVE LET r == Sweep(ring, active)
              s == Queued(ring, active)
          IN  /\ s \in Slots /\ mode # "OFF"
              /\ ring.pkt[active].st \notin {"WAIT_ACK", "WAIT_FOR_EXTRA_PACKETS"}
              /\ r \in Ring /\ StillRing(ring, r)
              /\ SetPkt(r, s, AfterAir(r.pkt[s])) \in Ring
              /\ StillRing(SetPkt(r, s, AfterAir(r.pkt[s])), ring')
              /\ active' = IF StateOnAir(r.pkt[s]) = "SENT" THEN Idle ELSE s
              /\ ul' = LET u == SetStatus(ul, sentId, r.pkt[s].id, "INPROCESS")
                       IN  IF StateOnAir(r.pkt[s]) = "SENT"
                           THEN SetStatus(u, sentId, r.pkt[s].id, "DELIVERED") ELSE u
              /\ UNCHANGED <<oldState, sentId, notAcked, frags, confirm, told>>
              /\ Air(r.pkt[s])
<1> DEFINE r  == Sweep(ring, active)
           s  == Queued(ring, active)
           p  == r.pkt[s]
           st == StateOnAir(p)
           r1 == SetPkt(r, s, AfterAir(p))
           r2 == IF ~p.ack /\ IsSystem(p) THEN Sweep(r1, s) ELSE r1
           more == Queued(r1, s) # None
           q    == [r2.pkt[s] EXCEPT !.multi = more]
<1>0. Transmit(r, s)
  BY DEF SendNext
<1>1. s \in Slots /\ s \in Cells /\ ring \in Ring
  BY QueuedIn, CellFacts DEF SendNext, TypeOK
<1>2. r \in Ring /\ StillRing(ring, r) /\ p \in Packet
  BY <1>1, SweepType, SweepStill, RingPkt
<1>3. r1 \in Ring
  BY <1>1, <1>2, AfterAirType, SetPktType
<1>4. r2 \in Ring /\ StillRing(r1, r2)
  <2> HIDE DEF r1
  <2> QED BY <1>3, SweepType, SweepStill, StillRefl
<1>5. StillRing(r2, ring')
  <2>1. ring' = r2 \/ ring' = [r2 EXCEPT !.pkt[s].multi = more]
    <3>1. ring' = IF (~p.ack /\ IsSystem(p)) /\ st # "SENT"
                  THEN [r2 EXCEPT !.pkt[s].multi = more] ELSE r2
      BY <1>0 DEF Transmit
    <3> HIDE DEF p, s, r2, more, st
    <3>2. QED BY <3>1
  <2>2. Still(r2.pkt[s], q)
    <3> HIDE DEF r2, more
    <3> QED BY <1>1, <1>4, RingPkt DEF Still, Alike, Packet
  <2>3. [r2 EXCEPT !.pkt[s].multi = more] = SetPkt(r2, s, q)
    <3> HIDE DEF r2, more
    <3> QED BY <1>1, <1>4 DEF SetPkt, Ring
  <2> HIDE DEF r2, q, s
  <2>4. QED BY <1>1, <1>4, <2>1, <2>2, <2>3, SetPktStill, StillRefl
<1>6. StillRing(r1, ring')
  <2> HIDE DEF r1, r2
  <2> QED BY <1>4, <1>5, StillTrans
<1>7. /\ active' = IF StateOnAir(p) = "SENT" THEN Idle ELSE s
      /\ ul' = LET u == SetStatus(ul, sentId, p.id, "INPROCESS")
               IN  IF StateOnAir(p) = "SENT"
                   THEN SetStatus(u, sentId, p.id, "DELIVERED") ELSE u
      /\ Air(p)
  BY <1>0 DEF Transmit
<1>8. /\ mode # "OFF"
      /\ ring.pkt[active].st \notin {"WAIT_ACK", "WAIT_FOR_EXTRA_PACKETS"}
      /\ UNCHANGED <<oldState, sentId, notAcked, frags, confirm, told>>
  BY DEF SendNext
<1>9. QED BY <1>1, <1>2, <1>3, <1>6, <1>7, <1>8

-----------------------------------------------------------------------------
(***************************************************************************)
(* Part 2.  LOST is the verdict of a packet that was transmitted as often  *)
(* as the limit allows, although the retry counter and the transmissions   *)
(* are counted in different handlers, and a packet is sent again by three  *)
(* of them.  The invariant ties the two counts together: a packet that is  *)
(* on the air, or was, has been sent more often than it was retried.  For  *)
(* the walk of NBFi_Resend_Pkt this needs the base station: an ACK always  *)
(* reports the packet that asked for it, so the walk, which may meet the   *)
(* active packet again when the window is longer than the ITER field,      *)
(* never takes it for a missing one.                                       *)
(***************************************************************************)
OnAir == {"WAIT_ACK", "SENT_NOACKED", "LOST", "DELIVERED"}

Worn(p) == p.sent > MaxRetry \/ p.retry >= NoRetries

TriedPkt(p, st) ==
    p.id # 0 => /\ p.sent >= p.retry \/ Worn(p)
                /\ st \in OnAir => p.sent > p.retry \/ Worn(p)

RingTried(r, a, o) ==
    \A c \in Slots : TriedPkt(r.pkt[c], Meant(r.pkt[c], c, a, o))

ReplyHolds == station.reply.type = "ACK" => station.reply.iter \in station.reply.has

TriedInv ==
    /\ OwnerInv
    /\ RingTried(ring, active, oldState)
    /\ ReplyHolds

\* The messages that become LOST between two status tables, by the packets of r.
LostTold(u, v, r) ==
    \A id \in Ids :
        u[id].st # "LOST" /\ v[id].st = "LOST" =>
            \E s \in Slots : r.pkt[s].id = id % IdMod /\ Worn(r.pkt[s])

LEMMA TriedStill ==
    ASSUME NEW r \in Ring, NEW q, NEW a, NEW o, RingTried(r, a, o), StillRing(r, q)
    PROVE RingTried(q, a, o)
<1>1. ASSUME NEW c \in Slots PROVE TriedPkt(q.pkt[c], Meant(q.pkt[c], c, a, o))
  <2>1. TriedPkt(r.pkt[c], Meant(r.pkt[c], c, a, o)) /\ Still(r.pkt[c], q.pkt[c])
    BY DEF RingTried, StillRing
  <2>2. QED BY <2>1 DEF TriedPkt, Still, Own, Alike, Meant, OnAir, Worn
<1>2. QED BY <1>1 DEF RingTried

LEMMA TriedMoved ==
    ASSUME NEW r, NEW a, NEW o, RingTried(r, a, o), NEW b,
           b = a \/ /\ b = Idle \/ r.pkt[b].st # "WAIT_FOR_EXTRA_PACKETS"
                    /\ a = Idle \/ r.pkt[a].st # "WAIT_FOR_EXTRA_PACKETS"
    PROVE RingTried(r, b, o)
BY MeantMoved DEF RingTried

LEMMA TriedRestored ==
    ASSUME TypeOK, RingTried(ring, active, oldState)
    PROVE RingTried(Restored(ring), active, oldState)
<1>1. ASSUME NEW c \in Slots
      PROVE TriedPkt(Restored(ring).pkt[c],
                     Meant(Restored(ring).pkt[c], c, active, oldState))
  <2>1. /\ Alike(ring.pkt[c], Restored(ring).pkt[c])
        /\ Meant(Restored(ring).pkt[c], c, active, oldState)
             = Meant(ring.pkt[c], c, active, oldState)
    BY RestoredAlike, CellFacts
  <2>2. TriedPkt(ring.pkt[c], Meant(ring.pkt[c], c, active, oldState))
    BY DEF RingTried
  <2>3. QED BY <2>1, <2>2 DEF TriedPkt, Alike, Worn
<1>2. QED BY <1>1 DEF RingTried

\* Setting the active packet to wait for extra packets: what stays the same.
LEMMA SavedAlike ==
    ASSUME NEW r \in Ring, NEW q, NEW a \in Cells, NEW o, NEW o2, Saved(r, q, a, o, o2)
    PROVE /\ q.head = r.head
          /\ \A c \in Cells : /\ Alike(r.pkt[c], q.pkt[c])
                              /\ Meant(q.pkt[c], c, a, o2) = Meant(r.pkt[c], c, a, o)
<1>1. CASE q = r /\ o2 = o
  BY <1>1 DEF Alike
<1>2. ASSUME q = SetSt(r, a, "WAIT_FOR_EXTRA_PACKETS"),
             o2 = IF r.pkt[a].st # "WAIT_FOR_EXTRA_PACKETS" THEN r.pkt[a].st ELSE o
      PROVE /\ q.head = r.head
            /\ \A c \in Cells : /\ Alike(r.pkt[c], q.pkt[c])
                                /\ Meant(q.pkt[c], c, a, o2) = Meant(r.pkt[c], c, a, o)
  <2>1. /\ q.head = r.head
        /\ \A c \in Cells : q.pkt[c] = IF c = a
                              THEN [r.pkt[a] EXCEPT !.st = "WAIT_FOR_EXTRA_PACKETS"]
                              ELSE r.pkt[c]
    BY <1>2 DEF SetSt, Ring
  <2>2. \A c \in Cells : Alike(r.pkt[c], q.pkt[c])
    BY <2>1, RingPkt DEF Alike, Packet
  <2>3. q.pkt[a].st = "WAIT_FOR_EXTRA_PACKETS"
    BY <2>1, RingPkt DEF Packet
  <2>4. \A c \in Cells : Meant(q.pkt[c], c, a, o2) = Meant(r.pkt[c], c, a, o)
    BY <1>2, <2>1, <2>3 DEF Meant
  <2>5. QED BY <2>1, <2>2, <2>4
<1>3. QED BY <1>1, <1>2 DEF Saved

LEMMA TriedSaved ==
    ASSUME NEW r \in Ring, NEW q, NEW a \in Cells, NEW o, NEW o2,
           Saved(r, q, a, o, o2), RingTried(r, a, o)
    PROVE RingTried(q, a, o2)
<1>0. \A c \in Cells : /\ Alike(r.pkt[c], q.pkt[c])
                       /\ Meant(q.pkt[c], c, a, o2) = Meant(r.pkt[c], c, a, o)
  BY SavedAlike
<1>1. ASSUME NEW c \in Slots PROVE TriedPkt(q.pkt[c], Meant(q.pkt[c], c, a, o2))
  <2>1. /\ Alike(r.pkt[c], q.pkt[c])
        /\ Meant(q.pkt[c], c, a, o2) = Meant(r.pkt[c], c, a, o)
    BY <1>0, CellFacts
  <2>2. TriedPkt(r.pkt[c], Meant(r.pkt[c], c, a, o))
    BY DEF RingTried
  <2>3. QED BY <2>1, <2>2 DEF TriedPkt, Alike, Worn
<1>2. QED BY <1>1 DEF RingTried

-----------------------------------------------------------------------------
\* A packet the walk meets is in a slot, on the air, and has the ITER of the step.
LEMMA AtOnAir ==
    ASSUME NEW r, NEW a, NEW k, At(r, a, k) # None
    PROVE /\ At(r, a, k) \in Slots
          /\ r.pkt[At(r, a, k)].st \in OnAir
          /\ r.pkt[At(r, a, k)].iter = (r.pkt[a].iter - k) % IterMod
<1> DEFINE i == (r.pkt[a].iter - k) % IterMod
           S == {s \in Slots :
                   /\ r.pkt[s].kind \in AppKinds
                   /\ r.pkt[s].st \in {"SENT_NOACKED", "WAIT_ACK", "LOST", "DELIVERED"}
                   /\ r.pkt[s].iter = i}
<1>1. At(r, a, k) = Newest(r.head, S)
  BY DEF At, SentByIter
<1>2. At(r, a, k) \in S
  <2> HIDE DEF S
  <2> QED BY <1>1, NewestIn
<1>3. QED BY <1>2 DEF OnAir

\* What the walk makes of a packet; the active packet is never missing.
WalkMakes(p, m, isActive) ==
    \/ m = p
    \/ /\ p.st \in OnAir
       /\ m = [p EXCEPT !.st = "DELIVERED"]
    \/ /\ p.st \in OnAir /\ ~isActive
       /\ m = [p EXCEPT !.st = "QUEUED_AGAIN", !.retry = @ + 1]
    \/ /\ p.st \in OnAir /\ ~isActive /\ p.retry + 1 > MaxRetry
       /\ m = [p EXCEPT !.retry = @ + 1]

LEMMA MarkedShape ==
    ASSUME NEW r \in Ring, NEW a \in Cells, NEW has, r.pkt[a].iter \in has, NEW c \in Cells
    PROVE WalkMakes(r.pkt[c], Marked(r, a, has).pkt[c], c = a)
<1> DEFINE p == r.pkt[c]
           m == Marked(r, a, has).pkt[c]
<1>1. m = IF \E k \in Absent(r, a, has) : At(r, a, k) = c
          THEN [p EXCEPT !.st = "QUEUED_AGAIN", !.retry = @ + 1]
          ELSE IF \E k \in Walked(r, a, has) : At(r, a, k) = c
          THEN [p EXCEPT !.st = "DELIVERED"]
          ELSE IF \E k \in GivenUp(r, a, has) : At(r, a, k) = c
          THEN [p EXCEPT !.retry = @ + 1]
          ELSE p
  BY DEF Marked, Ring
<1>2. ASSUME NEW k \in Walked(r, a, has), At(r, a, k) = c
      PROVE p.st \in OnAir /\ p.iter = (r.pkt[a].iter - k) % IterMod
  BY <1>2, WalkedAt, AtOnAir
<1>3. ASSUME NEW k \in Absent(r, a, has), At(r, a, k) = c
      PROVE p.st \in OnAir /\ c # a
  <2>1. k \in Walked(r, a, has) /\ (r.pkt[a].iter - k) % IterMod \notin has
    BY DEF Absent, Missing
  <2>2. QED BY <1>2, <1>3, <2>1
<1>4. ASSUME NEW k \in GivenUp(r, a, has), At(r, a, k) = c
      PROVE p.st \in OnAir /\ c # a /\ p.retry + 1 > MaxRetry
  <2>1. At(r, a, k) # None
    BY DEF GivenUp
  <2>2. WornOut(r, a, has, k)
    BY <2>1 DEF GivenUp, Stops
  <2>3. p.st \in OnAir /\ p.iter = (r.pkt[a].iter - k) % IterMod
    BY <1>4, <2>1, AtOnAir
  <2>4. QED BY <1>4, <2>2, <2>3 DEF WornOut, Missing
<1> HIDE DEF m
<1>5. CASE \E k \in Absent(r, a, has) : At(r, a, k) = c
  BY <1>1, <1>3, <1>5 DEF m, WalkMakes
<1>6. CASE /\ ~\E k \in Absent(r, a, has) : At(r, a, k) = c
           /\ \E k \in Walked(r, a, has) : At(r, a, k) = c
  BY <1>1, <1>2, <1>6 DEF m, WalkMakes
<1>7. CASE /\ ~\E k \in Absent(r, a, has) : At(r, a, k) = c
           /\ ~\E k \in Walked(r, a, has) : At(r, a, k) = c
           /\ \E k \in GivenUp(r, a, has) : At(r, a, k) = c
  BY <1>1, <1>4, <1>7 DEF m, WalkMakes
<1>8. CASE /\ ~\E k \in Absent(r, a, has) : At(r, a, k) = c
           /\ ~\E k \in Walked(r, a, has) : At(r, a, k) = c
           /\ ~\E k \in GivenUp(r, a, has) : At(r, a, k) = c
  BY <1>1, <1>8 DEF m, WalkMakes
<1>9. QED BY <1>5, <1>6, <1>7, <1>8

LEMMA MarkedTried ==
    ASSUME NEW r \in Ring, NEW a \in Cells, NEW has, r.pkt[a].iter \in has,
           NEW o, RingTried(r, a, o), r.pkt[a].st = "WAIT_ACK"
    PROVE /\ RingTried(Marked(r, a, has), a, o)
          /\ Marked(r, a, has).pkt[a].st \in OnAir
<1>1. ASSUME NEW c \in Slots
      PROVE TriedPkt(Marked(r, a, has).pkt[c], Meant(Marked(r, a, has).pkt[c], c, a, o))
  <2> DEFINE p == r.pkt[c]
             m == Marked(r, a, has).pkt[c]
  <2>1. p \in Packet
    BY RingPkt, CellFacts
  <2>2. TriedPkt(p, Meant(p, c, a, o))
    BY DEF RingTried
  <2>3. WalkMakes(p, m, c = a)
    BY MarkedShape, CellFacts
  <2>4. p.st \in OnAir => Meant(p, c, a, o) = p.st
    BY DEF Meant, OnAir
  <2> HIDE DEF m, p
  <2>5. CASE m = p
    BY <2>2, <2>5 DEF m
  <2>6. CASE p.st \in OnAir /\ m = [p EXCEPT !.st = "DELIVERED"]
    BY <2>1, <2>2, <2>4, <2>6 DEF m, TriedPkt, Worn, Packet
  <2>7. CASE p.st \in OnAir /\ m = [p EXCEPT !.st = "QUEUED_AGAIN", !.retry = @ + 1]
    <3>1. /\ m.st = "QUEUED_AGAIN" /\ m.id = p.id /\ m.sent = p.sent
          /\ m.retry = p.retry + 1 /\ p.retry \in Nat /\ p.sent \in Int
      BY <2>1, <2>7 DEF Packet
    <3>2. Meant(m, c, a, o) \notin OnAir
      BY <3>1 DEF Meant, OnAir
    <3>3. QED BY <2>2, <2>4, <2>7, <3>1, <3>2 DEF m, TriedPkt, Worn, NoRetries
  <2>8. CASE p.st \in OnAir /\ p.retry + 1 > MaxRetry /\ m = [p EXCEPT !.retry = @ + 1]
    <3>1. /\ m.id = p.id /\ m.sent = p.sent
          /\ m.retry = p.retry + 1 /\ p.retry \in Nat /\ p.sent \in Int
      BY <2>1, <2>8 DEF Packet
    <3>2. MaxRetry \in Int
      OBVIOUS
    <3>3. QED BY <2>2, <2>4, <2>8, <3>1, <3>2 DEF m, TriedPkt, Worn, NoRetries
  <2>9. QED BY <2>3, <2>5, <2>6, <2>7, <2>8 DEF WalkMakes
<1>2. Marked(r, a, has).pkt[a].st \in OnAir
  <2>1. r.pkt[a] \in Packet
    BY RingPkt
  <2>2. WalkMakes(r.pkt[a], Marked(r, a, has).pkt[a], a = a)
    BY MarkedShape
  <2>3. \/ Marked(r, a, has).pkt[a] = r.pkt[a]
        \/ Marked(r, a, has).pkt[a] = [r.pkt[a] EXCEPT !.st = "DELIVERED"]
    BY <2>2 DEF WalkMakes
  <2>4. QED BY <2>1, <2>3 DEF Packet, OnAir
<1>3. QED BY <1>1, <1>2 DEF RingTried

LEMMA CloseActiveShape ==
    ASSUME NEW r \in Ring, NEW a
    PROVE /\ CloseActive(r, a).head = r.head
          /\ \A c \in Cells : CloseActive(r, a).pkt[c] =
                IF c = a \/ (c \in Slots /\ r.pkt[c].st = "SENT_NOACKED")
                THEN [r.pkt[c] EXCEPT !.st = "LOST"] ELSE r.pkt[c]
BY DEF CloseActive, Ring

LEMMA CloseActiveTried ==
    ASSUME NEW r \in Ring, NEW a, NEW o, RingTried(r, a, o), r.pkt[a].st \in OnAir
    PROVE RingTried(CloseActive(r, a), a, o)
<1>1. ASSUME NEW c \in Slots
      PROVE TriedPkt(CloseActive(r, a).pkt[c], Meant(CloseActive(r, a).pkt[c], c, a, o))
  <2> DEFINE p == r.pkt[c]
             m == CloseActive(r, a).pkt[c]
  <2>1. p \in Packet /\ TriedPkt(p, Meant(p, c, a, o))
    BY RingPkt, CellFacts DEF RingTried
  <2>2. m = p \/ (p.st \in OnAir /\ m = [p EXCEPT !.st = "LOST"])
    BY CloseActiveShape, CellFacts DEF OnAir
  <2>3. p.st \in OnAir => Meant(p, c, a, o) = p.st
    BY DEF Meant, OnAir
  <2> HIDE DEF m, p
  <2>4. CASE m = p
    BY <2>1, <2>4 DEF m
  <2>5. CASE p.st \in OnAir /\ m = [p EXCEPT !.st = "LOST"]
    BY <2>1, <2>3, <2>5 DEF m, TriedPkt, Worn, Packet, Meant, OnAir
  <2>6. QED BY <2>2, <2>4, <2>5
<1>2. QED BY <1>1 DEF RingTried

LEMMA AskAgainAlike ==
    ASSUME NEW r \in Ring, NEW a, NEW s \in Cells, NEW c \in Cells
    PROVE LET p == r.pkt[c]
              q == AskAgain(r, a, s).pkt[c]
          IN  q.id = p.id /\ q.st = p.st /\ q.retry = p.retry /\ q.sent = p.sent
<1> DEFINE m == (r.pkt[a].mack - ((r.pkt[a].iter - r.pkt[s].iter) % IterMod)) % 64
           q == AskAgain(r, a, s)
<1>1. q.pkt[c] = IF c = s THEN [r.pkt[s] EXCEPT !.ack = TRUE, !.mack = m] ELSE r.pkt[c]
  BY DEF AskAgain, Ring
<1> HIDE DEF m, q
<1>2. QED BY <1>1, RingPkt DEF q, Packet

LEMMA AskAgainTried ==
    ASSUME NEW r \in Ring, NEW a, NEW s \in Cells, NEW o, RingTried(r, a, o)
    PROVE RingTried(AskAgain(r, a, s), a, o)
<1>1. ASSUME NEW c \in Slots
      PROVE TriedPkt(AskAgain(r, a, s).pkt[c], Meant(AskAgain(r, a, s).pkt[c], c, a, o))
  <2>1. /\ AskAgain(r, a, s).pkt[c].id = r.pkt[c].id
        /\ AskAgain(r, a, s).pkt[c].st = r.pkt[c].st
        /\ AskAgain(r, a, s).pkt[c].retry = r.pkt[c].retry
        /\ AskAgain(r, a, s).pkt[c].sent = r.pkt[c].sent
    BY AskAgainAlike, CellFacts
  <2>2. TriedPkt(r.pkt[c], Meant(r.pkt[c], c, a, o))
    BY DEF RingTried
  <2>3. QED BY <2>1, <2>2 DEF TriedPkt, Worn, Meant
<1>2. QED BY <1>1 DEF RingTried

-----------------------------------------------------------------------------
\* No status becomes LOST by a call of NBFi_Set_UL_Status with another one, nor
\* by one for a packet of the stack itself.
LEMMA LostOther ==
    ASSUME NEW u, NEW v, NEW r, LostTold(u, v, r), NEW n, NEW id8, NEW st, st # "LOST"
    PROVE LostTold(u, SetStatus(v, n, id8, st), r)
BY SetStatusLost DEF LostTold

LEMMA LostWorn ==
    ASSUME MaxMsgs < IdMod, NEW u, NEW r, NEW n, NEW id8,
           id8 = 0 \/ \E s \in Slots : r.pkt[s].id = id8 /\ Worn(r.pkt[s])
    PROVE LostTold(u, SetStatus(u, n, id8, "LOST"), r)
BY SetStatusLost, SmallId DEF LostTold

LEMMA LostSame == ASSUME NEW u, NEW r PROVE LostTold(u, u, r)
BY DEF LostTold

\* The search by ITER finds packets as worn as they were.
LEMMA ResendTried ==
    ASSUME MaxMsgs < IdMod, TypeOK, NEW r \in Ring, NEW has, NEW policy,
           RingTried(r, active, oldState),
           r.pkt[active].st = "WAIT_ACK", r.pkt[active].iter \in has
    PROVE /\ RingTried(Resend(r, active, has, policy).ring, active, oldState)
          /\ LostTold(ul, Resend(r, active, has, policy).ul, r)
<1> DEFINE mk == Marked(r, active, has)
           cl == CloseActive(mk, active)
           r1 == IF GivenUp(r, active, has) = {} THEN mk
                 ELSE AfterLoss(CloseActive(mk, active), policy)
           u1 == GaveUpStatus(r, active, has, ul)
           k0 == FirstAbsent(r, active, has)
           r2 == IF LeftOver(r, active, has) = {} THEN SendClear(r1, r1.pkt[active].iter)
                 ELSE r1
<1>1. active \in Cells /\ ulIter \in Iters
  BY DEF TypeOK
<1>2. mk \in Ring /\ RingTried(mk, active, oldState) /\ mk.pkt[active].st \in OnAir
  BY <1>1, MarkedType, MarkedTried
<1>3. r1 \in Ring /\ RingTried(r1, active, oldState)
  <2> HIDE DEF mk
  <2>1. cl \in Ring /\ RingTried(cl, active, oldState)
    BY <1>2, CloseActiveType, CloseActiveTried
  <2> HIDE DEF cl
  <2>2. AfterLoss(cl, policy) \in Ring /\ RingTried(AfterLoss(cl, policy), active, oldState)
    BY <1>1, <2>1, AfterLossType, AfterLossStill, TriedStill
  <2>3. QED BY <1>2, <2>2 DEF cl
<1>4. LostTold(ul, u1, r)
  <2>1. CASE GivenUp(r, active, has) = {}
    BY <2>1, LostSame DEF GaveUpStatus
  <2>2. CASE GivenUp(r, active, has) # {}
    <3> DEFINE k == CHOOSE k \in GivenUp(r, active, has) : TRUE
               s == At(r, active, k)
    <3>1. k \in GivenUp(r, active, has)
      BY <2>2
    <3>2. u1 = SetStatus(ul, sentId, r.pkt[s].id, "LOST")
      BY <2>2 DEF GaveUpStatus
    <3> HIDE DEF k
    <3>3. s # None /\ s \in Slots /\ r.pkt[s].st \in OnAir
      BY <1>1, <3>1, WalkedAt, AtOnAir
    <3>4. r.pkt[s].retry + 1 > MaxRetry
      BY <3>1, <3>3 DEF GivenUp, Stops, WornOut
    <3> HIDE DEF s, u1
    <3>5. r.pkt[s] \in Packet /\ TriedPkt(r.pkt[s], Meant(r.pkt[s], s, active, oldState))
      BY <3>3, RingPkt, CellFacts DEF RingTried
    <3>6. Meant(r.pkt[s], s, active, oldState) \in OnAir
      BY <3>3 DEF Meant, OnAir
    <3>7. r.pkt[s].id = 0 \/ Worn(r.pkt[s])
      BY <3>4, <3>5, <3>6 DEF TriedPkt, Worn, Packet
    <3>8. QED BY <3>2, <3>3, <3>7, LostWorn
  <2>3. QED BY <2>1, <2>2
<1>5. r2 \in Ring /\ RingTried(r2, active, oldState)
  <2>1. r1.pkt[active].iter \in Iters
    BY <1>1, <1>3, RingPkt DEF Packet
  <2> HIDE DEF r1
  <2>2. QED BY <1>3, <2>1, SendClearType, SendClearStill, TriedStill
<1>6. CASE k0 # None
  <2> DEFINE s == At(r, active, k0)
  <2>1. Resend(r, active, has, policy) = [ring |-> AskAgain(r1, active, s), ul |-> u1]
    BY <1>6 DEF Resend
  <2>2. k0 \in Walked(r, active, has)
    <3>1. k0 \in Absent(r, active, has)
      BY <1>6, AnyOfIn DEF FirstAbsent
    <3>2. QED BY <3>1 DEF Absent
  <2>3. s \in Cells
    <3> HIDE DEF k0
    <3> QED BY <1>1, <2>2, WalkedAt, AtIn, CellFacts
  <2> HIDE DEF r1, u1, s
  <2>4. RingTried(AskAgain(r1, active, s), active, oldState)
    BY <1>3, <2>3, AskAgainTried
  <2>5. QED BY <1>4, <2>1, <2>4
<1>7. CASE k0 = None
  <2>1. Resend(r, active, has, policy)
          = [ring |-> r2, ul |-> SetStatus(u1, sentId, r2.pkt[active].id, "DELIVERED")]
    BY <1>7 DEF Resend
  <2> HIDE DEF r2, u1
  <2>2. LostTold(ul, SetStatus(u1, sentId, r2.pkt[active].id, "DELIVERED"), r)
    BY <1>4, LostOther
  <2>3. QED BY <1>5, <2>1, <2>2
<1>8. QED BY <1>6, <1>7

\* Giving the active packet back its state does not change which packets are worn.
LEMMA LostRestored ==
    ASSUME TypeOK, NEW u, NEW v, LostTold(u, v, Restored(ring))
    PROVE LostTold(u, v, ring)
<1>1. \A s \in Slots : Alike(ring.pkt[s], Restored(ring).pkt[s])
  BY RestoredAlike, CellFacts
<1>2. QED BY <1>1 DEF LostTold, Alike, Worn

\* Every action: the invariant is kept, and what it declares LOST is worn.
TriedStep == /\ RingTried(ring', active', oldState')
             /\ ReplyHolds'
             /\ LostTold(ul, ul', ring)

\* A step that leaves all but the ring alone.
LEMMA TriedQuiet ==
    ASSUME TypeOK, TriedInv, NEW r, r = ring \/ r = Restored(ring), StillRing(r, ring'),
           UNCHANGED <<active, oldState, station, ul>>
    PROVE TriedStep
<1>1. r \in Ring /\ RingTried(r, active, oldState)
  BY RestoredType, TriedRestored DEF TriedInv, TypeOK
<1>2. RingTried(ring', active, oldState)
  BY <1>1, TriedStill
<1>3. QED BY <1>2, LostSame DEF TriedStep, TriedInv, ReplyHolds

LEMMA Send5Tried ==
    ASSUME TypeOK, TriedInv, NEW len \in Lengths, NEW flags \in FlagSets, Send5(len, flags)
    PROVE TriedStep
<1> DEFINE r     == CountSweep(ring, active)
           id    == sentId + 1
           n     == Fragments(len)
           k     == Allocatable(r, n)
           first == IF "SAME_TX_ITER" \in flags /\ k > 0 THEN lastIter ELSE ulIter
           room  == IF len <= MaxPayload THEN FreeSlots(ring, active, transmit) >= Mack + 3
                    ELSE FreeSlots(ring, active, transmit) >= len \div MaxPayload + 3
<1>1. /\ active \in Cells /\ ring \in Ring /\ StillRing(ring, r)
      /\ UNCHANGED <<active, oldState, station>>
  BY CountSweepStill DEF TypeOK, Send5
<1>2. CASE ~room
  <2>1. ring' = r /\ UNCHANGED ul
    BY <1>2 DEF Send5
  <2> HIDE DEF r
  <2>2. QED BY <1>1, <2>1, TriedQuiet
<1>3. CASE room
  <2>1. ul' = [ul EXCEPT ![id] = [st |-> "QUEUED", rep |-> FALSE]]
    BY <1>3 DEF Send5
  <2>2. ring'.pkt = [c \in Cells |->
            IF c \in Slots /\ Age(r.head, c) < k
            THEN Fragment(id, len, flags, first, Age(r.head, c), n, notAcked, mode)
            ELSE r.pkt[c]]
    BY <1>3 DEF Send5
  <2>3. RingTried(r, active, oldState)
    <3> HIDE DEF r
    <3> QED BY <1>1, TriedStill DEF TriedInv
  <2>4. ASSUME NEW c \in Slots
        PROVE TriedPkt(ring'.pkt[c], Meant(ring'.pkt[c], c, active, oldState))
    <3>1. CASE Age(r.head, c) < k
      <4> DEFINE p == Fragment(id, len, flags, first, Age(r.head, c), n, notAcked, mode)
      <4>1. p.st = "QUEUED" /\ p.sent = 0
            /\ (p.retry = 0 \/ p.retry = NoRetries)
        BY DEF Fragment
      <4>2. ring'.pkt[c] = p
        BY <2>2, <3>1, CellFacts
      <4> HIDE DEF p
      <4>3. QED BY <4>1, <4>2 DEF TriedPkt, Worn, Meant, OnAir, NoRetries
    <3>2. CASE ~(Age(r.head, c) < k)
      <4>1. ring'.pkt[c] = r.pkt[c]
        BY <2>2, <3>2, CellFacts
      <4> HIDE DEF r
      <4>2. QED BY <2>3, <4>1 DEF RingTried
    <3>3. QED BY <3>1, <3>2
  <2>5. LostTold(ul, ul', ring)
    BY <2>1 DEF LostTold, TypeOK
  <2>6. RingTried(ring', active', oldState')
    <3> HIDE DEF r
    <3> QED BY <1>1, <2>4 DEF RingTried
  <2>7. QED BY <1>1, <2>5, <2>6 DEF TriedStep, TriedInv, ReplyHolds
<1>4. QED BY <1>2, <1>3

LEMMA AirHolds == ASSUME ReplyHolds, NEW p, Air(p) PROVE ReplyHolds'
BY DEF Air, StationHears, ReplyHolds, NoReply

LEMMA AfterAirTried ==
    ASSUME NEW p \in Packet, NEW st, TriedPkt(p, st)
    PROVE /\ TriedPkt(AfterAir(p), AfterAir(p).st)
          /\ AfterAir(p).st # "WAIT_FOR_EXTRA_PACKETS"
          /\ AfterAir(p).id = p.id \/ AfterAir(p) = FreePkt
<1>1. CASE StateOnAir(p) = "SENT"
  BY <1>1 DEF AfterAir, FreePkt, TriedPkt
<1>2. CASE StateOnAir(p) # "SENT"
  <2>1. /\ AfterAir(p).st = StateOnAir(p) /\ AfterAir(p).sent = Bump(p.sent)
        /\ AfterAir(p).id = p.id /\ AfterAir(p).retry = p.retry
        /\ p.sent \in 0 .. MaxSent /\ p.retry \in Nat
    BY <1>2 DEF AfterAir, Packet
  <2>2. \/ p.sent < MaxSent /\ Bump(p.sent) = p.sent + 1
        \/ p.sent = MaxSent /\ Bump(p.sent) = p.sent
    BY <2>1 DEF Bump
  <2>3. TriedPkt(AfterAir(p), AfterAir(p).st)
    <3>1. MaxSent \in Int /\ MaxRetry \in Int /\ MaxSent > MaxRetry
      OBVIOUS
    <3>2. QED BY <2>1, <2>2, <3>1 DEF TriedPkt, Worn, NoRetries
  <2>4. StateOnAir(p) # "WAIT_FOR_EXTRA_PACKETS"
    BY DEF StateOnAir
  <2>5. QED BY <2>1, <2>3, <2>4
<1>3. QED BY <1>1, <1>2

LEMMA SendNextTried ==
    ASSUME TypeOK, TriedInv, SendNext PROVE TriedStep
<1> DEFINE r  == Sweep(ring, active)
           s  == Queued(ring, active)
           p  == r.pkt[s]
           r1 == SetPkt(r, s, AfterAir(p))
<1>1. /\ s \in Slots
      /\ ring.pkt[active].st # "WAIT_FOR_EXTRA_PACKETS"
      /\ r \in Ring /\ StillRing(ring, r) /\ r1 \in Ring /\ StillRing(r1, ring')
      /\ active' = Idle \/ active' = s
      /\ oldState' = oldState /\ Air(p)
  BY SendNextShape
<1>2. \/ ul' = SetStatus(ul, sentId, p.id, "INPROCESS")
      \/ ul' = SetStatus(SetStatus(ul, sentId, p.id, "INPROCESS"), sentId, p.id, "DELIVERED")
  BY SendNextShape
<1> HIDE DEF r, s
<1>3. p \in Packet
  BY <1>1, RingPkt, CellFacts
<1>4. RingTried(r, Idle, oldState)
  <2>1. RingTried(ring, Idle, oldState)
    BY <1>1, TriedMoved DEF TriedInv
  <2>2. QED BY <1>1, <2>1, TriedStill DEF TypeOK
<1>5. /\ TriedPkt(AfterAir(p), AfterAir(p).st)
      /\ AfterAir(p).st # "WAIT_FOR_EXTRA_PACKETS"
  <2>1. TriedPkt(p, Meant(p, s, Idle, oldState))
    BY <1>1, <1>4 DEF RingTried
  <2> HIDE DEF p
  <2>2. QED BY <1>3, <2>1, AfterAirTried
<1>6. \A c \in Slots : r1.pkt[c] = IF c = s THEN AfterAir(p) ELSE r.pkt[c]
  <2> HIDE DEF p
  <2> QED BY <1>1, CellFacts DEF SetPkt, Ring
<1> HIDE DEF p, r1
<1>7. RingTried(r1, Idle, oldState) /\ r1.pkt[s].st # "WAIT_FOR_EXTRA_PACKETS"
  BY <1>1, <1>4, <1>5, <1>6 DEF RingTried, Meant
<1>8. RingTried(r1, active', oldState)
  BY <1>1, <1>7, TriedMoved
<1>9. RingTried(ring', active', oldState')
  BY <1>1, <1>8, TriedStill
<1>10. LostTold(ul, ul', ring)
  <2>1. LostTold(ul, SetStatus(ul, sentId, p.id, "INPROCESS"), ring)
    BY LostSame, LostOther
  <2>2. QED BY <1>2, <2>1, LostOther
<1>11. QED BY <1>1, <1>9, <1>10, AirHolds DEF TriedStep, TriedInv

\* One packet changes.
LEMMA TriedSet ==
    ASSUME NEW r \in Ring, NEW s \in Cells, NEW p, NEW a, NEW o, RingTried(r, a, o),
           s \in Slots => TriedPkt(p, p.st), p.st # "WAIT_FOR_EXTRA_PACKETS"
    PROVE RingTried(SetPkt(r, s, p), a, o)
BY CellFacts DEF RingTried, SetPkt, Ring, Meant

LEMMA ReceiveTimeoutTried ==
    ASSUME MaxMsgs < IdMod, TypeOK, TriedInv, ReceiveTimeout PROVE TriedStep
<1> DEFINE p  == ring.pkt[active]
           p1 == [p EXCEPT !.retry = p.retry + 1]
           R  == [ring EXCEPT !.pkt[active].retry = @ + 1]
<1>0. UNCHANGED <<active, oldState, station>>
  BY DEF ReceiveTimeout
<1>1. active \in Cells /\ ring \in Ring /\ RingTried(ring, active, oldState)
  BY DEF TriedInv, TypeOK
<1>2. p \in Packet /\ p.retry \in Nat /\ p.retry + 1 \in Nat /\ p.sent \in Int
  BY <1>1, RingPkt DEF Packet
<1>3. R = SetPkt(ring, active, p1) /\ R \in Ring
  <2>1. p1 \in Packet
    BY <1>2, PktRetryType
  <2>2. R = SetPkt(ring, active, p1)
    BY <1>1 DEF SetPkt, Ring
  <2> HIDE DEF R, p1
  <2>3. QED BY <1>1, <2>1, <2>2, SetPktType
<1>4. ASSUME p.st = "WAIT_ACK", active \in Slots, p.id # 0
      PROVE p.sent > p.retry \/ Worn(p)
  <2>1. TriedPkt(p, Meant(p, active, active, oldState))
    BY <1>1, <1>4 DEF RingTried
  <2> HIDE DEF p
  <2>2. QED BY <1>4, <2>1 DEF TriedPkt, Meant, OnAir
<1>5. CASE p.st # "WAIT_ACK"
  BY <1>0, <1>5, StillRefl, TriedQuiet DEF ReceiveTimeout
<1>6. ASSUME p.st = "WAIT_ACK", TimeoutRetry PROVE TriedStep
  <2> DEFINE p2 == [p1 EXCEPT !.st = "QUEUED_AGAIN"]
  <2>1. ring' = SetPkt(ring, active, p2)
    BY <1>1, <1>2, <1>6 DEF TimeoutRetry, SetPkt, Ring, Packet
  <2>2. /\ p2.id = p.id /\ p2.st = "QUEUED_AGAIN" /\ p2.retry = p.retry + 1
        /\ p2.sent = p.sent
    BY <1>2 DEF Packet
  <2> HIDE DEF p2, p
  <2>3. active \in Slots => TriedPkt(p2, p2.st)
    BY <1>2, <1>4, <1>6, <2>2 DEF TriedPkt, Worn, OnAir, NoRetries
  <2>4. RingTried(ring', active, oldState)
    BY <1>1, <2>1, <2>2, <2>3, TriedSet
  <2>5. ul' = ul
    BY <1>6 DEF TimeoutRetry
  <2>6. QED BY <1>0, <2>4, <2>5, LostSame DEF TriedStep, TriedInv, ReplyHolds
<1>7. ASSUME p.st = "WAIT_ACK", NEW policy, TimeoutLost(policy) PROVE TriedStep
  <2> DEFINE r1 == CloseActive(R, active)
             q  == [r1.pkt[active] EXCEPT !.retry = 0]
             q2 == [q EXCEPT !.st = "QUEUED"]
             r2 == IF policy = "requeue"
                   THEN [r1 EXCEPT !.pkt[active].retry = 0, !.pkt[active].st = "QUEUED"]
                   ELSE r1
  <2>1. p.retry + 1 > MaxRetry
    BY <1>7 DEF TimeoutLost
  <2>2. /\ p1.id = p.id /\ p1.st = "WAIT_ACK" /\ p1.retry = p.retry + 1
        /\ p1.sent = p.sent
    BY <1>2, <1>7 DEF Packet
  <2>3. active \in Slots /\ p.id # 0 => Worn(p) /\ Worn(p1)
    <3> HIDE DEF p, p1
    <3>1. MaxRetry \in Int
      OBVIOUS
    <3>2. QED BY <1>2, <1>4, <1>7, <2>1, <2>2, <3>1 DEF Worn, NoRetries
  <2>4. active \in Slots => TriedPkt(p1, p1.st)
    <3> HIDE DEF p, p1
    <3> QED BY <2>2, <2>3 DEF TriedPkt
  <2>5. RingTried(R, active, oldState) /\ R.pkt[active].st \in OnAir
    <3>1. RingTried(SetPkt(ring, active, p1), active, oldState)
      <4> HIDE DEF p1
      <4> QED BY <1>1, <2>2, <2>4, TriedSet
    <3>2. SetPkt(ring, active, p1).pkt[active] = p1
      <4> HIDE DEF p1
      <4> QED BY <1>1 DEF SetPkt, Ring
    <3> HIDE DEF R, p1
    <3>3. QED BY <1>3, <2>2, <3>1, <3>2 DEF OnAir
  <2>6. r1 \in Ring /\ RingTried(r1, active, oldState)
    <3> HIDE DEF R
    <3> QED BY <1>3, <2>5, CloseActiveType, CloseActiveTried
  <2>7. r2 \in Ring /\ RingTried(r2, active, oldState)
    <3> HIDE DEF r1
    <3>1. q \in Packet /\ q2 \in Packet
      BY <1>1, <2>6, RingPkt, PktRetryType, PktStType DEF States
    <3>2. q2.st = "QUEUED" /\ q2.retry = 0 /\ q2.sent \in Nat
      BY <1>1, <2>6, RingPkt DEF Packet
    <3>3. [r1 EXCEPT !.pkt[active].retry = 0, !.pkt[active].st = "QUEUED"]
            = SetPkt(r1, active, q2)
      BY <1>1, <2>6 DEF SetPkt, Ring, Packet
    <3> HIDE DEF q2
    <3>4. TriedPkt(q2, q2.st)
      BY <3>2 DEF TriedPkt, Worn, OnAir, NoRetries
    <3>5. SetPkt(r1, active, q2) \in Ring
      BY <1>1, <2>6, <3>1, SetPktType
    <3>6. RingTried(SetPkt(r1, active, q2), active, oldState)
      BY <1>1, <2>6, <3>2, <3>4, TriedSet
    <3>7. QED BY <2>6, <3>3, <3>5, <3>6
  <2>8. RingTried(ring', active, oldState)
    <3>1. ring' = AfterLoss(r2, policy)
      BY <1>7 DEF TimeoutLost
    <3> HIDE DEF r2
    <3>2. QED BY <2>7, <3>1, AfterLossStill, TriedStill
  <2>9. LostTold(ul, ul', ring)
    <3>1. ul' = SetStatus(ul, sentId, p.id, "LOST")
      BY <1>7 DEF TimeoutLost
    <3>2. active \notin Slots => p.id = 0
      BY <1>1, CellFacts DEF TriedInv, OwnerInv, RingOwned
    <3>3. p.id = 0 \/ \E s \in Slots : ring.pkt[s].id = p.id /\ Worn(ring.pkt[s])
      BY <2>3, <3>2
    <3> HIDE DEF p
    <3>4. QED BY <3>1, <3>3, LostWorn
  <2>10. QED BY <1>0, <2>8, <2>9 DEF TriedStep, TriedInv, ReplyHolds
<1>8. QED BY <1>5, <1>6, <1>7 DEF ReceiveTimeout

LEMMA RxAckTried ==
    ASSUME MaxMsgs < IdMod, TypeOK, TriedInv, RxAck PROVE TriedStep
<1> DEFINE r == Restored(ring)
<1>1. UNCHANGED <<active, oldState>> /\ active \in Cells
  BY DEF RxAck, TypeOK
<1>2. r \in Ring /\ RingTried(r, active, oldState)
  BY RestoredType, TriedRestored DEF TriedInv, TypeOK
<1>3. ReplyHolds'
  BY DEF RxAck, ReplyHolds, NoReply, TypeOK
<1>4. RingTried(ring', active, oldState) /\ LostTold(ul, ul', ring)
  <2>1. CASE AckAccepted(r, station.reply)
    <3>1. PICK policy \in LossPolicies :
            /\ ring' = LookAtQueue(TakeAck(r, station.reply, policy).ring, active)
            /\ ul' = TakeAck(r, station.reply, policy).ul
      BY <2>1 DEF RxAck
    <3>2. r.pkt[active].st = "WAIT_ACK" /\ r.pkt[active].iter = station.reply.iter
      BY <2>1 DEF AckAccepted
    <3> HIDE DEF r
    <3>3. /\ RingTried(TakeAck(r, station.reply, policy).ring, active, oldState)
          /\ LostTold(ul, TakeAck(r, station.reply, policy).ul, r)
      <4>1. CASE station.reply.type = "ACK" /\ r.pkt[active].mack # 0
        <5>1. r.pkt[active].iter \in station.reply.has
          BY <3>2, <4>1 DEF TriedInv, ReplyHolds
        <5>2. QED BY <1>2, <3>2, <4>1, <5>1, ResendTried DEF TakeAck
      <4>2. CASE station.reply.type # "ACK" /\ r.pkt[active].mack # 0
        BY <1>2, <4>2, LostSame DEF TakeAck
      <4>3. CASE r.pkt[active].mack = 0
        <5> DEFINE t == TakeAck(r, station.reply, policy)
        <5> HIDE DEF t
        <5>1. PICK d \in Packet, r1 \in Ring :
                /\ AsDelivered(d, r.pkt[active])
                /\ r1 = SetPkt(r, active, d) /\ r1.head = r.head
                /\ \A c \in Cells : r1.pkt[c] = IF c = active THEN d ELSE r.pkt[c]
                /\ t.ring = r1 \/ t.ring = SendClear(r1, d.iter)
                /\ \/ t.ul = ul
                   \/ t.ul = SetStatus(ul, sentId, t.ring.pkt[active].id, "DELIVERED")
          BY <1>1, <1>2, <4>3, TakeAckEmpty DEF t
        <5>2. active \in Slots => TriedPkt(r.pkt[active], "WAIT_ACK")
          BY <1>2, <3>2 DEF RingTried, Meant
        <5>3. active \in Slots => TriedPkt(d, d.st)
          BY <5>1, <5>2 DEF AsDelivered, TriedPkt, OnAir, Worn
        <5>4. RingTried(r1, active, oldState)
          BY <1>1, <1>2, <5>1, <5>3, TriedSet DEF AsDelivered
        <5>5. RingTried(t.ring, active, oldState)
          BY <5>1, <5>4, SendClearStill, TriedStill
        <5>6. LostTold(ul, t.ul, r)
          BY <5>1, LostSame, LostOther
        <5>7. QED BY <5>5, <5>6 DEF t
      <4>4. QED BY <4>1, <4>2, <4>3
    <3>4. TakeAck(r, station.reply, policy).ring \in Ring
      BY <1>2, TakeAckType
    <3>5. RingTried(ring', active, oldState)
      BY <3>1, <3>3, <3>4, LookAtQueueStill, TriedStill
    <3>6. QED BY <3>1, <3>3, <3>5, LostRestored DEF r
  <2>2. CASE ~AckAccepted(r, station.reply)
    <3>1. ring' = LookAtQueue(r, active) /\ ul' = ul
      BY <2>2 DEF RxAck
    <3> HIDE DEF r
    <3>2. QED BY <1>2, <3>1, LookAtQueueStill, TriedStill, LostSame
  <2>3. QED BY <2>1, <2>2
<1>5. QED BY <1>1, <1>3, <1>4 DEF TriedStep

LEMMA RxMessageTried ==
    ASSUME TypeOK, TypeOK', TriedInv, NEW ack \in BOOLEAN, NEW multi \in BOOLEAN,
           NEW repeated \in BOOLEAN, RxMessage(ack, multi, repeated)
    PROVE TriedStep
<1> DEFINE r1 == Restored(ring)
<1>1. /\ UNCHANGED <<ul, station>>
      /\ \/ active' = active
         \/ active' = Idle /\ r1.pkt[active].st # "WAIT_FOR_EXTRA_PACKETS"
  BY RxMessageShape
<1>2. PICK r \in Ring, q \in Ring : /\ StillRing(r1, r)
                                    /\ Saved(r, q, active', oldState, oldState')
                                    /\ StillRing(q, ring')
  BY RxMessageShape
<1>3. r1 \in Ring /\ RingTried(r1, active, oldState)
  BY RestoredType, TriedRestored DEF TriedInv, TypeOK
<1> HIDE DEF r1
<1>4. RingTried(r1, active', oldState)
  BY <1>1, <1>3, TriedMoved
<1>5. RingTried(r, active', oldState)
  BY <1>2, <1>3, <1>4, TriedStill
<1>6. RingTried(q, active', oldState')
  <2>1. active' \in Cells
    BY DEF TypeOK
  <2>2. QED BY <1>2, <1>5, <2>1, TriedSaved
<1>7. RingTried(ring', active', oldState')
  BY <1>2, <1>6, TriedStill
<1>8. QED BY <1>1, <1>7, LostSame DEF TriedStep, TriedInv, ReplyHolds

\* Emptying the transmit buffer, whatever packet is active.
LEMMA ClearedTried ==
    ASSUME TypeOK, TriedInv, ring' = ClearTx(ring), active' = Idle,
           UNCHANGED <<oldState, ul, station>>
    PROVE TriedStep
<1>1. \A c \in Slots : ring'.pkt[c] = FreePkt
  BY CellFacts DEF ClearTx, TypeOK, Ring
<1>2. RingTried(ring', active', oldState')
  BY <1>1 DEF RingTried, TriedPkt, FreePkt
<1>3. QED BY <1>2, LostSame DEF TriedStep, TriedInv, ReplyHolds

LEMMA HeartBeatStill == ASSUME TypeOK, HeartBeat PROVE StillRing(ring, ring')
<1> DEFINE p == [SysPkt("HEARTBEAT", "QUEUED", ulIter) EXCEPT
                   !.hs = Handshake /\ AckMode(mode), !.ack = Handshake /\ AckMode(mode)]
<1>1. Own(p)
  BY DEF Own, SysPkt, FreePkt, AppKinds
<1>2. ring' = Alloc(ring, p) \/ ring' = ring
  BY DEF HeartBeat
<1> HIDE DEF p
<1>3. QED BY <1>1, <1>2, AllocStill, StillRefl DEF TypeOK

LEMMA WakeUpStill == ASSUME TypeOK, WakeUp PROVE StillRing(ring, ring')
<1>1. ring \in Ring /\ SendSync(ring, ulIter) \in Ring
  BY SendSyncType DEF TypeOK
<1>2. ring' = SendClear(SendSync(ring, ulIter), 0)
  BY DEF WakeUp
<1>3. QED BY <1>1, <1>2, SendSyncStill, SendClearStill, StillTrans

LEMMA TriedNext ==
    ASSUME MaxMsgs < IdMod, TriedInv, [Next]_vars
    PROVE TriedInv' /\ LostTold(ul, ul', ring)
<1>0. TypeOK /\ TypeOK' /\ OwnerInv' /\ ring \in Ring
  BY TypeOKNext, OwnerNext DEF TriedInv, OwnerInv, TypeOK
<1>1. CASE UNCHANGED vars
  <2>1. TriedStep
    BY <1>0, <1>1, StillRefl, TriedQuiet DEF vars, devVars
  <2>2. QED BY <1>0, <2>1 DEF TriedStep, TriedInv
<1>2. ASSUME Next PROVE TriedStep
  <2>1. ASSUME NEW len \in Lengths, NEW flags \in FlagSets, Send5(len, flags)
        PROVE TriedStep
    BY <1>0, <2>1, Send5Tried
  <2>2. CASE SendNext
    BY <1>0, <2>2, SendNextTried
  <2>3. CASE ArmTimer
    BY <1>0, <2>3, StillRefl, TriedQuiet DEF ArmTimer
  <2>4. CASE ProcessOff
    BY <1>0, <2>4, ClearedTried DEF ProcessOff
  <2>5. CASE TxFinished
    BY <1>0, <2>5, SweepStill, StillRefl, TriedQuiet DEF TxFinished
  <2>6. CASE ReceiveTimeout
    BY <1>0, <2>6, ReceiveTimeoutTried
  <2>7. CASE RxAck
    BY <1>0, <2>7, RxAckTried
  <2>8. ASSUME NEW answer \in BOOLEAN, NEW ack \in BOOLEAN, RxSystem(answer, ack)
        PROVE TriedStep
    BY <1>0, <2>8, RxSystemShape, TriedQuiet
  <2>9. ASSUME NEW ack \in BOOLEAN, NEW multi \in BOOLEAN, NEW repeated \in BOOLEAN,
               RxMessage(ack, multi, repeated)
        PROVE TriedStep
    BY <1>0, <2>9, RxMessageTried
  <2>10. CASE WaitExtraTimeout
    <3> DEFINE r == Restored(ring)
    <3>1. r \in Ring /\ ring' = Sweep(r, active) /\ UNCHANGED <<active, oldState, station, ul>>
      BY <1>0, <2>10, RestoredType DEF WaitExtraTimeout, TypeOK
    <3>2. StillRing(r, ring')
      <4> HIDE DEF r
      <4> QED BY <3>1, SweepStill
    <3>3. QED BY <1>0, <3>1, <3>2, TriedQuiet
  <2>11. CASE WaitClearTimeout
    BY <1>0, <2>11, StillRefl, TriedQuiet DEF WaitClearTimeout
  <2>12. CASE HeartBeat
    BY <1>0, <2>12, HeartBeatStill, TriedQuiet DEF HeartBeat
  <2>13. CASE ReportStatus
    <3>1. PICK id \in Ids : ul' = [ul EXCEPT ![id].rep = TRUE]
      BY <2>13 DEF ReportStatus
    <3>2. \A i \in Ids : ul'[i].st = ul[i].st
      BY <1>0, <3>1 DEF TypeOK
    <3>3. QED BY <2>13, <3>2 DEF ReportStatus, TriedStep, TriedInv, ReplyHolds, LostTold
  <2>14. CASE GoToSleep
    BY <1>0, <2>14, ClearedTried DEF GoToSleep
  <2>15. CASE WakeUp
    BY <1>0, <2>15, WakeUpStill, TriedQuiet DEF WakeUp
  <2>16. QED
    BY <1>2, <2>1, <2>2, <2>3, <2>4, <2>5, <2>6, <2>7, <2>8, <2>9, <2>10, <2>11,
       <2>12, <2>13, <2>14, <2>15 DEF Next
<1>3. CASE Next
  BY <1>0, <1>2, <1>3 DEF TriedStep, TriedInv
<1>4. QED BY <1>1, <1>3

LEMMA TriedInit == Init => TriedInv
<1>1. SUFFICES ASSUME Init PROVE TriedInv
  OBVIOUS
<1>2. OwnerInv /\ TypeOK
  BY <1>1, OwnerInit DEF OwnerInv
<1>3. StillRing(EmptyRing, ring)
  <2>1. EmptyRing \in Ring /\ SendSync(EmptyRing, 0) \in Ring
    BY EmptyRingType, SendSyncType DEF Iters
  <2>2. StillRing(EmptyRing, SendClear(SendSync(EmptyRing, 0), 0))
    BY <2>1, SendSyncStill, SendClearStill, StillTrans
  <2>3. QED BY <1>1, <2>2, StillRefl DEF Init
<1>4. RingTried(EmptyRing, Idle, "FREE")
  BY CellFacts DEF RingTried, TriedPkt, EmptyRing, FreePkt
<1>5. RingTried(ring, active, oldState)
  <2>1. active = Idle /\ oldState = "FREE"
    BY <1>1 DEF Init
  <2>2. QED BY <1>3, <1>4, <2>1, EmptyRingType, TriedStill
<1>6. ReplyHolds
  BY <1>1 DEF Init, ReplyHolds, NoReply
<1>7. QED BY <1>2, <1>5, <1>6 DEF TriedInv

\* A message is declared LOST only after one of its packets was transmitted as
\* often as the retry limit allows, or its retries were forbidden: a lost
\* packet is never given up early, whichever of the timeout and the walk over
\* an ACK counts the last try, and whatever downlink takes the active packet
\* away in between.  It needs message ids that fit the 8 bits packet->id keeps.
THEOREM LostOnlyWhenTried ==
    ASSUME MaxMsgs < IdMod PROVE Spec => LostAfterAllTries
<1>1. Init => TriedInv
  BY TriedInit
<1>2. TriedInv /\ [Next]_vars => TriedInv'
  BY TriedNext
<1>3. TriedInv /\ [Next]_vars =>
        \A id \in Ids :
          ul[id].st # "LOST" /\ ul'[id].st = "LOST" =>
            \E s \in Slots : /\ ring.pkt[s].id = id % IdMod
                             /\ \/ ring.pkt[s].sent > MaxRetry
                                \/ ring.pkt[s].retry >= NoRetries
  BY TriedNext DEF LostTold, Worn
<1>4. QED BY <1>1, <1>2, <1>3, PTL DEF Spec, LostAfterAllTries

-----------------------------------------------------------------------------
(***************************************************************************)
(* Part 3.  Messages of one packet with an ACK for every packet: the       *)
(* application is told one verdict per message, once, and then no packet   *)
(* of the message is left to be sent or waited for.                        *)
(*                                                                         *)
(* The invariant keeps the packets in line.  In the ring the packets of    *)
(* the application stand in the order of their messages; one that was      *)
(* handed to the radio is never younger than one that still waits for its  *)
(* turn or its ACK; and a packet that waits belongs to a message without a *)
(* verdict.  So the walk of NBFi_Resend_Pkt, which looks for the newest    *)
(* packet with the ITER of the ACK, finds the active packet and no other   *)
(* one with the same ITER, whatever older packets are left in the ring.    *)
(***************************************************************************)
Singles ==
    /\ Mack = 1
    /\ \A l \in Lengths : l <= MaxPayload
    /\ "requeue" \notin LossPolicies
    /\ MaxMsgs < IdMod

Pending == {"QUEUED", "QUEUED_AGAIN", "WAIT_ACK", "NEED_TO_SEND_RIGHT_NOW"}
Done    == {"LOST", "DELIVERED"}
Open    == {"QUEUED", "INPROCESS"}

PktLined(p, st, u, n) ==
    /\ p.id # 0 => /\ p.id <= n
                   /\ p.kind \in AppKinds
                   /\ st \in Pending \cup Done
                   /\ st \in Pending => u[p.id].st \in Open
                   /\ p.hs /\ Mode = "CRX" => p.ack /\ p.mack = 1
                   /\ st = "WAIT_ACK" => p.hs /\ Mode = "CRX"
    /\ p.id = 0 => /\ p.mack = 0
                   /\ p.kind \in AppKinds => st = "FREE"

PairLined(r, c, d, mc, md) ==
    r.pkt[c].id # 0 /\ r.pkt[d].id # 0 =>
        /\ Ahead(r, c, d) => r.pkt[c].id < r.pkt[d].id
        /\ md # "QUEUED" /\ mc \in Pending => r.pkt[d].id <= r.pkt[c].id

RingLined(r, a, o, u, n) ==
    /\ r.pkt[Idle].id = 0 /\ r.pkt[Idle].mack = 0
    /\ \A c \in Slots : PktLined(r.pkt[c], Meant(r.pkt[c], c, a, o), u, n)
    /\ \A c, d \in Slots :
         PairLined(r, c, d, Meant(r.pkt[c], c, a, o), Meant(r.pkt[d], d, a, o))

ToldLined(t, u, n) ==
    \A id \in Ids :
        /\ t[id] # <<>> => Len(t[id]) = 1 /\ u[id].rep /\ u[id].st \in Verdicts
        /\ id > n => u[id].st = "NOTEXIST"

LinedInv ==
    /\ TypeOK
    /\ RingLined(ring, active, oldState, ul, sentId)
    /\ ToldLined(told, ul, sentId)
    /\ notAcked = 0

-----------------------------------------------------------------------------
\* Two packets of the application in the ring belong to two messages.
LEMMA LinedUnique ==
    ASSUME NEW r \in Ring, NEW a, NEW o, NEW u, NEW n, RingLined(r, a, o, u, n),
           NEW c \in Slots, NEW d \in Slots, c # d, r.pkt[c].id # 0
    PROVE r.pkt[c].id # r.pkt[d].id
<1>1. r.head \in Slots
  BY DEF Ring
<1>2. Age(r.head, c) \in Int /\ Age(r.head, d) \in Int /\ Age(r.head, c) # Age(r.head, d)
  BY <1>1, AgeFacts
<1>3. Ahead(r, c, d) \/ Ahead(r, d, c)
  BY <1>2 DEF Ahead
<1>4. r.pkt[c].id \in Int /\ r.pkt[d].id \in Int
  BY RingPkt, CellFacts DEF Packet
<1>5. QED BY <1>3, <1>4 DEF RingLined, PairLined

LEMMA LinedStill ==
    ASSUME NEW r \in Ring, NEW q, NEW a, NEW o, NEW u, NEW n,
           RingLined(r, a, o, u, n), StillRing(r, q)
    PROVE RingLined(q, a, o, u, n)
<1> DEFINE mr(c) == Meant(r.pkt[c], c, a, o)
           mq(c) == Meant(q.pkt[c], c, a, o)
<1>1. ASSUME NEW c \in Slots
      PROVE /\ PktLined(q.pkt[c], mq(c), u, n)
            /\ q.pkt[c].id # 0 => /\ q.pkt[c].id = r.pkt[c].id
                                  /\ mq(c) # "QUEUED" => mr(c) # "QUEUED"
                                  /\ mq(c) \in Pending => mr(c) \in Pending
  <2>1. PktLined(r.pkt[c], mr(c), u, n) /\ Still(r.pkt[c], q.pkt[c])
    BY DEF RingLined, StillRing
  <2>2. CASE Own(q.pkt[c])
    BY <2>2 DEF Own, PktLined, Meant
  <2>3. CASE Alike(r.pkt[c], q.pkt[c]) /\ q.pkt[c].st = r.pkt[c].st
    BY <2>1, <2>3 DEF PktLined, Alike, Meant
  <2>4. CASE /\ Alike(r.pkt[c], q.pkt[c])
             /\ r.pkt[c].st = "WAIT_ACK" /\ q.pkt[c].st = "QUEUED_AGAIN"
    <3>1. mr(c) = "WAIT_ACK" /\ mq(c) = "QUEUED_AGAIN"
      BY <2>4 DEF Meant
    <3> HIDE DEF mr, mq
    <3>2. QED BY <2>1, <2>4, <3>1 DEF PktLined, Alike, Pending
  <2>5. QED BY <2>1, <2>2, <2>3, <2>4 DEF Still
<1>2. ASSUME NEW c \in Slots, NEW d \in Slots
      PROVE PairLined(q, c, d, mq(c), mq(d))
  <2>1. PairLined(r, c, d, mr(c), mr(d))
    BY DEF RingLined
  <2>2. /\ q.pkt[c].id # 0 => /\ q.pkt[c].id = r.pkt[c].id
                              /\ mq(c) \in Pending => mr(c) \in Pending
        /\ q.pkt[d].id # 0 => /\ q.pkt[d].id = r.pkt[d].id
                              /\ mq(d) # "QUEUED" => mr(d) # "QUEUED"
    BY <1>1
  <2>3. q.pkt[c].id # 0 /\ q.pkt[d].id # 0 /\ Ahead(q, c, d) => Ahead(r, c, d)
    BY DEF StillRing, InLine
  <2> HIDE DEF mr, mq
  <2>4. QED BY <2>1, <2>2, <2>3 DEF PairLined
<1>3. q.pkt[Idle].id = 0 /\ q.pkt[Idle].mack = 0
  BY DEF StillRing, RingLined
<1>4. QED BY <1>1, <1>2, <1>3 DEF RingLined

\* Packets keep their place and what they are; one that waits for its ACK may
\* become a retransmission or get its verdict; and the statuses may change as
\* long as every packet that still waits has an open message.
Moved(p, mp, q, mq) ==
    /\ q.id = p.id /\ q.kind = p.kind /\ q.hs = p.hs /\ q.ack = p.ack /\ q.mack = p.mack
    /\ \/ mq = mp
       \/ mp = "WAIT_ACK" /\ mq \in {"QUEUED_AGAIN"} \cup Done
       \/ p.id = 0 /\ p.kind \notin AppKinds

LEMMA LinedMoved ==
    ASSUME NEW r, NEW a, NEW o, NEW u, NEW n, RingLined(r, a, o, u, n),
           NEW q, q.head = r.head, NEW b, NEW o2, NEW v,
           q.pkt[Idle].id = 0, q.pkt[Idle].mack = 0,
           \A c \in Slots : Moved(r.pkt[c], Meant(r.pkt[c], c, a, o),
                                  q.pkt[c], Meant(q.pkt[c], c, b, o2)),
           \A c \in Slots :
               q.pkt[c].id # 0 /\ Meant(q.pkt[c], c, b, o2) \in Pending
                   => v[q.pkt[c].id].st \in Open
    PROVE RingLined(q, b, o2, v, n)
<1> DEFINE mr(c) == Meant(r.pkt[c], c, a, o)
           mq(c) == Meant(q.pkt[c], c, b, o2)
<1>1. ASSUME NEW c \in Slots
      PROVE /\ PktLined(q.pkt[c], mq(c), v, n)
            /\ q.pkt[c].id = r.pkt[c].id
            /\ q.pkt[c].id # 0 => /\ mq(c) # "QUEUED" => mr(c) # "QUEUED"
                                  /\ mq(c) \in Pending => mr(c) \in Pending
  <2>1. PktLined(r.pkt[c], mr(c), u, n) /\ Moved(r.pkt[c], mr(c), q.pkt[c], mq(c))
    BY DEF RingLined
  <2>2. q.pkt[c].id # 0 /\ mq(c) \in Pending => v[q.pkt[c].id].st \in Open
    OBVIOUS
  <2> HIDE DEF mr, mq
  <2>3. QED BY <2>1, <2>2 DEF PktLined, Moved, Pending, Done
<1>2. ASSUME NEW c \in Slots, NEW d \in Slots
      PROVE PairLined(q, c, d, mq(c), mq(d))
  <2>1. PairLined(r, c, d, mr(c), mr(d))
    BY DEF RingLined
  <2>2. /\ q.pkt[c].id = r.pkt[c].id /\ q.pkt[d].id = r.pkt[d].id
        /\ q.pkt[c].id # 0 => (mq(c) \in Pending => mr(c) \in Pending)
        /\ q.pkt[d].id # 0 => (mq(d) # "QUEUED" => mr(d) # "QUEUED")
    BY <1>1
  <2>3. Ahead(q, c, d) => Ahead(r, c, d)
    BY DEF Ahead
  <2> HIDE DEF mr, mq
  <2>4. QED BY <2>1, <2>2, <2>3 DEF PairLined
<1>3. QED BY <1>1, <1>2 DEF RingLined

\* A call of NBFi_Set_UL_Status for packet->id changes the status of the
\* message with that id and of no other.
Touches(u, v, x) == \A id \in Ids : id # x => v[id] = u[id]

LEMMA SetStatusTouches ==
    ASSUME MaxMsgs < IdMod, NEW u, NEW n, NEW x, NEW st
    PROVE /\ Touches(u, SetStatus(u, n, x, st), x)
          /\ x \in Ids => \/ SetStatus(u, n, x, st)[x] = u[x]
                          \/ SetStatus(u, n, x, st)[x] = [st |-> st, rep |-> FALSE]
<1>1. \A id \in Ids : id % IdMod = id
  BY SmallId
<1>2. QED BY <1>1 DEF Touches, SetStatus, Matching

LEMMA ToldTouched ==
    ASSUME NEW t, NEW u, NEW n, ToldLined(t, u, n), NEW v, NEW x, Touches(u, v, x),
           x \in Ids => x <= n /\ u[x].st \in Open, n \in Int
    PROVE ToldLined(t, v, n)
<1>1. ASSUME NEW id \in Ids
      PROVE /\ t[id] # <<>> => Len(t[id]) = 1 /\ v[id].rep /\ v[id].st \in Verdicts
            /\ id > n => v[id].st = "NOTEXIST"
  <2>1. CASE id # x
    BY <2>1 DEF ToldLined, Touches
  <2>2. CASE id = x
    <3>1. id <= n /\ u[id].st \notin Verdicts /\ id \in Int
      BY <2>2 DEF Open, Verdicts, Ids
    <3>2. QED BY <3>1 DEF ToldLined
  <2>3. QED BY <2>1, <2>2
<1>2. QED BY <1>1 DEF ToldLined

\* The status of one message changes; none of its packets waits any more, or
\* it stays open.
LEMMA LinedStatus ==
    ASSUME NEW r \in Ring, NEW a, NEW o, NEW u, NEW n, RingLined(r, a, o, u, n),
           NEW v, NEW x, Touches(u, v, x), n \in 0 .. MaxMsgs,
           \/ v[x].st \in Open
           \/ \A c \in Slots : r.pkt[c].id # 0 /\ r.pkt[c].id = x
                                 => Meant(r.pkt[c], c, a, o) \notin Pending
    PROVE RingLined(r, a, o, v, n)
<1>1. ASSUME NEW c \in Slots, r.pkt[c].id # 0, Meant(r.pkt[c], c, a, o) \in Pending
      PROVE v[r.pkt[c].id].st \in Open
  <2>1. u[r.pkt[c].id].st \in Open /\ r.pkt[c].id <= n
    BY <1>1 DEF RingLined, PktLined
  <2>2. r.pkt[c].id \in Ids
    BY <1>1, <2>1, RingPkt, CellFacts, StatAssumption DEF Packet, Ids
  <2>3. QED BY <1>1, <2>1, <2>2 DEF Touches
<1>2. r.pkt[Idle].id = 0 /\ r.pkt[Idle].mack = 0
  BY DEF RingLined
<1>3. \A c \in Slots : Moved(r.pkt[c], Meant(r.pkt[c], c, a, o),
                             r.pkt[c], Meant(r.pkt[c], c, a, o))
  BY DEF Moved
<1>4. QED BY <1>1, <1>2, <1>3, LinedMoved

-----------------------------------------------------------------------------
LEMMA OldestFacts ==
    ASSUME NEW h, NEW S, Oldest(h, S) # None
    PROVE /\ Oldest(h, S) \in S
          /\ \A c \in S : Age(h, Oldest(h, S)) <= Age(h, c)
<1>1. Oldest(h, S) \in {s \in S : \A c \in S : Age(h, s) <= Age(h, c)}
  BY AnyOfIn DEF Oldest
<1>2. QED BY <1>1

\* The packet the search picks is the oldest of those that wait.
LEMMA QueuedOldest ==
    ASSUME NEW r \in Ring, NEW a, NEW o, NEW u, NEW n, RingLined(r, Idle, o, u, n),
           r.pkt[a].st # "WAIT_ACK", Queued(r, a) # None
    PROVE /\ Queued(r, a) \in Slots
          /\ r.pkt[Queued(r, a)].st \in Pending
          /\ r.pkt[Queued(r, a)].id # 0 =>
                \A c \in Slots : r.pkt[c].id # 0 /\ r.pkt[c].st \in Pending
                    => r.pkt[Queued(r, a)].id <= r.pkt[c].id
<1> DEFINE s == Queued(r, a)
<1>1. /\ s \in Slots /\ s \in Urgent(r) \cup Again(r) \cup Fresh(r, a)
      /\ \/ s \notin Fresh(r, a) /\ r.pkt[s].st # "QUEUED"
         \/ /\ Urgent(r) = {} /\ Again(r) = {}
            /\ \A c \in Fresh(r, a) : Age(r.head, s) <= Age(r.head, c)
  <2>1. CASE Urgent(r) # {}
    <3>1. s = Oldest(r.head, Urgent(r))
      BY <2>1 DEF Queued
    <3>2. s \in Urgent(r)
      BY <3>1, OldestFacts
    <3> HIDE DEF s
    <3>3. QED BY <3>2 DEF Urgent, Fresh, InState
  <2>2. CASE Urgent(r) = {} /\ Again(r) # {}
    <3>1. s = Oldest(r.head, Again(r))
      BY <2>2 DEF Queued
    <3>2. s \in Again(r)
      BY <3>1, OldestFacts
    <3> HIDE DEF s
    <3>3. QED BY <3>2 DEF Again, Fresh, InState
  <2>3. CASE Urgent(r) = {} /\ Again(r) = {}
    <3>1. s = Oldest(r.head, Fresh(r, a))
      BY <2>3 DEF Queued
    <3>2. s \in Fresh(r, a) /\ \A c \in Fresh(r, a) : Age(r.head, s) <= Age(r.head, c)
      BY <3>1, OldestFacts
    <3> HIDE DEF s
    <3>3. QED BY <2>3, <3>2 DEF Fresh, InState
  <2>4. QED BY <2>1, <2>2, <2>3
<1> HIDE DEF s
<1>2. r.pkt[s].st \in Pending
  BY <1>1 DEF Urgent, Again, Fresh, InState, Pending
<1>3. \A c \in Slots : Meant(r.pkt[c], c, Idle, o) = r.pkt[c].st
  BY CellFacts DEF Meant
<1>4. ASSUME NEW c \in Slots, r.pkt[s].id # 0, r.pkt[c].id # 0, r.pkt[c].st \in Pending
      PROVE r.pkt[s].id <= r.pkt[c].id
  <2>1. PairLined(r, s, c, r.pkt[s].st, r.pkt[c].st) /\ PairLined(r, c, s, r.pkt[c].st, r.pkt[s].st)
    BY <1>1, <1>3 DEF RingLined
  <2>2. r.pkt[c].id \in Int /\ r.pkt[s].id \in Int
    BY <1>1, RingPkt, CellFacts DEF Packet
  <2>3. CASE r.pkt[s].st # "QUEUED"
    BY <1>4, <2>1, <2>3 DEF PairLined
  <2>4. CASE r.pkt[s].st = "QUEUED"
    <3>1. /\ Urgent(r) = {} /\ Again(r) = {}
          /\ \A d \in Fresh(r, a) : Age(r.head, s) <= Age(r.head, d)
      BY <1>1, <2>4
    <3>2. c \in Fresh(r, a)
      BY <1>4, <3>1 DEF Urgent, Again, Fresh, InState, Pending
    <3>3. Age(r.head, s) <= Age(r.head, c)
      BY <3>1, <3>2
    <3>4. r.head \in Slots
      BY DEF Ring
    <3>5. s = c \/ Age(r.head, s) < Age(r.head, c)
      BY <1>1, <3>3, <3>4, AgeFacts
    <3>6. QED BY <1>4, <2>1, <2>2, <3>5 DEF PairLined, Ahead
  <2>5. QED BY <2>3, <2>4
<1>5. QED BY <1>1, <1>2, <1>4 DEF s

LEMMA AfterAirShape ==
    ASSUME TypeOK, mode # "OFF", NEW p \in Packet
    PROVE \/ StateOnAir(p) = "SENT" /\ AfterAir(p) = FreePkt
          \/ /\ StateOnAir(p) # "SENT" /\ p.hs /\ Mode = "CRX"
             /\ AfterAir(p).st = IF p.ack THEN "WAIT_ACK" ELSE "SENT_NOACKED"
             /\ LET q == AfterAir(p)
                IN  /\ q.id = p.id /\ q.kind = p.kind /\ q.hs = p.hs /\ q.ack = p.ack
                    /\ q.iter = p.iter /\ q.mack = p.mack
<1>1. CASE StateOnAir(p) = "SENT"
  BY <1>1 DEF AfterAir
<1>2. CASE StateOnAir(p) # "SENT"
  <2>1. p.hs /\ Mode = "CRX"
    BY <1>2, ModeAssumption DEF StateOnAir, AckMode, TypeOK
  <2>2. StateOnAir(p) = IF p.ack THEN "WAIT_ACK" ELSE "SENT_NOACKED"
    BY <1>2 DEF StateOnAir
  <2>3. AfterAir(p) = [p EXCEPT !.st = StateOnAir(p), !.sent = Bump(@)]
    BY <1>2 DEF AfterAir
  <2>4. QED BY <1>2, <2>1, <2>2, <2>3 DEF Packet
<1>3. QED BY <1>1, <1>2

\* The oldest packet that waits is handed to the radio.
LEMMA LinedAir ==
    ASSUME TypeOK, mode # "OFF",
           NEW r \in Ring, NEW o, NEW u, NEW n, RingLined(r, Idle, o, u, n),
           NEW s \in Slots, r.pkt[s].st \in Pending,
           r.pkt[s].id # 0 =>
              \A c \in Slots : r.pkt[c].id # 0 /\ r.pkt[c].st \in Pending
                    => r.pkt[s].id <= r.pkt[c].id
    PROVE RingLined(SetPkt(r, s, AfterAir(r.pkt[s])), Idle, o, u, n)
<1> DEFINE p == r.pkt[s]
           x == AfterAir(p)
           q == SetPkt(r, s, x)
<1>1. p \in Packet
  BY RingPkt, CellFacts
<1>2. CASE StateOnAir(p) = "SENT"
  <2>1. x = FreePkt
    BY <1>2 DEF AfterAir
  <2>2. Still(p, x)
    BY <2>1 DEF Still, Own, FreePkt
  <2> HIDE DEF x
  <2>3. QED BY <2>2, SetPktStill, LinedStill DEF x
<1>3. CASE StateOnAir(p) # "SENT"
  <2>1. /\ p.hs /\ Mode = "CRX"
        /\ x.st = IF p.ack THEN "WAIT_ACK" ELSE "SENT_NOACKED"
        /\ x.id = p.id /\ x.kind = p.kind /\ x.hs = p.hs /\ x.ack = p.ack
        /\ x.mack = p.mack
    <3> HIDE DEF p
    <3> QED BY <1>1, <1>3, AfterAirShape
  <2>2. \A c \in Cells : q.pkt[c] = IF c = s THEN x ELSE r.pkt[c]
    <3> HIDE DEF x
    <3> QED BY CellFacts DEF SetPkt, Ring
  <2>3. q.head = r.head
    BY DEF SetPkt, Ring
  <2> HIDE DEF x, q
  <2>4. \A c \in Slots : /\ Meant(r.pkt[c], c, Idle, o) = r.pkt[c].st
                         /\ Meant(q.pkt[c], c, Idle, o) = q.pkt[c].st
    BY CellFacts DEF Meant
  <2>5. PktLined(p, p.st, u, n)
    BY <2>4 DEF RingLined
  <2>6. PktLined(x, x.st, u, n)
    <3>1. p.id # 0 => u[p.id].st \in Open /\ x.st = "WAIT_ACK"
      BY <2>1, <2>5 DEF PktLined
    <3>2. p.id = 0 => p.kind \notin AppKinds
      BY <2>5 DEF PktLined, Pending
    <3> HIDE DEF p
    <3>3. QED BY <2>1, <2>5, <3>1, <3>2 DEF PktLined, Pending
  <2>7. ASSUME NEW c \in Slots PROVE PktLined(q.pkt[c], q.pkt[c].st, u, n)
    <3>1. CASE c = s
      BY <2>2, <2>6, <3>1, CellFacts
    <3>2. CASE c # s
      <4>1. q.pkt[c] = r.pkt[c]
        BY <2>2, <3>2, CellFacts
      <4>2. QED BY <2>4, <4>1 DEF RingLined
    <3>3. QED BY <3>1, <3>2
  <2>8. ASSUME NEW c \in Slots, NEW d \in Slots
        PROVE PairLined(q, c, d, q.pkt[c].st, q.pkt[d].st)
    <3>1. PairLined(r, c, d, r.pkt[c].st, r.pkt[d].st)
      BY <2>4 DEF RingLined
    <3>2. /\ q.pkt[c].id = r.pkt[c].id /\ q.pkt[d].id = r.pkt[d].id
          /\ Ahead(q, c, d) <=> Ahead(r, c, d)
          /\ q.pkt[c].st \in Pending => r.pkt[c].st \in Pending
      BY <2>1, <2>2, <2>3, CellFacts DEF Ahead
    <3>3. CASE d # s
      <4>1. q.pkt[d].st = r.pkt[d].st
        BY <2>2, <3>3, CellFacts
      <4>2. QED BY <3>1, <3>2, <4>1 DEF PairLined
    <3>4. CASE d = s
      BY <3>1, <3>2, <3>4 DEF PairLined
    <3>5. QED BY <3>3, <3>4
  <2>9. q.pkt[Idle].id = 0 /\ q.pkt[Idle].mack = 0
    BY <2>2, CellFacts DEF RingLined
  <2>10. QED BY <2>4, <2>7, <2>8, <2>9 DEF RingLined, q, x
<1>4. QED BY <1>2, <1>3

\* Changing which packet is active changes nothing unless one of the two waits
\* for extra packets.
LEMMA LinedActive ==
    ASSUME NEW r, NEW a, NEW o, NEW u, NEW n, RingLined(r, a, o, u, n), NEW b,
           b = a \/ /\ b = Idle \/ r.pkt[b].st # "WAIT_FOR_EXTRA_PACKETS"
                    /\ a = Idle \/ r.pkt[a].st # "WAIT_FOR_EXTRA_PACKETS"
    PROVE RingLined(r, b, o, u, n)
BY MeantMoved DEF RingLined

\* The packet that goes on the air is the oldest one that waits, and belongs to
\* an open message or to none.
LEMMA SentPacket ==
    ASSUME LinedInv, SendNext
    PROVE LET r == Sweep(ring, active)
              s == Queued(ring, active)
              p == r.pkt[s]
          IN  /\ s \in Slots /\ mode # "OFF" /\ r \in Ring /\ StillRing(ring, r)
              /\ RingLined(r, Idle, oldState, ul, sentId)
              /\ p \in Packet /\ p.st \in Pending
              /\ p.id # 0 =>
                    /\ p.id \in Ids /\ p.id <= sentId /\ ul[p.id].st \in Open
                    /\ \A c \in Slots : r.pkt[c].id # 0 /\ r.pkt[c].st \in Pending
                          => p.id <= r.pkt[c].id
              /\ p.kind \in AppKinds => p.id # 0
<1> DEFINE r  == Sweep(ring, active)
           s  == Queued(ring, active)
           p  == r.pkt[s]
<1>1. /\ TypeOK /\ ring \in Ring /\ sentId \in 0 .. MaxMsgs
      /\ RingLined(ring, active, oldState, ul, sentId)
  BY DEF LinedInv, TypeOK
<1>2. /\ s \in Slots /\ mode # "OFF"
      /\ ring.pkt[active].st \notin {"WAIT_ACK", "WAIT_FOR_EXTRA_PACKETS"}
      /\ r \in Ring /\ StillRing(ring, r)
  BY <1>1, SendNextShape
<1>3. RingLined(ring, Idle, oldState, ul, sentId)
  BY <1>1, <1>2, LinedActive
<1>4. RingLined(r, Idle, oldState, ul, sentId)
  <2> HIDE DEF r
  <2> QED BY <1>1, <1>2, <1>3, LinedStill
<1>5. /\ r.pkt[s].st \in Pending
      /\ r.pkt[s].id # 0 =>
            \A c \in Slots : r.pkt[c].id # 0 /\ r.pkt[c].st \in Pending
                => r.pkt[s].id <= r.pkt[c].id
  <2>1. s # None
    BY <1>2, CellFacts
  <2>2. /\ ring.pkt[s].st \in Pending
        /\ ring.pkt[s].id # 0 =>
              \A c \in Slots : ring.pkt[c].id # 0 /\ ring.pkt[c].st \in Pending
                  => ring.pkt[s].id <= ring.pkt[c].id
    BY <1>1, <1>2, <1>3, <2>1, QueuedOldest
  <2>3. \A c \in Slots : r.pkt[c] = ring.pkt[c]
            \/ /\ r.pkt[c].id = ring.pkt[c].id /\ ring.pkt[c].st = "WAIT_ACK"
               /\ r.pkt[c].st = "QUEUED_AGAIN"
    BY <1>1, RingPkt, CellFacts DEF Sweep, Requeue, SetSt, Ring, Packet
  <2> HIDE DEF r, s
  <2>4. r.pkt[s].st \in Pending /\ r.pkt[s].id = ring.pkt[s].id
    BY <1>2, <2>2, <2>3 DEF Pending
  <2>5. \A c \in Slots : /\ r.pkt[c].id = ring.pkt[c].id
                         /\ r.pkt[c].st \in Pending => ring.pkt[c].st \in Pending
    BY <2>3 DEF Pending
  <2>6. QED BY <2>2, <2>4, <2>5
<1> HIDE DEF r, s
<1>6. p \in Packet
  BY <1>2, RingPkt, CellFacts
<1>7. PktLined(p, p.st, ul, sentId)
  BY <1>2, <1>4, CellFacts DEF RingLined, Meant
<1>8. p.id # 0 => p.id \in Ids /\ p.id <= sentId /\ ul[p.id].st \in Open
  <2>1. p.id # 0 => p.id <= sentId /\ ul[p.id].st \in Open
    BY <1>5, <1>7 DEF PktLined
  <2>2. p.id \in Nat /\ MaxMsgs \in Nat
    BY <1>6, StatAssumption DEF Packet
  <2> HIDE DEF p
  <2>3. QED BY <1>1, <2>1, <2>2 DEF Ids
<1>9. p.kind \in AppKinds => p.id # 0
  BY <1>5, <1>7 DEF PktLined, Pending
<1>10. QED BY <1>2, <1>4, <1>5, <1>6, <1>8, <1>9 DEF r, s

LEMMA SendNextLined ==
    ASSUME Singles, LinedInv, TypeOK', SendNext PROVE LinedInv'
<1> DEFINE r  == Sweep(ring, active)
           s  == Queued(ring, active)
           p  == r.pkt[s]
           r1 == SetPkt(r, s, AfterAir(p))
           u1 == SetStatus(ul, sentId, p.id, "INPROCESS")
           u2 == SetStatus(u1, sentId, p.id, "DELIVERED")
<1>1. /\ TypeOK /\ ring \in Ring /\ sentId \in 0 .. MaxMsgs
      /\ ToldLined(told, ul, sentId)
  BY DEF LinedInv, TypeOK
<1>2. /\ s \in Slots /\ mode # "OFF"
      /\ r \in Ring /\ StillRing(ring, r)
      /\ r1 \in Ring /\ StillRing(r1, ring')
      /\ UNCHANGED <<oldState, sentId, notAcked, told>>
  BY <1>1, SendNextShape
<1>3. /\ active' = IF StateOnAir(p) = "SENT" THEN Idle ELSE s
      /\ ul' = IF StateOnAir(p) = "SENT" THEN u2 ELSE u1
  BY <1>1, SendNextShape
<1>4. /\ RingLined(r, Idle, oldState, ul, sentId)
      /\ p \in Packet /\ p.st \in Pending
      /\ p.id # 0 =>
            /\ p.id \in Ids /\ p.id <= sentId /\ ul[p.id].st \in Open
            /\ \A c \in Slots : r.pkt[c].id # 0 /\ r.pkt[c].st \in Pending
                  => p.id <= r.pkt[c].id
  BY SentPacket
<1>7. RingLined(r1, Idle, oldState, ul, sentId)
  <2> HIDE DEF r, s
  <2> QED BY <1>1, <1>2, <1>4, LinedAir
<1> HIDE DEF r, s
<1>8. p \in Packet
  BY <1>4
<1>9. p.id \in Ids => p.id <= sentId /\ ul[p.id].st \in Open
  BY <1>4 DEF Ids
<1>10. \A c \in Cells : r1.pkt[c] = IF c = s THEN AfterAir(p) ELSE r.pkt[c]
  <2> HIDE DEF p
  <2> QED BY <1>2, CellFacts DEF SetPkt, Ring
<1>11. /\ Touches(ul, u1, p.id) /\ Touches(u1, u2, p.id)
       /\ p.id \in Ids => u1[p.id].st \in Open
  <2>1. MaxMsgs < IdMod
    BY DEF Singles
  <2>2. /\ Touches(ul, u1, p.id)
        /\ p.id \in Ids => u1[p.id] = ul[p.id] \/ u1[p.id] = [st |-> "INPROCESS", rep |-> FALSE]
    <3> HIDE DEF p
    <3> QED BY <2>1, SetStatusTouches
  <2>3. Touches(u1, u2, p.id)
    <3> HIDE DEF p, u1
    <3> QED BY <2>1, SetStatusTouches
  <2> HIDE DEF p, u1, u2
  <2>4. QED BY <1>9, <2>2, <2>3 DEF Open
<1>12. ToldLined(told, ul', sentId)
  <2>0. sentId \in Int
    BY <1>1
  <2> HIDE DEF p, u1, u2
  <2>1. ToldLined(told, u1, sentId)
    BY <1>1, <1>9, <1>11, <2>0, ToldTouched
  <2>2. ToldLined(told, u2, sentId)
    BY <1>9, <1>11, <2>0, <2>1, ToldTouched
  <2>3. QED BY <1>3, <2>1, <2>2
<1>13. RingLined(r1, Idle, oldState, u1, sentId)
  <2>1. CASE p.id \in Ids
    <3> HIDE DEF p, u1, r1
    <3> QED BY <1>1, <1>2, <1>7, <1>11, <2>1, LinedStatus
  <2>2. CASE p.id \notin Ids
    <3>1. \A c \in Slots : r1.pkt[c].id # 0 /\ r1.pkt[c].id = p.id
                             => Meant(r1.pkt[c], c, Idle, oldState) \notin Pending
      <4>1. \A c \in Slots : r1.pkt[c].id # 0 => r1.pkt[c].id \in Ids
        <5> HIDE DEF r1
        <5>1. ASSUME NEW c \in Slots, r1.pkt[c].id # 0 PROVE r1.pkt[c].id \in Ids
          <6>1. r1.pkt[c].id <= sentId
            BY <1>7, <5>1 DEF RingLined, PktLined
          <6>2. r1.pkt[c] \in Packet
            BY <1>2, RingPkt, CellFacts
          <6>3. MaxMsgs \in Nat /\ sentId \in 0 .. MaxMsgs /\ r1.pkt[c].id \in Nat
            BY <1>1, <6>2, StatAssumption DEF Packet
          <6>4. QED BY <5>1, <6>1, <6>3 DEF Ids
        <5>2. QED BY <5>1
      <4> HIDE DEF r1, p
      <4>2. QED BY <2>2, <4>1
    <3> HIDE DEF p, u1, r1
    <3>2. QED BY <1>1, <1>2, <1>7, <1>11, <3>1, LinedStatus
  <2>3. QED BY <2>1, <2>2
<1>14. CASE StateOnAir(p) = "SENT"
  <2>1. AfterAir(p) = FreePkt
    BY <1>14 DEF AfterAir
  <2>2. \A c \in Slots : r1.pkt[c].id # 0 /\ r1.pkt[c].id = p.id
                           => Meant(r1.pkt[c], c, Idle, oldState) \notin Pending
    <3>1. ASSUME NEW c \in Slots, r1.pkt[c].id # 0, r1.pkt[c].id = p.id PROVE FALSE
      <4>1. c # s
        BY <1>2, <1>10, <2>1, <3>1, CellFacts DEF FreePkt
      <4>2. r.pkt[c].id # 0 /\ r.pkt[c].id = r.pkt[s].id
        BY <1>10, <3>1, <4>1, CellFacts
      <4>3. QED BY <1>2, <1>4, <4>1, <4>2, LinedUnique
    <3>2. QED BY <3>1
  <2>3. RingLined(r1, Idle, oldState, u2, sentId)
    <3> HIDE DEF p, u1, u2, r1
    <3> QED BY <1>1, <1>2, <1>11, <1>13, <2>2, LinedStatus
  <2> HIDE DEF u1, u2, r1, p
  <2>4. RingLined(ring', active', oldState', ul', sentId')
    BY <1>2, <1>3, <1>14, <2>3, LinedStill
  <2>5. QED BY <1>2, <1>12, <2>4 DEF LinedInv
<1>15. CASE StateOnAir(p) # "SENT"
  <2>1. AfterAir(p).st # "WAIT_FOR_EXTRA_PACKETS"
    <3> HIDE DEF p
    <3> QED BY <1>1, <1>2, <1>8, <1>15, AfterAirShape
  <2>2. r1.pkt[s].st # "WAIT_FOR_EXTRA_PACKETS"
    BY <1>2, <1>10, <2>1, CellFacts
  <2> HIDE DEF u1, u2, r1, p
  <2>3. RingLined(r1, s, oldState, u1, sentId)
    BY <1>13, <2>2, LinedActive
  <2>4. RingLined(ring', active', oldState', ul', sentId')
    BY <1>2, <1>3, <1>15, <2>3, LinedStill
  <2>5. QED BY <1>2, <1>12, <2>4 DEF LinedInv
<1>16. QED BY <1>14, <1>15

-----------------------------------------------------------------------------
\* Giving the active packet its state back leaves the packets in line.
LEMMA LinedRestored ==
    ASSUME LinedInv
    PROVE /\ Restored(ring) \in Ring
          /\ RingLined(Restored(ring), active, oldState, ul, sentId)
<1> DEFINE r == Restored(ring)
<1>1. TypeOK /\ RingLined(ring, active, oldState, ul, sentId)
  BY DEF LinedInv
<1>2. /\ r.head = ring.head
      /\ \A c \in Cells :
            /\ Alike(ring.pkt[c], r.pkt[c])
            /\ Meant(r.pkt[c], c, active, oldState)
                 = Meant(ring.pkt[c], c, active, oldState)
  BY <1>1, RestoredAlike
<1>3. r \in Ring
  BY <1>1, RestoredType DEF TypeOK
<1> HIDE DEF r
<1>4. \A c \in Slots : Moved(ring.pkt[c], Meant(ring.pkt[c], c, active, oldState),
                             r.pkt[c], Meant(r.pkt[c], c, active, oldState))
  BY <1>2, CellFacts DEF Moved, Alike
<1>5. r.pkt[Idle].id = 0 /\ r.pkt[Idle].mack = 0
  BY <1>1, <1>2, CellFacts DEF RingLined, Alike
<1>6. \A c \in Slots :
          r.pkt[c].id # 0 /\ Meant(r.pkt[c], c, active, oldState) \in Pending
              => ul[r.pkt[c].id].st \in Open
  BY <1>1, <1>2, CellFacts DEF RingLined, PktLined, Alike
<1>7. RingLined(r, active, oldState, ul, sentId)
  BY <1>1, <1>2, <1>4, <1>5, <1>6, LinedMoved
<1>8. QED BY <1>3, <1>7 DEF r

\* A step that leaves all but the ring alone.
LEMMA LinedQuiet ==
    ASSUME LinedInv, TypeOK', NEW r, r = ring \/ r = Restored(ring), StillRing(r, ring'),
           UNCHANGED <<active, oldState, ul, sentId, notAcked, told>>
    PROVE LinedInv'
<1>1. r \in Ring /\ RingLined(r, active, oldState, ul, sentId)
  BY LinedRestored DEF LinedInv, TypeOK
<1>2. RingLined(ring', active, oldState, ul, sentId)
  BY <1>1, LinedStill
<1>3. QED BY <1>2 DEF LinedInv

LEMMA Send5Lined ==
    ASSUME Singles, LinedInv, TypeOK', NEW len \in Lengths, NEW flags \in FlagSets,
           Send5(len, flags)
    PROVE LinedInv'
<1> DEFINE r     == CountSweep(ring, active)
           id    == sentId + 1
           n     == Fragments(len)
           k     == Allocatable(r, n)
           first == IF "SAME_TX_ITER" \in flags /\ k > 0 THEN lastIter ELSE ulIter
           room  == IF len <= MaxPayload THEN FreeSlots(ring, active, transmit) >= Mack + 3
                    ELSE FreeSlots(ring, active, transmit) >= len \div MaxPayload + 3
           hs    == Asks(flags) /\ AckMode(mode)
           asked == n > 1 \/ AckTurn(first)
           frag(c) == Fragment(id, len, flags, first, Age(r.head, c), n, notAcked, mode)
<1>1. /\ TypeOK /\ active \in Cells /\ ring \in Ring /\ StillRing(ring, r) /\ r \in Ring
      /\ RingLined(ring, active, oldState, ul, sentId) /\ ToldLined(told, ul, sentId)
      /\ notAcked = 0
      /\ UNCHANGED <<active, oldState, told>>
  BY CountSweepStill, CountSweepType DEF TypeOK, Send5, LinedInv
<1>2. CASE ~room
  <2>1. ring' = r /\ UNCHANGED <<ul, sentId, notAcked>>
    BY <1>2 DEF Send5
  <2> HIDE DEF r
  <2>2. QED BY <1>1, <2>1, LinedQuiet
<1>3. CASE room
  <2>0. sentId < MaxMsgs
    BY DEF Send5
  <2>1. /\ ul' = [ul EXCEPT ![id] = [st |-> "QUEUED", rep |-> FALSE]]
        /\ sentId' = id
    BY <1>3 DEF Send5
  <2>2. ring' = [pkt |-> [c \in Cells |-> IF c \in Slots /\ Age(r.head, c) < k
                                          THEN frag(c) ELSE r.pkt[c]],
                 head |-> (r.head + k) % TxSize]
    BY <1>3 DEF Send5
  <2>3. notAcked' = IF k < n \/ ~hs THEN notAcked
                    ELSE IF asked THEN 0 ELSE notAcked + 1
    BY <1>3 DEF Send5
  <2>4. n = 1
    BY DEF Singles, Fragments
  <2>5. k \in {0, 1}
    <3> DEFINE blocked(j) == Blocked(r.pkt[(r.head + j) % TxSize])
               stop == AnyOf({i \in 0 .. n - 1 :
                               blocked(i) /\ \A j \in 0 .. i - 1 : ~blocked(j)})
    <3>1. stop = None \/ stop \in 0 .. n - 1
      <4> HIDE DEF blocked
      <4> QED BY AnyOfIn
    <3>2. k = IF stop = None THEN n ELSE stop
      BY DEF Allocatable
    <3> HIDE DEF stop, k, n
    <3>3. QED BY <2>4, <3>1, <3>2
  <2>6. first \in Int
    BY <1>1 DEF TypeOK, Iters
  <2>7. AckTurn(first)
    <3> HIDE DEF first
    <3> QED BY <2>6 DEF Singles, AckTurn
  <2>8. notAcked' = 0
    <3> HIDE DEF first, k, n, hs
    <3> QED BY <1>1, <2>3, <2>7
  <2>9. /\ sentId \in 0 .. MaxMsgs /\ id \in Ids /\ id % IdMod = id /\ id # 0
        /\ MaxMsgs \in Nat
    BY <1>1, <2>0, SmallId, StatAssumption DEF TypeOK, Ids, Singles
  <2>10. RingLined(r, active, oldState, ul, sentId)
    <3> HIDE DEF r
    <3> QED BY <1>1, LinedStill
  <2>11. ASSUME NEW c \in Slots, r.pkt[c].id # 0
         PROVE r.pkt[c].id <= sentId /\ r.pkt[c].id \in Ids /\ r.pkt[c].id # id
    <3>1. r.pkt[c] \in Packet
      BY <1>1, RingPkt, CellFacts
    <3> HIDE DEF r, id
    <3>2. r.pkt[c].id <= sentId /\ r.pkt[c].id \in Nat
      BY <2>10, <2>11, <3>1 DEF RingLined, PktLined, Packet
    <3>3. QED BY <2>9, <2>11, <3>2 DEF id, Ids
  <2>12. ToldLined(told, ul', sentId')
    <3>1. told[id] = <<>>
      <4>1. id > sentId
        BY <2>9
      <4>2. ul[id].st = "NOTEXIST"
        BY <1>1, <2>9, <4>1 DEF ToldLined
      <4>3. QED BY <1>1, <2>9, <4>2 DEF ToldLined, Verdicts
    <3>2. \A i \in Ids : i # id => ul'[i] = ul[i]
      BY <1>1, <2>1 DEF TypeOK
    <3>3. ASSUME NEW i \in Ids
          PROVE /\ told[i] # <<>> => Len(told[i]) = 1 /\ ul'[i].rep /\ ul'[i].st \in Verdicts
                /\ i > id => ul'[i].st = "NOTEXIST"
      <4>1. CASE i = id
        BY <2>9, <3>1, <4>1
      <4>2. CASE i # id
        <5>1. i > id => i > sentId
          BY <2>9 DEF Ids
        <5> HIDE DEF id
        <5>2. QED BY <1>1, <3>2, <4>2, <5>1 DEF ToldLined
      <4>3. QED BY <4>1, <4>2
    <3>4. QED BY <2>1, <3>3 DEF ToldLined
  <2>13. RingLined(r, active, oldState, ul', id)
    <3>1. \A c \in Slots : r.pkt[c].id # 0 => ul'[r.pkt[c].id] = ul[r.pkt[c].id]
      BY <1>1, <2>1, <2>11 DEF TypeOK
    <3>2. \A c \in Slots : r.pkt[c].id # 0 => r.pkt[c].id <= id
      <4>1. ASSUME NEW c \in Slots, r.pkt[c].id # 0 PROVE r.pkt[c].id <= id
        <5>1. r.pkt[c].id <= sentId /\ r.pkt[c].id \in Ids
          BY <2>11, <4>1
        <5> HIDE DEF r
        <5>2. QED BY <2>9, <5>1 DEF Ids
      <4>2. QED BY <4>1
    <3> HIDE DEF r, id
    <3>3. QED BY <2>10, <3>1, <3>2 DEF RingLined, PktLined
  <2>14. RingLined(ring', active, oldState, ul', id)
    <3>1. CASE k = 0
      <4>1. \A c \in Slots : ~(Age(r.head, c) < 0)
        <5> HIDE DEF r
        <5>1. r.head \in Slots
          BY <1>1 DEF Ring
        <5>2. QED BY <5>1, AgeFacts
      <4>2. \A c \in Cells : ring'.pkt[c] = r.pkt[c]
        <5> HIDE DEF r, frag
        <5> QED BY <2>2, <3>1, <4>1
      <4>3. ring'.head = r.head
        <5>1. r.head \in Slots
          BY <1>1 DEF Ring
        <5>2. ring'.head = (r.head + 0) % TxSize
          BY <2>2, <3>1
        <5> HIDE DEF r
        <5>3. QED BY <5>1, <5>2 DEF Slots
      <4> HIDE DEF r, id
      <4>4. QED BY <2>13, <4>2, <4>3, CellFacts DEF RingLined, PairLined, Ahead
    <3>2. CASE k = 1
      <4> DEFINE h == r.head
                 x == frag(h)
      <4>1. h \in Slots /\ h \in Cells
        BY <1>1, CellFacts DEF Ring
      <4>2. Age(h, h) = 0 /\ \A c \in Slots : Age(h, c) < 1 <=> c = h
        <5> HIDE DEF h
        <5>1. Age(h, h) = 0
          BY <4>1 DEF Age, Slots
        <5>2. \A c \in Slots : Age(h, c) \in 0 .. TxSize - 1
                               /\ (Age(h, c) = Age(h, h) => c = h)
          BY <4>1, AgeFacts
        <5>3. QED BY <5>1, <5>2
      <4>3. \A c \in Cells : ring'.pkt[c] = IF c = h THEN x ELSE r.pkt[c]
        <5> HIDE DEF frag
        <5> QED BY <2>2, <3>2, <4>1, <4>2, CellFacts
      <4>4. ring'.head = (h + 1) % TxSize
        BY <2>2, <3>2
      <4>5. /\ x.st = "QUEUED" /\ x.id = id /\ x.hs = Asks(flags)
            /\ x.ack = (Asks(flags) /\ AckMode(mode))
            /\ x.mack = (IF x.ack THEN 1 ELSE 0)
            /\ x.kind \in AppKinds
        <5>1. /\ x.st = "QUEUED" /\ x.id = id % IdMod /\ x.hs = Asks(flags)
              /\ x.ack = (/\ Asks(flags) /\ AckMode(mode) /\ Age(h, h) = n - 1
                          /\ (n > 1 \/ AckTurn(first)))
              /\ x.mack = (IF x.ack THEN notAcked + n ELSE 0)
              /\ x.kind = (IF len < MaxPayload THEN "SHORT"
                           ELSE IF n > 1 /\ Age(h, h) = 0 THEN "START" ELSE "DATA")
          BY Zenon DEF Fragment
        <5> HIDE DEF x, h, n, first, id
        <5>2. Age(h, h) = n - 1 /\ notAcked + n = 1
          BY <1>1, <2>4, <4>2
        <5>3. x.ack = (Asks(flags) /\ AckMode(mode))
          BY <2>7, <5>1, <5>2, Zenon
        <5>4. x.mack = (IF x.ack THEN 1 ELSE 0)
          BY <5>1, <5>2, Zenon
        <5>5. x.id = id /\ x.kind \in AppKinds
          BY <2>9, <5>1 DEF AppKinds
        <5>6. QED BY <5>1, <5>3, <5>4, <5>5
      <4> HIDE DEF x
      <4>6. PktLined(x, "QUEUED", ul', id)
        <5>1. Mode = "CRX" => AckMode(mode)
          <6>1. mode # "NRX" \/ Mode = "NRX"
            BY <1>1 DEF TypeOK
          <6>2. QED BY <6>1 DEF AckMode
        <5>2. ul'[id].st = "QUEUED"
          BY <1>1, <2>1, <2>9 DEF TypeOK
        <5>3. x.hs /\ Mode = "CRX" => x.ack
          BY <4>5, <5>1, Zenon
        <5> HIDE DEF id
        <5>4. id <= id
          BY <2>9 DEF Ids
        <5>5. QED BY <2>9, <4>5, <5>2, <5>3, <5>4 DEF PktLined, Pending, Open
      <4> DEFINE mq(c) == Meant(ring'.pkt[c], c, active, oldState)
                 mr(c) == Meant(r.pkt[c], c, active, oldState)
      <4>7. \A c \in Slots : /\ c = h => ring'.pkt[c] = x /\ mq(c) = "QUEUED"
                             /\ c # h => ring'.pkt[c] = r.pkt[c] /\ mq(c) = mr(c)
        BY <4>3, <4>5, CellFacts DEF Meant
      <4> HIDE DEF mq, mr
      <4>8. ASSUME NEW c \in Slots PROVE PktLined(ring'.pkt[c], mq(c), ul', id)
        <5>1. PktLined(r.pkt[c], mr(c), ul', id)
          BY <2>13 DEF RingLined, mr
        <5>2. QED BY <4>6, <4>7, <5>1
      <4>9. ASSUME NEW c \in Slots, NEW d \in Slots
            PROVE PairLined(ring', c, d, mq(c), mq(d))
        <5>1. PairLined(r, c, d, mr(c), mr(d))
          BY <2>13 DEF RingLined, mr
        <5>2. CASE d = h
          <6>1. mq(d) = "QUEUED" /\ ring'.pkt[d].id = id
            BY <4>5, <4>7, <5>2
          <6>2. CASE c = h
            <7>1. ~Ahead(ring', c, d)
              <8>1. ring'.head \in Slots
                BY <4>1, <4>4, CellFacts
              <8>2. Age(ring'.head, c) \in Int
                BY <8>1, AgeFacts
              <8>3. QED BY <5>2, <6>2, <8>2 DEF Ahead
            <7>2. QED BY <6>1, <7>1 DEF PairLined
          <6>3. CASE c # h
            <7>1. ring'.pkt[c].id # 0 => ring'.pkt[c].id < id
              <8>1. ring'.pkt[c] = r.pkt[c]
                BY <4>7, <6>3
              <8>2. r.pkt[c].id # 0 => r.pkt[c].id <= sentId /\ r.pkt[c].id \in Ids
                BY <2>11
              <8> HIDE DEF r
              <8>3. QED BY <2>9, <8>1, <8>2 DEF Ids
            <7> HIDE DEF id
            <7>2. QED BY <6>1, <7>1 DEF PairLined
          <6>4. QED BY <6>2, <6>3
        <5>3. CASE d # h /\ c = h
          <6>1. ring'.pkt[c].id = id
            BY <4>5, <4>7, <5>3
          <6>2. ring'.pkt[d].id # 0 => ring'.pkt[d].id <= id
            <7>1. ring'.pkt[d] = r.pkt[d]
              BY <4>7, <5>3
            <7>2. r.pkt[d].id # 0 => r.pkt[d].id <= sentId /\ r.pkt[d].id \in Ids
              BY <2>11
            <7> HIDE DEF r
            <7>3. QED BY <2>9, <7>1, <7>2 DEF Ids
          <6>3. ~Ahead(ring', c, d)
            <7>1. /\ Age(ring'.head, c) = TxSize - 1
                  /\ Age(ring'.head, d) \in 0 .. TxSize - 1
              <8>1. ring'.head \in Slots
                BY <4>1, <4>4, CellFacts
              <8>2. QED BY <4>1, <4>4, <5>3, <8>1, AgeNext, AgeFacts
            <7>2. QED BY <7>1 DEF Ahead
          <6> HIDE DEF id
          <6>4. QED BY <6>1, <6>2, <6>3 DEF PairLined
        <5>4. CASE d # h /\ c # h
          <6>1. /\ ring'.pkt[c] = r.pkt[c] /\ mq(c) = mr(c)
                /\ ring'.pkt[d] = r.pkt[d] /\ mq(d) = mr(d)
            BY <4>7, <5>4
          <6>2. Ahead(ring', c, d) => Ahead(r, c, d)
            <7>1. /\ Age(ring'.head, c) = Age(r.head, c) - 1
                  /\ Age(ring'.head, d) = Age(r.head, d) - 1
              BY <4>1, <4>4, <5>4, AgeNext
            <7>2. Age(r.head, c) \in Int /\ Age(r.head, d) \in Int
              BY <4>1, AgeFacts
            <7>3. QED BY <7>1, <7>2 DEF Ahead
          <6> HIDE DEF r
          <6>3. QED BY <5>1, <6>1, <6>2 DEF PairLined
        <5>5. QED BY <5>2, <5>3, <5>4
      <4>10. ring'.pkt[Idle].id = 0 /\ ring'.pkt[Idle].mack = 0
        BY <2>13, <4>1, <4>3, CellFacts DEF RingLined
      <4> HIDE DEF r, id
      <4>11. QED BY <4>8, <4>9, <4>10 DEF RingLined, mq
    <3> HIDE DEF k
    <3>3. QED BY <2>5, <3>1, <3>2
  <2> HIDE DEF id
  <2>15. QED BY <1>1, <2>1, <2>8, <2>12, <2>14 DEF LinedInv
<1>4. QED BY <1>2, <1>3

-----------------------------------------------------------------------------
\* The packet that waits for its ACK gets its verdict.
LEMMA LinedVerdict ==
    ASSUME NEW r \in Ring, NEW a \in Cells, NEW o, NEW u, NEW n,
           RingLined(r, a, o, u, n), n \in 0 .. MaxMsgs, r.pkt[a].st = "WAIT_ACK",
           NEW q, q.head = r.head, q.pkt[a].st \in Done,
           \A c \in Cells :
              /\ q.pkt[c].id = r.pkt[c].id /\ q.pkt[c].kind = r.pkt[c].kind
              /\ q.pkt[c].hs = r.pkt[c].hs /\ q.pkt[c].ack = r.pkt[c].ack
              /\ q.pkt[c].mack = r.pkt[c].mack
              /\ c # a => \/ q.pkt[c].st = r.pkt[c].st
                          \/ r.pkt[c].st = "SENT_NOACKED" /\ q.pkt[c].st = "LOST",
           NEW v, Touches(u, v, r.pkt[a].id)
    PROVE RingLined(q, a, o, v, n)
<1>1. q.pkt[Idle].id = 0 /\ q.pkt[Idle].mack = 0
  BY CellFacts DEF RingLined
<1>2. ASSUME NEW c \in Slots
      PROVE Moved(r.pkt[c], Meant(r.pkt[c], c, a, o), q.pkt[c], Meant(q.pkt[c], c, a, o))
  <2>1. CASE c = a
    BY <2>1, CellFacts DEF Moved, Meant, Done
  <2>2. CASE c # a
    <3>1. /\ Meant(r.pkt[c], c, a, o) = r.pkt[c].st
          /\ Meant(q.pkt[c], c, a, o) = q.pkt[c].st
      BY <2>2 DEF Meant
    <3>2. r.pkt[c].st = "SENT_NOACKED" => r.pkt[c].id = 0 /\ r.pkt[c].kind \notin AppKinds
      BY <3>1 DEF RingLined, PktLined, Pending, Done
    <3>3. QED BY <2>2, <3>1, <3>2, CellFacts DEF Moved
  <2>3. QED BY <2>1, <2>2
<1>3. ASSUME NEW c \in Slots, q.pkt[c].id # 0, Meant(q.pkt[c], c, a, o) \in Pending
      PROVE v[q.pkt[c].id].st \in Open
  <2>1. c # a
    BY <1>3 DEF Meant, Pending, Done
  <2>2. r.pkt[c].id # 0 /\ Meant(r.pkt[c], c, a, o) \in Pending
    BY <1>3, <2>1, CellFacts DEF Meant, Pending
  <2>3. r.pkt[c].id # r.pkt[a].id
    <3>1. CASE a = Idle
      BY <2>2, <3>1 DEF RingLined
    <3>2. CASE a # Idle
      BY <2>1, <2>2, <3>2, CellFacts, LinedUnique
    <3>3. QED BY <3>1, <3>2
  <2>4. u[r.pkt[c].id].st \in Open /\ r.pkt[c].id <= n
    BY <2>2 DEF RingLined, PktLined
  <2>5. r.pkt[c].id \in Ids
    BY <2>2, <2>4, RingPkt, CellFacts, StatAssumption DEF Packet, Ids
  <2>6. v[r.pkt[c].id] = u[r.pkt[c].id]
    BY <2>3, <2>5 DEF Touches
  <2>7. q.pkt[c].id = r.pkt[c].id
    BY CellFacts
  <2>8. QED BY <2>4, <2>6, <2>7
<1>4. QED BY <1>1, <1>2, <1>3, LinedMoved

\* The packet that waits for its ACK belongs to an open message, or to none.
LEMMA WaitsOpen ==
    ASSUME NEW r \in Ring, NEW a \in Cells, NEW o, NEW u, NEW n,
           RingLined(r, a, o, u, n), n \in 0 .. MaxMsgs, r.pkt[a].st = "WAIT_ACK"
    PROVE /\ r.pkt[a].id # 0 =>
                /\ a \in Slots /\ r.pkt[a].id \in Ids /\ r.pkt[a].id <= n
                /\ u[r.pkt[a].id].st \in Open
                /\ r.pkt[a].kind \in AppKinds /\ r.pkt[a].mack = 1
          /\ r.pkt[a].id = 0 =>
                /\ r.pkt[a].mack = 0
                /\ a \in Slots => r.pkt[a].kind \notin AppKinds
<1>1. CASE a = Idle
  BY <1>1, CellFacts DEF RingLined
<1>2. CASE a # Idle
  <2>1. a \in Slots /\ PktLined(r.pkt[a], "WAIT_ACK", u, n)
    BY <1>2, CellFacts DEF RingLined, Meant
  <2>2. r.pkt[a].id \in Nat
    BY RingPkt DEF Packet
  <2>3. r.pkt[a].id # 0 => r.pkt[a].id \in Ids
    BY <2>1, <2>2, StatAssumption DEF PktLined, Ids
  <2>4. r.pkt[a].id # 0 => r.pkt[a].mack = 1 /\ u[r.pkt[a].id].st \in Open
    BY <2>1 DEF PktLined, Pending
  <2>5. r.pkt[a].id = 0 => r.pkt[a].mack = 0 /\ r.pkt[a].kind \notin AppKinds
    BY <2>1 DEF PktLined
  <2>6. r.pkt[a].id # 0 => r.pkt[a].id <= n /\ r.pkt[a].kind \in AppKinds
    BY <2>1 DEF PktLined
  <2>7. QED BY <2>1, <2>3, <2>4, <2>5, <2>6
<1>3. QED BY <1>1, <1>2

LEMMA ReceiveTimeoutLined ==
    ASSUME Singles, LinedInv, TypeOK', ReceiveTimeout PROVE LinedInv'
<1> DEFINE p  == ring.pkt[active]
           p1 == [p EXCEPT !.retry = p.retry + 1]
           R  == [ring EXCEPT !.pkt[active].retry = @ + 1]
<1>0. UNCHANGED <<active, oldState, sentId, notAcked, told>>
  BY DEF ReceiveTimeout, histVars
<1>1. /\ TypeOK /\ active \in Cells /\ ring \in Ring /\ sentId \in 0 .. MaxMsgs
      /\ RingLined(ring, active, oldState, ul, sentId) /\ ToldLined(told, ul, sentId)
  BY DEF LinedInv, TypeOK
<1>2. p \in Packet /\ p.retry \in Nat /\ p.retry + 1 \in Nat
  BY <1>1, RingPkt DEF Packet
<1>3. CASE p.st # "WAIT_ACK"
  BY <1>0, <1>1, <1>3, StillRefl, LinedQuiet DEF ReceiveTimeout
<1>4. ASSUME p.st = "WAIT_ACK", TimeoutRetry PROVE LinedInv'
  <2> DEFINE p2 == [p1 EXCEPT !.st = "QUEUED_AGAIN"]
  <2>0. ul' = ul
    BY <1>4 DEF TimeoutRetry
  <2>1. ring' = SetPkt(ring, active, p2)
    BY <1>1, <1>2, <1>4 DEF TimeoutRetry, SetPkt, Ring, Packet
  <2>2. /\ p2.id = p.id /\ p2.st = "QUEUED_AGAIN" /\ p2.kind = p.kind
        /\ p2.hs = p.hs /\ p2.ack = p.ack /\ p2.mack = p.mack
    BY <1>2 DEF Packet
  <2>3. /\ ring'.head = ring.head
        /\ \A c \in Cells : ring'.pkt[c] = IF c = active THEN p2 ELSE ring.pkt[c]
    <3> HIDE DEF p2
    <3> QED BY <1>1, <2>1 DEF SetPkt, Ring
  <2> HIDE DEF p2
  <2>4. \A c \in Slots : Moved(ring.pkt[c], Meant(ring.pkt[c], c, active, oldState),
                               ring'.pkt[c], Meant(ring'.pkt[c], c, active, oldState))
    BY <1>4, <2>2, <2>3, CellFacts DEF Moved, Meant
  <2>5. ring'.pkt[Idle].id = 0 /\ ring'.pkt[Idle].mack = 0
    BY <1>1, <2>2, <2>3, CellFacts DEF RingLined
  <2>6. ASSUME NEW c \in Slots, ring'.pkt[c].id # 0,
               Meant(ring'.pkt[c], c, active, oldState) \in Pending
        PROVE ul[ring'.pkt[c].id].st \in Open
    <3>1. /\ ring'.pkt[c].id = ring.pkt[c].id
          /\ Meant(ring.pkt[c], c, active, oldState) \in Pending
      BY <1>4, <2>2, <2>3, <2>6, CellFacts DEF Meant, Pending
    <3>2. QED BY <1>1, <2>6, <3>1 DEF RingLined, PktLined
  <2>7. RingLined(ring', active, oldState, ul, sentId)
    BY <1>1, <2>3, <2>4, <2>5, <2>6, LinedMoved
  <2>8. QED BY <1>0, <2>0, <2>7 DEF LinedInv
<1>5. ASSUME p.st = "WAIT_ACK", NEW policy \in LossPolicies, TimeoutLost(policy)
      PROVE LinedInv'
  <2> DEFINE r1 == CloseActive(R, active)
  <2>1. /\ ul' = SetStatus(ul, sentId, p.id, "LOST")
        /\ ring' = AfterLoss(r1, policy)
    BY <1>5 DEF TimeoutLost, Singles
  <2>2. R = SetPkt(ring, active, p1) /\ R \in Ring
    <3>1. p1 \in Packet
      BY <1>2, PktRetryType
    <3>2. R = SetPkt(ring, active, p1)
      BY <1>1 DEF SetPkt, Ring
    <3> HIDE DEF R, p1
    <3>3. QED BY <1>1, <3>1, <3>2, SetPktType
  <2>3. /\ r1 \in Ring /\ r1.head = ring.head
        /\ \A c \in Cells :
              /\ r1.pkt[c].id = ring.pkt[c].id /\ r1.pkt[c].kind = ring.pkt[c].kind
              /\ r1.pkt[c].hs = ring.pkt[c].hs /\ r1.pkt[c].ack = ring.pkt[c].ack
              /\ r1.pkt[c].mack = ring.pkt[c].mack
              /\ c # active => \/ r1.pkt[c].st = ring.pkt[c].st
                               \/ /\ ring.pkt[c].st = "SENT_NOACKED"
                                  /\ r1.pkt[c].st = "LOST"
              /\ c = active => r1.pkt[c].st = "LOST"
    <3>1. /\ p1.id = p.id /\ p1.kind = p.kind /\ p1.hs = p.hs /\ p1.ack = p.ack
          /\ p1.mack = p.mack
      BY <1>2 DEF Packet
    <3>2. R.head = ring.head /\ \A c \in Cells : R.pkt[c] = IF c = active THEN p1 ELSE ring.pkt[c]
      <4> HIDE DEF p1
      <4> QED BY <1>1, <2>2 DEF SetPkt, Ring
    <3> HIDE DEF R, p1
    <3>3. r1 \in Ring /\ r1.head = R.head
      <4>1. r1 \in Ring
        BY <2>2, CloseActiveType
      <4>2. r1.head = R.head
        BY <2>2 DEF CloseActive, Ring
      <4>3. QED BY <4>1, <4>2
    <3>4. \A c \in Cells :
            r1.pkt[c] = IF c = active \/ (c \in Slots /\ R.pkt[c].st = "SENT_NOACKED")
                        THEN [R.pkt[c] EXCEPT !.st = "LOST"] ELSE R.pkt[c]
      BY <2>2 DEF CloseActive, Ring
    <3> HIDE DEF r1
    <3>5. ASSUME NEW c \in Cells
          PROVE /\ r1.pkt[c].id = R.pkt[c].id /\ r1.pkt[c].kind = R.pkt[c].kind
                /\ r1.pkt[c].hs = R.pkt[c].hs /\ r1.pkt[c].ack = R.pkt[c].ack
                /\ r1.pkt[c].mack = R.pkt[c].mack
                /\ c # active => \/ r1.pkt[c].st = R.pkt[c].st
                                 \/ R.pkt[c].st = "SENT_NOACKED" /\ r1.pkt[c].st = "LOST"
                /\ c = active => r1.pkt[c].st = "LOST"
      <4>1. R.pkt[c] \in Packet
        BY <2>2, RingPkt
      <4>2. QED BY <3>4, <4>1 DEF Packet
    <3>6. QED BY <3>1, <3>2, <3>3, <3>5
  <2>4. /\ Touches(ul, ul', p.id)
        /\ p.id \in Ids => p.id <= sentId /\ ul[p.id].st \in Open
    <3>1. p.id \in Ids => p.id # 0
      BY DEF Ids
    <3>2. MaxMsgs < IdMod
      BY DEF Singles
    <3>3. Touches(ul, SetStatus(ul, sentId, p.id, "LOST"), p.id)
      <4> HIDE DEF p
      <4> QED BY <3>2, SetStatusTouches
    <3>4. QED BY <1>1, <1>5, <2>1, <3>1, <3>3, WaitsOpen
  <2> HIDE DEF r1
  <2>5. RingLined(r1, active, oldState, ul', sentId)
    <3>1. r1.pkt[active].st \in Done
      BY <1>1, <2>3 DEF Done
    <3>2. QED BY <1>1, <1>5, <2>3, <2>4, <3>1, LinedVerdict
  <2>6. RingLined(ring', active, oldState, ul', sentId)
    <3>1. StillRing(r1, ring')
      BY <1>1, <2>1, <2>3, AfterLossStill DEF TypeOK
    <3>2. QED BY <2>3, <2>5, <3>1, LinedStill
  <2>7. ToldLined(told, ul', sentId)
    <3> HIDE DEF p
    <3>1. sentId \in Int
      BY <1>1
    <3>2. QED BY <1>1, <2>4, <3>1, ToldTouched
  <2>8. QED BY <1>0, <2>6, <2>7 DEF LinedInv
<1>6. QED BY <1>3, <1>4, <1>5 DEF ReceiveTimeout

\* With a window of one packet the walk of NBFi_Resend_Pkt meets the packet the
\* ACK is for and no other one, older packets with the same ITER included.
LEMMA WalkOfOne ==
    ASSUME NEW r \in Ring, NEW a \in Slots, NEW o, NEW u, NEW n,
           RingLined(r, a, o, u, n), r.pkt[a].st = "WAIT_ACK", r.pkt[a].id # 0,
           r.pkt[a].kind \in AppKinds
    PROVE At(r, a, 0) = a
<1> DEFINE S == {s \in Slots :
                   /\ r.pkt[s].kind \in AppKinds
                   /\ r.pkt[s].st \in {"SENT_NOACKED", "WAIT_ACK", "LOST", "DELIVERED"}
                   /\ r.pkt[s].iter = r.pkt[a].iter}
           N == {s \in S : \A c \in S : Age(r.head, s) >= Age(r.head, c)}
<1>1. r.head \in Slots /\ r.pkt[a] \in Packet
  BY RingPkt, CellFacts DEF Ring
<1>2. At(r, a, 0) = AnyOf(N)
  <2>1. (r.pkt[a].iter - 0) % IterMod = r.pkt[a].iter
    <3> DEFINE i == r.pkt[a].iter
    <3>1. i \in 0 .. IterMod - 1
      BY <1>1 DEF Packet, Iters
    <3> HIDE DEF i
    <3>2. (i - 0) % IterMod = i
      BY <3>1
    <3>3. QED BY <3>2 DEF i
  <2>2. QED BY <2>1 DEF At, SentByIter, Newest
<1>3. ASSUME NEW c \in S PROVE Age(r.head, c) <= Age(r.head, a)
  <2>1. c \in Slots /\ r.pkt[c].kind \in AppKinds
        /\ r.pkt[c].st \in {"SENT_NOACKED", "WAIT_ACK", "LOST", "DELIVERED"}
    BY <1>3
  <2>2. Meant(r.pkt[c], c, a, o) = r.pkt[c].st /\ Meant(r.pkt[a], a, a, o) = "WAIT_ACK"
    BY <2>1 DEF Meant
  <2>3. r.pkt[c].id # 0
    BY <2>1, <2>2 DEF RingLined, PktLined
  <2>4. PairLined(r, a, c, "WAIT_ACK", r.pkt[c].st)
    BY <2>1, <2>2 DEF RingLined
  <2>5. Ahead(r, a, c) => r.pkt[a].id < r.pkt[c].id
    BY <2>3, <2>4 DEF PairLined
  <2>6. r.pkt[c].id <= r.pkt[a].id
    BY <2>1, <2>3, <2>4 DEF PairLined, Pending
  <2>7. r.pkt[c].id \in Int /\ r.pkt[a].id \in Int
    BY <1>1, <2>1, RingPkt, CellFacts DEF Packet
  <2>8. Age(r.head, c) \in Int /\ Age(r.head, a) \in Int
    BY <1>1, <2>1, AgeFacts
  <2>9. QED BY <2>5, <2>6, <2>7, <2>8 DEF Ahead
<1>4. a \in S
  OBVIOUS
<1> HIDE DEF S
<1>5. a \in N
  <2>1. \A c \in S : Age(r.head, a) >= Age(r.head, c)
    <3>1. ASSUME NEW c \in S PROVE Age(r.head, a) >= Age(r.head, c)
      <4>1. c \in Slots
        BY DEF S
      <4>2. Age(r.head, c) \in Int /\ Age(r.head, a) \in Int
        BY <1>1, <4>1, AgeFacts
      <4>3. QED BY <1>3, <4>2
    <3>2. QED BY <3>1
  <2>2. QED BY <1>4, <2>1
<1>6. ASSUME NEW s \in N PROVE s = a
  <2>1. s \in Slots
    BY DEF S
  <2>2. Age(r.head, s) >= Age(r.head, a) /\ Age(r.head, s) <= Age(r.head, a)
    BY <1>3, <1>4
  <2>3. Age(r.head, s) \in Int /\ Age(r.head, a) \in Int
    BY <1>1, <2>1, AgeFacts
  <2>4. Age(r.head, s) = Age(r.head, a)
    BY <2>2, <2>3
  <2>5. QED BY <1>1, <2>1, <2>4, AgeFacts
<1> HIDE DEF N
<1>7. AnyOf(N) = a
  <2>1. AnyOf(N) \in N
    BY <1>5 DEF AnyOf
  <2>2. QED BY <1>6, <2>1
<1>8. QED BY <1>2, <1>7

\* The walk over a window of no packet or of one.
LEMMA ResendOfOne ==
    ASSUME TypeOK, NEW r \in Ring, NEW has, NEW policy, NEW n,
           RingLined(r, active, oldState, ul, n), n \in 0 .. MaxMsgs,
           r.pkt[active].st = "WAIT_ACK"
    PROVE LET mk == Marked(r, active, has)
              m  == Resend(r, active, has, policy)
          IN  /\ mk \in Ring /\ mk.head = r.head
              /\ \A c \in Cells :
                    mk.pkt[c] = IF c = active /\ r.pkt[active].id # 0
                                THEN [r.pkt[c] EXCEPT !.st = "DELIVERED"] ELSE r.pkt[c]
              /\ StillRing(mk, m.ring)
              /\ m.ring = mk \/ m.ring = SendClear(mk, mk.pkt[active].iter)
              /\ m.ul = SetStatus(ul, sentId, m.ring.pkt[active].id, "DELIVERED")
<1> DEFINE mk == Marked(r, active, has)
           p  == r.pkt[active]
           r2 == IF LeftOver(r, active, has) = {} THEN SendClear(mk, mk.pkt[active].iter)
                 ELSE mk
<1>1. active \in Cells
  BY DEF TypeOK
<1>2. mk \in Ring /\ mk.head = r.head
  <2>1. mk \in Ring
    BY MarkedType
  <2>2. mk.head = r.head
    BY DEF Marked, Ring
  <2>3. QED BY <2>1, <2>2
<1>3. /\ Stops(r, active, has) = {} /\ GivenUp(r, active, has) = {}
      /\ Absent(r, active, has) = {}
      /\ Walked(r, active, has) = AckWindow(r, active)
      /\ AckWindow(r, active) = IF p.id # 0 THEN {0} ELSE {}
      /\ p.id # 0 => At(r, active, 0) = active
  <2>1. AckWindow(r, active) = IF p.id # 0 THEN {0} ELSE {}
    <3>1. p.mack = IF p.id # 0 THEN 1 ELSE 0
      BY <1>1, WaitsOpen
    <3> HIDE DEF p
    <3>2. 0 .. 1 - 1 = {0} /\ 0 .. 0 - 1 = {}
      OBVIOUS
    <3>3. QED BY <3>1, <3>2 DEF AckWindow, p
  <2>2. p.id # 0 => At(r, active, 0) = active
    BY <1>1, WaitsOpen, WalkOfOne
  <2>3. \A k \in AckWindow(r, active) : ~Missing(r, active, has, k)
    BY <2>1 DEF Missing
  <2>4. Stops(r, active, has) = {}
    <3>1. \A k \in AckWindow(r, active) : At(r, active, k) # None
      BY <1>1, <2>1, <2>2, CellFacts
    <3>2. QED BY <2>3, <3>1 DEF Stops, WornOut
  <2>5. Walked(r, active, has) = AckWindow(r, active)
    BY <2>4 DEF Walked
  <2>6. GivenUp(r, active, has) = {}
    BY <2>4 DEF GivenUp
  <2>7. Absent(r, active, has) = {}
    BY <2>3, <2>5 DEF Absent
  <2>8. QED BY <2>1, <2>2, <2>4, <2>5, <2>6, <2>7
<1>4. ASSUME NEW c \in Cells
      PROVE mk.pkt[c] = IF c = active /\ p.id # 0
                        THEN [r.pkt[c] EXCEPT !.st = "DELIVERED"] ELSE r.pkt[c]
  <2>1. mk.pkt[c] = IF \E k \in Walked(r, active, has) : At(r, active, k) = c
                    THEN [r.pkt[c] EXCEPT !.st = "DELIVERED"] ELSE r.pkt[c]
    BY <1>3 DEF Marked, Ring
  <2> HIDE DEF mk, p
  <2>2. (\E k \in Walked(r, active, has) : At(r, active, k) = c) <=> (c = active /\ p.id # 0)
    BY <1>3
  <2>3. QED BY <2>1, <2>2
<1>5. FirstAbsent(r, active, has) = None
  BY <1>3 DEF FirstAbsent, AnyOf
<1>6. Resend(r, active, has, policy)
        = [ring |-> r2, ul |-> SetStatus(ul, sentId, r2.pkt[active].id, "DELIVERED")]
  BY <1>3, <1>5 DEF Resend, GaveUpStatus
<1>7. StillRing(mk, r2)
  <2> HIDE DEF mk
  <2> QED BY <1>2, SendClearStill, StillRefl
<1>8. r2 = mk \/ r2 = SendClear(mk, mk.pkt[active].iter)
  <2> HIDE DEF mk
  <2> QED OBVIOUS
<1> HIDE DEF r2, mk
<1>9. QED BY <1>2, <1>4, <1>6, <1>7, <1>8 DEF mk

LEMMA RxAckLined ==
    ASSUME Singles, LinedInv, TypeOK', RxAck PROVE LinedInv'
<1> DEFINE r == Restored(ring)
           p == r.pkt[active]
<1>1. /\ UNCHANGED <<active, oldState, sentId, notAcked, told>>
      /\ TypeOK /\ active \in Cells /\ sentId \in 0 .. MaxMsgs /\ sentId \in Int
      /\ ToldLined(told, ul, sentId)
  BY DEF RxAck, LinedInv, TypeOK, histVars
<1>2. r \in Ring /\ RingLined(r, active, oldState, ul, sentId)
  BY LinedRestored
<1>3. CASE AckAccepted(r, station.reply)
  <2>1. PICK policy \in LossPolicies :
          /\ ring' = LookAtQueue(TakeAck(r, station.reply, policy).ring, active)
          /\ ul' = TakeAck(r, station.reply, policy).ul
    BY <1>3 DEF RxAck
  <2>2. p.st = "WAIT_ACK"
    BY <1>3 DEF AckAccepted
  <2> DEFINE t == TakeAck(r, station.reply, policy)
  <2>3. t.ring \in Ring
    BY <1>1, <1>2, TakeAckType
  <2>4. p \in Packet
    BY <1>1, <1>2, RingPkt
  <2>5. /\ p.id # 0 => p.id \in Ids /\ p.id <= sentId /\ ul[p.id].st \in Open
        /\ p.mack = 0 => p.id = 0
        /\ p.id = 0 /\ active \in Slots => p.kind \notin AppKinds
    <3> HIDE DEF r
    <3> QED BY <1>1, <1>2, <2>2, WaitsOpen
  <2>6. /\ RingLined(t.ring, active, oldState, t.ul, sentId)
        /\ ToldLined(told, t.ul, sentId)
    <3>1. CASE station.reply.type = "ACK" /\ p.mack # 0
      <4> DEFINE has == station.reply.has
                 mk  == Marked(r, active, has)
                 m   == Resend(r, active, has, policy)
                 x   == m.ring.pkt[active].id
      <4>1. t = m
        BY <3>1 DEF TakeAck
      <4>2. /\ mk \in Ring /\ mk.head = r.head
            /\ \A c \in Cells :
                  mk.pkt[c] = IF c = active /\ p.id # 0
                              THEN [r.pkt[c] EXCEPT !.st = "DELIVERED"] ELSE r.pkt[c]
            /\ StillRing(mk, m.ring)
            /\ m.ul = SetStatus(ul, sentId, x, "DELIVERED")
        <5> HIDE DEF r
        <5> QED BY <1>1, <1>2, <2>2, ResendOfOne
      <4> HIDE DEF mk, m, t
      <4>3. x = 0 \/ x = p.id
        <5>1. mk.pkt[active].id = p.id
          BY <1>1, <2>4, <4>2 DEF Packet
        <5>2. CASE active \in Slots
          <6>1. Still(mk.pkt[active], m.ring.pkt[active])
            BY <4>2, <5>2 DEF StillRing
          <6>2. QED BY <5>1, <6>1 DEF Still, Own, Alike
        <5>3. CASE active \notin Slots
          <6>1. active = Idle
            BY <1>1, <5>3, CellFacts
          <6>2. m.ring.pkt[active] = mk.pkt[active]
            BY <4>2, <6>1 DEF StillRing
          <6>3. QED BY <5>1, <6>2
        <5>4. QED BY <5>2, <5>3
      <4>4. Touches(ul, m.ul, x) /\ Touches(ul, m.ul, p.id)
        <5>1. MaxMsgs < IdMod
          BY DEF Singles
        <5> HIDE DEF x, p
        <5>2. Touches(ul, m.ul, x)
          <6>1. Touches(ul, SetStatus(ul, sentId, x, "DELIVERED"), x)
            BY <5>1, SetStatusTouches
          <6>2. m.ul = SetStatus(ul, sentId, x, "DELIVERED")
            BY <4>2
          <6>3. QED BY <6>1, <6>2
        <5>3. QED BY <4>3, <5>2 DEF Touches, Ids
      <4> HIDE DEF x
      <4>5. RingLined(mk, active, oldState, m.ul, sentId)
        <5>1. CASE p.id = 0
          <6>1. \A c \in Cells : mk.pkt[c] = r.pkt[c]
            BY <4>2, <5>1
          <6>2. \A i \in Ids : m.ul[i] = ul[i]
            BY <4>4, <5>1 DEF Touches, Ids
          <6> HIDE DEF r, p
          <6>3. mk.pkt[Idle].id = 0 /\ mk.pkt[Idle].mack = 0
            BY <1>2, <6>1, CellFacts DEF RingLined
          <6>4. \A c \in Slots : Moved(r.pkt[c], Meant(r.pkt[c], c, active, oldState),
                                       mk.pkt[c], Meant(mk.pkt[c], c, active, oldState))
            BY <6>1, CellFacts DEF Moved
          <6>5. ASSUME NEW c \in Slots, mk.pkt[c].id # 0,
                       Meant(mk.pkt[c], c, active, oldState) \in Pending
                PROVE m.ul[mk.pkt[c].id].st \in Open
            <7>1. /\ mk.pkt[c] = r.pkt[c] /\ ul[r.pkt[c].id].st \in Open
                  /\ r.pkt[c].id <= sentId
              BY <1>2, <6>1, <6>5, CellFacts DEF RingLined, PktLined
            <7>2. r.pkt[c].id \in Ids
              BY <1>1, <1>2, <6>5, <7>1, RingPkt, CellFacts, StatAssumption DEF Packet, Ids
            <7>3. QED BY <6>2, <7>1, <7>2
          <6>6. QED BY <1>2, <4>2, <6>3, <6>4, <6>5, LinedMoved
        <5>2. CASE p.id # 0
          <6>1. mk.pkt[active].st \in Done
            BY <1>1, <2>4, <4>2, <5>2 DEF Packet, Done
          <6>2. \A c \in Cells :
                  /\ mk.pkt[c].id = r.pkt[c].id /\ mk.pkt[c].kind = r.pkt[c].kind
                  /\ mk.pkt[c].hs = r.pkt[c].hs /\ mk.pkt[c].ack = r.pkt[c].ack
                  /\ mk.pkt[c].mack = r.pkt[c].mack
                  /\ c # active => mk.pkt[c].st = r.pkt[c].st
            BY <2>4, <4>2 DEF Packet
          <6> HIDE DEF r
          <6>3. QED BY <1>1, <1>2, <2>2, <4>2, <4>4, <6>1, <6>2, LinedVerdict
        <5>3. QED BY <5>1, <5>2
      <4>6. RingLined(m.ring, active, oldState, m.ul, sentId)
        BY <4>2, <4>5, LinedStill
      <4>7. ToldLined(told, m.ul, sentId)
        <5>1. p.id \in Ids => p.id <= sentId /\ ul[p.id].st \in Open
          BY <2>5 DEF Ids
        <5> HIDE DEF p
        <5>2. QED BY <1>1, <4>4, <5>1, ToldTouched
      <4>8. QED BY <4>1, <4>6, <4>7
    <3>2. CASE p.mack = 0
      <4> HIDE DEF t, r
      <4>1. PICK d \in Packet, r1 \in Ring :
              /\ AsDelivered(d, p)
              /\ r1 = SetPkt(r, active, d) /\ r1.head = r.head
              /\ \A c \in Cells : r1.pkt[c] = IF c = active THEN d ELSE r.pkt[c]
              /\ t.ring = r1 \/ t.ring = SendClear(r1, d.iter)
              /\ \/ t.ul = ul
                 \/ t.ul = SetStatus(ul, sentId, t.ring.pkt[active].id, "DELIVERED")
        BY <1>1, <1>2, <3>2, TakeAckEmpty DEF t
      <4>2. r1.pkt[active].st \in Done
        BY <1>1, <4>1 DEF Done, AsDelivered
      <4>3. \A c \in Cells :
              /\ r1.pkt[c].id = r.pkt[c].id /\ r1.pkt[c].kind = r.pkt[c].kind
              /\ r1.pkt[c].hs = r.pkt[c].hs /\ r1.pkt[c].ack = r.pkt[c].ack
              /\ r1.pkt[c].mack = r.pkt[c].mack
              /\ c # active => r1.pkt[c].st = r.pkt[c].st
        BY <4>1 DEF AsDelivered
      <4>4. r1.pkt[active].id = 0 /\ p.id = 0
        BY <1>1, <2>5, <3>2, <4>3
      <4>5. StillRing(r1, t.ring)
        BY <4>1, SendClearStill, StillRefl
      <4>6. t.ring.pkt[active].id = 0
        <5>1. CASE active \in Slots
          BY <4>4, <4>5, <5>1 DEF StillRing, Still, Own, Alike
        <5>2. CASE active \notin Slots
          BY <1>1, <4>4, <4>5, <5>2, CellFacts DEF StillRing
        <5>3. QED BY <5>1, <5>2
      <4> HIDE DEF p
      <4>7. Touches(ul, t.ul, 0)
        <5>1. MaxMsgs < IdMod
          BY DEF Singles
        <5>2. Touches(ul, SetStatus(ul, sentId, 0, "DELIVERED"), 0)
          BY <5>1, SetStatusTouches
        <5>3. t.ul = ul \/ t.ul = SetStatus(ul, sentId, 0, "DELIVERED")
          BY <4>1, <4>6
        <5>4. QED BY <5>2, <5>3 DEF Touches
      <4>8. RingLined(r1, active, oldState, t.ul, sentId)
        BY <1>1, <1>2, <2>2, <4>1, <4>2, <4>3, <4>4, <4>7, LinedVerdict DEF p
      <4>9. RingLined(t.ring, active, oldState, t.ul, sentId)
        BY <4>5, <4>8, LinedStill
      <4>10. ToldLined(told, t.ul, sentId)
        <5>1. 0 \in Ids => 0 <= sentId /\ ul[0].st \in Open
          BY DEF Ids
        <5>2. QED BY <1>1, <4>7, <5>1, ToldTouched
      <4>11. QED BY <4>9, <4>10
    <3>3. CASE station.reply.type # "ACK" /\ p.mack # 0
      <4>1. t = [ring |-> r, ul |-> ul]
        BY <3>3 DEF TakeAck
      <4>2. QED BY <1>1, <1>2, <4>1
    <3>4. QED BY <3>1, <3>2, <3>3
  <2> HIDE DEF t
  <2>7. RingLined(ring', active, oldState, t.ul, sentId)
    BY <2>1, <2>3, <2>6, LookAtQueueStill, LinedStill DEF t
  <2>8. ul' = t.ul
    BY <2>1 DEF t
  <2>9. QED BY <1>1, <2>6, <2>7, <2>8 DEF LinedInv
<1>4. CASE ~AckAccepted(r, station.reply)
  <2>1. ring' = LookAtQueue(r, active) /\ ul' = ul
    BY <1>4 DEF RxAck
  <2>2. StillRing(r, ring')
    <3> HIDE DEF r
    <3> QED BY <1>2, <2>1, LookAtQueueStill
  <2>3. QED BY <1>1, <2>1, <2>2, LinedQuiet
<1>5. QED BY <1>3, <1>4

LEMMA RxMessageLined ==
    ASSUME LinedInv, TypeOK', NEW ack \in BOOLEAN, NEW multi \in BOOLEAN,
           NEW repeated \in BOOLEAN, RxMessage(ack, multi, repeated)
    PROVE LinedInv'
<1> DEFINE r1 == Restored(ring)
<1>1. /\ UNCHANGED <<ul, sentId, notAcked, told>> /\ TypeOK
      /\ \/ active' = active
         \/ active' = Idle /\ r1.pkt[active].st # "WAIT_FOR_EXTRA_PACKETS"
  BY RxMessageShape DEF RxMessage, LinedInv, histVars
<1>2. PICK r \in Ring, q \in Ring : /\ StillRing(r1, r)
                                    /\ Saved(r, q, active', oldState, oldState')
                                    /\ StillRing(q, ring')
  BY <1>1, RxMessageShape
<1>3. r1 \in Ring /\ RingLined(r1, active, oldState, ul, sentId)
  BY LinedRestored
<1> HIDE DEF r1
<1>4. RingLined(r1, active', oldState, ul, sentId)
  BY <1>1, <1>3, LinedActive
<1>5. RingLined(r, active', oldState, ul, sentId)
  BY <1>2, <1>3, <1>4, LinedStill
<1>6. RingLined(q, active', oldState', ul, sentId)
  <2>1. active' \in Cells
    BY DEF TypeOK
  <2>2. /\ q.head = r.head
        /\ \A c \in Cells : /\ Alike(r.pkt[c], q.pkt[c])
                            /\ Meant(q.pkt[c], c, active', oldState')
                                 = Meant(r.pkt[c], c, active', oldState)
    BY <1>2, <2>1, SavedAlike
  <2>3. \A c \in Slots : Moved(r.pkt[c], Meant(r.pkt[c], c, active', oldState),
                               q.pkt[c], Meant(q.pkt[c], c, active', oldState'))
    BY <2>2, CellFacts DEF Moved, Alike
  <2>4. q.pkt[Idle].id = 0 /\ q.pkt[Idle].mack = 0
    BY <1>5, <2>2, CellFacts DEF RingLined, Alike
  <2>5. \A c \in Slots :
            q.pkt[c].id # 0 /\ Meant(q.pkt[c], c, active', oldState') \in Pending
                => ul[q.pkt[c].id].st \in Open
    BY <1>5, <2>2, CellFacts DEF RingLined, PktLined, Alike
  <2>6. QED BY <1>5, <2>2, <2>3, <2>4, <2>5, LinedMoved
<1>7. RingLined(ring', active', oldState', ul, sentId)
  BY <1>2, <1>6, LinedStill
<1>8. QED BY <1>1, <1>7 DEF LinedInv

\* Emptying the transmit buffer, whatever packet is active.
LEMMA ClearedLined ==
    ASSUME LinedInv, TypeOK', ring' = ClearTx(ring), active' = Idle,
           UNCHANGED <<oldState, ul, sentId, notAcked, told>>
    PROVE LinedInv'
<1>1. /\ \A c \in Slots : ring'.pkt[c] = FreePkt
      /\ ring'.pkt[Idle] = ring.pkt[Idle]
  BY CellFacts DEF ClearTx, LinedInv, TypeOK, Ring
<1>2. \A c \in Slots : /\ ring'.pkt[c].id = 0 /\ ring'.pkt[c].mack = 0
                       /\ Meant(ring'.pkt[c], c, Idle, oldState) = "FREE"
  BY <1>1, CellFacts DEF FreePkt, Meant
<1>3. RingLined(ring', Idle, oldState, ul, sentId)
  BY <1>1, <1>2 DEF RingLined, PktLined, PairLined, LinedInv
<1>4. QED BY <1>3 DEF LinedInv

\* The main loop tells a verdict once: afterwards the entry is marked.
LEMMA ReportStatusLined ==
    ASSUME LinedInv, TypeOK', ReportStatus PROVE LinedInv'
<1>1. PICK st \in Verdicts, id \in Ids :
        /\ id \in Unreported(st)
        /\ ul' = [ul EXCEPT ![id].rep = TRUE]
        /\ told' = [told EXCEPT ![id] = IF Len(@) < 2 THEN Append(@, st) ELSE @]
        /\ UNCHANGED <<ring, active, oldState, sentId, notAcked>>
  BY DEF ReportStatus
<1>2. TypeOK /\ RingLined(ring, active, oldState, ul, sentId) /\ ToldLined(told, ul, sentId)
  BY DEF LinedInv
<1>3. /\ \A i \in Ids : i # id => ul'[i] = ul[i] /\ told'[i] = told[i]
      /\ ul'[id].st = ul[id].st /\ ul'[id].rep = TRUE
      /\ told'[id] = IF Len(told[id]) < 2 THEN Append(told[id], st) ELSE told[id]
  BY <1>1, <1>2 DEF TypeOK
<1>4. ul[id].st = st /\ ul[id].rep = FALSE /\ id \in InRing(sentId)
  BY <1>1, <1>2 DEF Unreported, TypeOK
<1>5. told[id] = <<>>
  BY <1>2, <1>4 DEF ToldLined
<1>6. Len(told'[id]) = 1
  BY <1>3, <1>5
<1>7. ToldLined(told', ul', sentId)
  <2>1. ASSUME NEW i \in Ids
        PROVE /\ told'[i] # <<>> => Len(told'[i]) = 1 /\ ul'[i].rep /\ ul'[i].st \in Verdicts
              /\ i > sentId => ul'[i].st = "NOTEXIST"
    <3>1. CASE i # id
      BY <1>2, <1>3, <3>1 DEF ToldLined
    <3>2. CASE i = id
      BY <1>1, <1>2, <1>3, <1>4, <1>6, <3>2 DEF ToldLined
    <3>3. QED BY <3>1, <3>2
  <2>2. QED BY <2>1 DEF ToldLined
<1>8. RingLined(ring, active, oldState, ul', sentId)
  <2>1. ASSUME NEW c \in Slots, ring.pkt[c].id # 0,
               Meant(ring.pkt[c], c, active, oldState) \in Pending
        PROVE ul'[ring.pkt[c].id].st \in Open
    <3>1. ul[ring.pkt[c].id].st \in Open /\ ring.pkt[c].id <= sentId
      BY <1>2, <2>1 DEF RingLined, PktLined
    <3>2. ring.pkt[c].id \in Ids
      <4>1. ring.pkt[c].id \in Nat
        BY <1>2, RingPkt, CellFacts DEF TypeOK, Packet
      <4>2. sentId \in 0 .. MaxMsgs /\ MaxMsgs \in Nat
        BY <1>2, StatAssumption DEF TypeOK
      <4>3. QED BY <2>1, <3>1, <4>1, <4>2 DEF Ids
    <3>3. ul'[ring.pkt[c].id].st = ul[ring.pkt[c].id].st
      BY <1>3, <3>2
    <3>4. QED BY <3>1, <3>3
  <2>2. \A c \in Slots : Moved(ring.pkt[c], Meant(ring.pkt[c], c, active, oldState),
                               ring.pkt[c], Meant(ring.pkt[c], c, active, oldState))
    BY DEF Moved
  <2>3. ring.pkt[Idle].id = 0 /\ ring.pkt[Idle].mack = 0
    BY <1>2 DEF RingLined
  <2>4. QED BY <1>2, <2>1, <2>2, <2>3, LinedMoved
<1>9. QED BY <1>1, <1>7, <1>8 DEF LinedInv

LEMMA LinedNext == ASSUME Singles, LinedInv, [Next]_vars PROVE LinedInv'
<1>0. TypeOK /\ TypeOK' /\ ring \in Ring
  BY TypeOKNext DEF LinedInv, TypeOK
<1>1. CASE UNCHANGED vars
  BY <1>0, <1>1, StillRefl, LinedQuiet DEF vars, devVars, histVars
<1>2. ASSUME NEW len \in Lengths, NEW flags \in FlagSets, Send5(len, flags)
      PROVE LinedInv'
  BY <1>0, <1>2, Send5Lined
<1>3. CASE SendNext
  BY <1>0, <1>3, SendNextLined
<1>4. CASE ArmTimer
  BY <1>0, <1>4, StillRefl, LinedQuiet DEF ArmTimer, histVars
<1>5. CASE ProcessOff
  BY <1>0, <1>5, ClearedLined DEF ProcessOff, histVars
<1>6. CASE TxFinished
  BY <1>0, <1>6, SweepStill, StillRefl, LinedQuiet DEF TxFinished, histVars
<1>7. CASE ReceiveTimeout
  BY <1>0, <1>7, ReceiveTimeoutLined
<1>8. CASE RxAck
  BY <1>0, <1>8, RxAckLined
<1>9. ASSUME NEW answer \in BOOLEAN, NEW ack \in BOOLEAN, RxSystem(answer, ack)
      PROVE LinedInv'
  <2>1. StillRing(Restored(ring), ring')
    BY <1>0, <1>9, RxSystemShape
  <2>2. UNCHANGED <<active, oldState, ul, sentId, notAcked, told>>
    BY <1>9 DEF RxSystem, histVars
  <2>3. QED BY <1>0, <2>1, <2>2, LinedQuiet
<1>10. ASSUME NEW ack \in BOOLEAN, NEW multi \in BOOLEAN, NEW repeated \in BOOLEAN,
              RxMessage(ack, multi, repeated)
       PROVE LinedInv'
  BY <1>0, <1>10, RxMessageLined
<1>11. CASE WaitExtraTimeout
  <2> DEFINE r == Restored(ring)
  <2>1. /\ r \in Ring /\ ring' = Sweep(r, active)
        /\ UNCHANGED <<active, oldState, ul, sentId, notAcked, told>>
    BY <1>0, <1>11, RestoredType DEF WaitExtraTimeout, TypeOK, histVars
  <2>2. StillRing(r, ring')
    <3> HIDE DEF r
    <3> QED BY <2>1, SweepStill
  <2>3. QED BY <1>0, <2>1, <2>2, LinedQuiet
<1>12. CASE WaitClearTimeout
  BY <1>0, <1>12, StillRefl, LinedQuiet DEF WaitClearTimeout, histVars
<1>13. CASE HeartBeat
  BY <1>0, <1>13, HeartBeatStill, LinedQuiet DEF HeartBeat, histVars
<1>14. CASE ReportStatus
  BY <1>0, <1>14, ReportStatusLined
<1>15. CASE GoToSleep
  BY <1>0, <1>15, ClearedLined DEF GoToSleep, histVars
<1>16. CASE WakeUp
  BY <1>0, <1>16, WakeUpStill, LinedQuiet DEF WakeUp, histVars
<1>17. QED
  BY <1>1, <1>2, <1>3, <1>4, <1>5, <1>6, <1>7, <1>8, <1>9, <1>10, <1>11, <1>12,
     <1>13, <1>14, <1>15, <1>16 DEF Next

LEMMA LinedInit == Init => LinedInv
<1>1. SUFFICES ASSUME Init PROVE LinedInv
  OBVIOUS
<1>2. TypeOK
  BY <1>1, TypeOKInit
<1>3. StillRing(EmptyRing, ring)
  <2>1. EmptyRing \in Ring /\ SendSync(EmptyRing, 0) \in Ring
    BY EmptyRingType, SendSyncType DEF Iters
  <2>2. StillRing(EmptyRing, SendClear(SendSync(EmptyRing, 0), 0))
    BY <2>1, SendSyncStill, SendClearStill, StillTrans
  <2>3. QED BY <1>1, <2>2, StillRefl DEF Init
<1>4. \A c \in Cells : /\ EmptyRing.pkt[c].id = 0 /\ EmptyRing.pkt[c].mack = 0
                       /\ Meant(EmptyRing.pkt[c], c, Idle, "FREE") = "FREE"
  BY DEF EmptyRing, FreePkt, Meant
<1>5. RingLined(EmptyRing, Idle, "FREE", ul, sentId)
  <2>1. EmptyRing \in Ring
    BY EmptyRingType
  <2>2. QED BY <1>4, CellFacts DEF RingLined, PktLined, PairLined
<1>6. RingLined(ring, Idle, "FREE", ul, sentId)
  BY <1>3, <1>5, EmptyRingType, LinedStill
<1>7. ToldLined(told, ul, sentId)
  BY <1>1 DEF Init, ToldLined
<1>8. QED BY <1>1, <1>2, <1>6, <1>7 DEF LinedInv, Init

LEMMA LinedAlways == ASSUME Singles PROVE Spec => []LinedInv
<1>1. Init => LinedInv
  BY LinedInit
<1>2. LinedInv /\ [Next]_vars => LinedInv'
  BY LinedNext
<1>3. QED BY <1>1, <1>2, PTL DEF Spec

\* The application is told one verdict per message, once: NBFI_Main_Level_Loop
\* reports an entry of the status ring and marks it, and no handler sets the
\* status of a message again once it has a verdict.
THEOREM OneVerdict == ASSUME Singles PROVE Spec => []ToldOnce
<1>1. LinedInv => ToldOnce
  <2>1. SUFFICES ASSUME LinedInv, NEW id \in Ids PROVE Len(told[id]) <= 1
    BY DEF ToldOnce
  <2>2. CASE told[id] = <<>>
    <3>1. Len(told[id]) = 0
      BY <2>2
    <3>2. QED BY <3>1
  <2>3. CASE told[id] # <<>>
    <3>1. Len(told[id]) = 1
      BY <2>1, <2>3 DEF LinedInv, ToldLined
    <3>2. QED BY <3>1
  <2>4. QED BY <2>2, <2>3
<1>2. QED BY <1>1, LinedAlways, PTL

\* Once the application is told that a message is delivered or lost, no packet
\* of the message is left that a handler would send or wait for.
THEOREM CompleteIsComplete == ASSUME Singles PROVE Spec => []SendComplete
<1>1. LinedInv => SendComplete
  <2>1. SUFFICES ASSUME LinedInv, NEW id \in Ids, told[id] # <<>>, NEW s \in Slots,
                        ring.pkt[s].kind \in AppKinds, ring.pkt[s].id = id % IdMod,
                        ring.pkt[s].st \in {"QUEUED", "QUEUED_AGAIN", "WAIT_ACK"}
                 PROVE FALSE
    BY DEF SendComplete
  <2>2. TypeOK /\ MaxMsgs < IdMod
    BY <2>1 DEF LinedInv, Singles
  <2>3. ring.pkt[s].id = id /\ id # 0
    BY <2>1, <2>2, SmallId DEF Ids
  <2>4. PktLined(ring.pkt[s], Meant(ring.pkt[s], s, active, oldState), ul, sentId)
    BY <2>1 DEF LinedInv, RingLined
  <2>5. Meant(ring.pkt[s], s, active, oldState) \in Pending
    BY <2>1 DEF Meant, Pending
  <2>6. ul[id].st \in Open
    BY <2>3, <2>4, <2>5 DEF PktLined
  <2>7. ul[id].st \in Verdicts
    BY <2>1 DEF LinedInv, ToldLined
  <2>8. QED BY <2>6, <2>7 DEF Open, Verdicts
<1>2. QED BY <1>1, LinedAlways, PTL

-----------------------------------------------------------------------------
(***************************************************************************)
(* Part 4.  What DELIVERED promises.  The base station answers with the    *)
(* ITER of the packet it heard, five bits, and the answer may arrive late: *)
(* the argument needs that no ITER is used twice, so at most one lap of    *)
(* messages and heartbeats (and no NBFI_UL_FLAG_SEND_WITH_SAME_TX_ITER).   *)
(* Then the invariant ties every packet in the ring to the ITER of its     *)
(* message, and every ACK under way to a message the station has.          *)
(***************************************************************************)
OneLap ==
    /\ Singles
    /\ Mode = "CRX"
    /\ \A f \in FlagSets : "SAME_TX_ITER" \notin f
    /\ MaxMsgs + MaxHb <= IterMod

\* At most n ITERs were used, the next one is it, and the messages have older ones.
Counted(it, n, f) ==
    \E k \in 0 .. n : it = k % IterMod /\ \A id \in Ids : \A i \in f[id] : i < k

Apart(f) == \A i, j \in Ids : i # j => f[i] \cap f[j] = {}

Begun(u, n, f, w, h) ==
    \A id \in Ids : /\ id > n => /\ f[id] = {} /\ id \notin w
                                /\ \A i \in Iters : <<id, i>> \notin h
                    /\ id <= n => u[id].st # "NOTEXIST"

Holds(p, f, w) == p.id # 0 => f[p.id] = {p.iter} /\ (p.hs <=> p.id \in w)

RingHolds(r, f, w) == \A c \in Slots : Holds(r.pkt[c], f, w)

ReplyTrue(y, f, h) ==
    y.type = "ACK" => \E id \in Ids : f[id] = {y.iter} /\ <<id, y.iter>> \in h

HeardInv ==
    /\ LinedInv
    /\ Counted(ulIter, sentId + (MaxHb - hbLeft), frags)
    /\ Apart(frags)
    /\ Begun(ul, sentId, frags, confirm, heard)
    /\ RingHolds(ring, frags, confirm)
    /\ ReplyTrue(station.reply, frags, heard)
    /\ DeliveredIsComplete

\* A step of the abstract service, or none.
ServiceStep == [Service!Next]_(Service!svcVars)

\* Packets keep their message, or give way to one of the stack's own.
Same(p, q) == q.id = 0 \/ (q.id = p.id /\ q.hs = p.hs /\ q.iter = p.iter)

Kept(r, q) == \A c \in Slots : Same(r.pkt[c], q.pkt[c])

LEMMA KeptStill == ASSUME NEW r, NEW q, StillRing(r, q) PROVE Kept(r, q)
BY DEF StillRing, Still, Own, Alike, Kept, Same

LEMMA KeptTrans ==
    ASSUME NEW r, NEW q, NEW t, Kept(r, q), Kept(q, t) PROVE Kept(r, t)
BY DEF Kept, Same

LEMMA KeptAlike ==
    ASSUME NEW r, NEW q, \A c \in Cells : Alike(r.pkt[c], q.pkt[c]) PROVE Kept(r, q)
BY CellFacts DEF Kept, Same, Alike

LEMMA KeptHolds ==
    ASSUME NEW r, NEW q, NEW f, NEW w, RingHolds(r, f, w), Kept(r, q)
    PROVE RingHolds(q, f, w)
BY DEF RingHolds, Holds, Kept, Same

LEMMA KeptSet ==
    ASSUME NEW r \in Ring, NEW s \in Cells, NEW p, Same(r.pkt[s], p)
    PROVE Kept(r, SetPkt(r, s, p))
BY CellFacts DEF Kept, Same, SetPkt, Ring

LEMMA KeptRestored == ASSUME TypeOK PROVE Kept(ring, Restored(ring))
BY RestoredAlike, KeptAlike

LEMMA SendNextKept == ASSUME TypeOK, SendNext PROVE Kept(ring, ring')
<1> DEFINE r  == Sweep(ring, active)
           s  == Queued(ring, active)
           r1 == SetPkt(r, s, AfterAir(r.pkt[s]))
<1>1. /\ s \in Slots /\ mode # "OFF" /\ r \in Ring /\ StillRing(ring, r)
      /\ StillRing(r1, ring')
  BY SendNextShape
<1>2. Kept(r, r1)
  <2> HIDE DEF r, s
  <2>1. r.pkt[s] \in Packet /\ s \in Cells
    BY <1>1, RingPkt, CellFacts
  <2>2. Same(r.pkt[s], AfterAir(r.pkt[s]))
    BY <1>1, <2>1, AfterAirShape DEF Same, FreePkt
  <2>3. QED BY <1>1, <2>1, <2>2, KeptSet
<1> HIDE DEF r, s, r1
<1>3. QED BY <1>1, <1>2, KeptStill, KeptTrans

LEMMA CloseActiveKept ==
    ASSUME NEW r \in Ring, NEW a PROVE Kept(r, CloseActive(r, a))
<1>1. ASSUME NEW c \in Cells PROVE Alike(r.pkt[c], CloseActive(r, a).pkt[c])
  <2>1. \/ CloseActive(r, a).pkt[c] = [r.pkt[c] EXCEPT !.st = "LOST"]
        \/ CloseActive(r, a).pkt[c] = r.pkt[c]
    BY CloseActiveShape
  <2>2. r.pkt[c] \in Packet
    BY RingPkt
  <2>3. QED BY <2>1, <2>2 DEF Alike, Packet
<1>2. QED BY <1>1, KeptAlike

LEMMA ReceiveTimeoutKept ==
    ASSUME "requeue" \notin LossPolicies, TypeOK, ReceiveTimeout PROVE Kept(ring, ring')
<1> DEFINE p  == ring.pkt[active]
           p1 == [p EXCEPT !.retry = p.retry + 1]
           p2 == [p1 EXCEPT !.st = "QUEUED_AGAIN"]
           R  == [ring EXCEPT !.pkt[active].retry = @ + 1]
<1>1. active \in Cells /\ ring \in Ring /\ ulIter \in Iters
  BY DEF TypeOK
<1>2. p \in Packet /\ p.retry + 1 \in Nat
  BY <1>1, RingPkt DEF Packet
<1>3. p1 \in Packet /\ Same(p, p1) /\ Same(p, p2)
  <2>1. p1 \in Packet
    BY <1>2, PktRetryType
  <2>2. Same(p, p1)
    BY <1>2 DEF Same, Packet
  <2>3. Same(p, p2)
    BY <1>2 DEF Same, Packet
  <2>4. QED BY <2>1, <2>2, <2>3
<1>4. CASE ring' = ring
  BY <1>4, StillRefl, KeptStill
<1>5. CASE TimeoutRetry
  <2>1. ring' = SetPkt(ring, active, p2)
    BY <1>1, <1>2, <1>5 DEF TimeoutRetry, SetPkt, Ring, Packet
  <2> HIDE DEF p2
  <2>2. QED BY <1>1, <1>3, <2>1, KeptSet
<1>6. ASSUME NEW policy \in LossPolicies, TimeoutLost(policy) PROVE Kept(ring, ring')
  <2> DEFINE r1 == CloseActive(R, active)
  <2>1. ring' = AfterLoss(r1, policy)
    BY <1>6 DEF TimeoutLost
  <2>2. R = SetPkt(ring, active, p1)
    BY <1>1 DEF SetPkt, Ring
  <2> HIDE DEF R, p1
  <2>3. R \in Ring /\ Kept(ring, R)
    BY <1>1, <1>3, <2>2, SetPktType, KeptSet
  <2>4. r1 \in Ring /\ Kept(R, r1)
    BY <2>3, CloseActiveType, CloseActiveKept
  <2> HIDE DEF r1
  <2>5. Kept(r1, ring')
    BY <2>1, <2>4, AfterLossStill, KeptStill
  <2>6. QED BY <2>3, <2>4, <2>5, KeptTrans
<1>7. QED BY <1>4, <1>5, <1>6 DEF ReceiveTimeout

LEMMA RxMessageKept ==
    ASSUME TypeOK, TypeOK', NEW ack \in BOOLEAN, NEW multi \in BOOLEAN,
           NEW repeated \in BOOLEAN, RxMessage(ack, multi, repeated)
    PROVE Kept(ring, ring')
<1> DEFINE r1 == Restored(ring)
<1>1. PICK r \in Ring, q \in Ring : /\ StillRing(r1, r)
                                    /\ Saved(r, q, active', oldState, oldState')
                                    /\ StillRing(q, ring')
  BY RxMessageShape
<1>2. Kept(ring, r1)
  BY KeptRestored
<1>3. Kept(r, q)
  <2>1. active' \in Cells
    BY DEF TypeOK
  <2>2. \A c \in Cells : Alike(r.pkt[c], q.pkt[c])
    BY <1>1, <2>1, SavedAlike
  <2>3. QED BY <2>2, KeptAlike
<1> HIDE DEF r1
<1>4. QED BY <1>1, <1>2, <1>3, KeptStill, KeptTrans

-----------------------------------------------------------------------------
\* What the service shows of a status.
Judged(st) == IF st \in Open THEN "PENDING" ELSE st

LEMMA VerdictJudged ==
    ASSUME TypeOK, TypeOK', NEW id \in Ids
    PROVE Verdict(id) = Judged(ul[id].st) /\ Verdict(id)' = Judged(ul'[id].st)
<1>1. ul[id].st \in UlStatuses /\ ul'[id].st \in UlStatuses
  BY DEF TypeOK
<1>2. QED BY <1>1 DEF Verdict, Judged, Undecided, Open, UlStatuses

LEMMA ServiceQuiet ==
    ASSUME TypeOK, TypeOK', \A id \in Ids : ul'[id].st = ul[id].st,
           UNCHANGED <<frags, confirm, heard>>
    PROVE ServiceStep
<1>1. \A id \in Ids : Verdict(id)' = Verdict(id)
  BY VerdictJudged
<1>2. \A id \in Ids : Complete(id)' <=> Complete(id)
  BY DEF Complete
<1>3. QED BY <1>1, <1>2 DEF ServiceStep, Service!svcVars

\* One message moves on: it arrives at the base station, or gets its verdict.
Moves(x) ==
    /\ x \in Ids /\ ul[x].st \in Open /\ Touches(ul, ul', x)
    /\ UNCHANGED <<frags, confirm>>
    /\ heard \subseteq heard' /\ \A h \in heard' \ heard : h[1] = x
    /\ \/ ul'[x].st \in Open
       \/ ul'[x].st = "DELIVERED" /\ x \notin confirm
       \/ ul'[x].st = "DELIVERED" /\ x \in confirm /\ heard' = heard /\ Complete(x)
       \/ ul'[x].st = "LOST" /\ x \in confirm /\ heard' = heard

LEMMA ServiceMoves ==
    ASSUME MaxMsgs < IdMod, TypeOK, TypeOK', NEW x, Moves(x)
    PROVE ServiceStep
<1> DEFINE vd(id) == Judged(ul[id].st)
           vn(id) == Judged(ul'[id].st)
<1>1. \A id \in Ids : Verdict(id) = vd(id) /\ Verdict(id)' = vn(id)
  BY VerdictJudged
<1>2. /\ \A id \in Ids : id # x => vn(id) = vd(id)
      /\ x \in Ids /\ vd(x) = "PENDING"
  BY DEF Moves, Touches, Judged
<1>3. \A id \in Ids : id # x => (Complete(id)' <=> Complete(id))
  <2>1. \A id \in Ids : id % IdMod = id
    BY SmallId
  <2>2. ASSUME NEW id \in Ids, id # x, NEW i PROVE <<id, i>> \in heard' <=> <<id, i>> \in heard
    BY <2>2 DEF Moves
  <2>3. QED BY <2>1, <2>2 DEF Complete, Moves
<1>4. Complete(x) => Complete(x)'
  BY DEF Complete, Moves
<1>5. heard' = heard => (Complete(x)' <=> Complete(x))
  BY DEF Complete, Moves
<1>6. confirm' = confirm
  BY DEF Moves
<1> HIDE DEF vd, vn
<1>7. CASE vn(x) = "PENDING"
  <2>1. CASE Complete(x)' <=> Complete(x)
    BY <1>1, <1>2, <1>3, <1>6, <1>7, <2>1 DEF ServiceStep, Service!svcVars
  <2>2. CASE Complete(x)' /\ ~Complete(x)
    <3>1. Service!Arrive(x)
      BY <1>1, <1>2, <1>3, <1>6, <1>7, <2>2 DEF Service!Arrive
    <3>2. QED BY <1>2, <3>1 DEF ServiceStep, Service!Next
  <2>3. QED BY <1>4, <2>1, <2>2
<1>8. CASE vn(x) = "DELIVERED" /\ x \notin confirm
  <2>1. Service!FireAndForget(x)
    BY <1>1, <1>2, <1>3, <1>4, <1>6, <1>8 DEF Service!FireAndForget
  <2>2. QED BY <1>2, <2>1 DEF ServiceStep, Service!Next
<1>9. CASE vn(x) = "DELIVERED" /\ x \in confirm /\ heard' = heard /\ Complete(x)
  <2>1. Service!Confirm(x)
    BY <1>1, <1>2, <1>3, <1>5, <1>6, <1>9 DEF Service!Confirm
  <2>2. QED BY <1>2, <2>1 DEF ServiceStep, Service!Next
<1>10. CASE vn(x) = "LOST" /\ x \in confirm /\ heard' = heard
  <2>1. Service!GiveUp(x)
    BY <1>1, <1>2, <1>3, <1>5, <1>6, <1>10 DEF Service!GiveUp
  <2>2. QED BY <1>2, <2>1 DEF ServiceStep, Service!Next
<1>11. QED BY <1>7, <1>8, <1>9, <1>10 DEF Moves, vn, Judged, Open

\* A step that leaves the messages alone keeps the invariant.
LEMMA HeardQuiet ==
    ASSUME TypeOK, TypeOK', LinedInv', HeardInv, Kept(ring, ring'),
           \A id \in Ids : ul'[id].st = ul[id].st,
           UNCHANGED <<sentId, frags, confirm, heard>>,
           ReplyTrue(station'.reply, frags, heard),
           Counted(ulIter', sentId + (MaxHb - hbLeft'), frags)
    PROVE HeardInv' /\ ServiceStep
<1>1. ServiceStep
  BY ServiceQuiet
<1>2. RingHolds(ring', frags, confirm)
  BY KeptHolds DEF HeardInv
<1>4. Begun(ul', sentId, frags, confirm, heard)
  BY DEF HeardInv, Begun
<1>5. \A id \in confirm : ul'[id].st = "DELIVERED" => Complete(id)
  BY DEF HeardInv, DeliveredIsComplete, TypeOK
<1>6. DeliveredIsComplete'
  BY <1>5 DEF DeliveredIsComplete, Complete
<1>7. QED BY <1>1, <1>2, <1>4, <1>6 DEF HeardInv

\* A step in which one message moves on keeps the invariant.
LEMMA HeardMoves ==
    ASSUME MaxMsgs < IdMod, TypeOK, TypeOK', LinedInv', HeardInv, Kept(ring, ring'),
           NEW x, Moves(x), x <= sentId,
           UNCHANGED <<sentId, ulIter, hbLeft>>,
           ReplyTrue(station'.reply, frags, heard')
    PROVE HeardInv' /\ ServiceStep
<1>1. ServiceStep
  BY ServiceMoves
<1>2. RingHolds(ring', frags, confirm)
  BY KeptHolds DEF HeardInv
<1>3. Begun(ul', sentId, frags, confirm, heard')
  <2>1. ASSUME NEW id \in Ids
        PROVE /\ id > sentId => /\ frags[id] = {} /\ id \notin confirm
                                /\ \A i \in Iters : <<id, i>> \notin heard'
              /\ id <= sentId => ul'[id].st # "NOTEXIST"
    <3>1. CASE id # x
      <4>1. ul'[id] = ul[id] /\ \A i \in Iters : <<id, i>> \in heard' => <<id, i>> \in heard
        BY <3>1 DEF Moves, Touches
      <4>2. QED BY <4>1 DEF HeardInv, Begun
    <3>2. CASE id = x
      <4>1. ul'[id].st # "NOTEXIST"
        BY <3>2 DEF Moves, Open
      <4>2. ~(id > sentId)
        BY <3>2 DEF Ids, TypeOK
      <4>3. QED BY <4>1, <4>2
    <3>3. QED BY <3>1, <3>2
  <2>2. QED BY <2>1 DEF Begun
<1>4. ASSUME NEW id \in confirm, ul'[id].st = "DELIVERED" PROVE Complete(id)'
  <2>1. id \in Ids
    BY DEF TypeOK
  <2>2. Complete(id) => Complete(id)'
    BY DEF Complete, Moves
  <2>3. CASE id # x
    BY <1>4, <2>1, <2>2, <2>3 DEF Moves, Touches, HeardInv, DeliveredIsComplete
  <2>4. CASE id = x
    BY <1>4, <2>2, <2>4 DEF Moves, Open
  <2>5. QED BY <2>3, <2>4
<1>5. DeliveredIsComplete'
  BY <1>4 DEF DeliveredIsComplete, Moves
<1>6. QED BY <1>1, <1>2, <1>3, <1>5 DEF HeardInv, Moves

-----------------------------------------------------------------------------
\* An ACK takes away nothing but the wait of the active packet, and gives a
\* verdict to no message but that packet's.
LEMMA TakeAckOne ==
    ASSUME MaxMsgs < IdMod, TypeOK, NEW r \in Ring,
           RingLined(r, active, oldState, ul, sentId), r.pkt[active].st = "WAIT_ACK",
           NEW y, NEW policy
    PROVE LET t == TakeAck(r, y, policy)
              x == r.pkt[active].id
          IN  /\ t.ring \in Ring /\ Kept(r, t.ring)
              /\ Touches(ul, t.ul, x)
              /\ x \in Ids => \/ t.ul[x] = ul[x]
                              \/ y.type = "ACK" /\ t.ul[x].st = "DELIVERED"
<1> DEFINE p == r.pkt[active]
           t == TakeAck(r, y, policy)
<1>1. active \in Cells /\ sentId \in 0 .. MaxMsgs /\ p \in Packet
  BY RingPkt DEF TypeOK
<1>2. t.ring \in Ring
  BY <1>1, TakeAckType
<1>3. CASE y.type = "ACK" /\ p.mack # 0
  <2> DEFINE mk == Marked(r, active, y.has)
             m  == Resend(r, active, y.has, policy)
             x  == m.ring.pkt[active].id
  <2>1. t = m
    BY <1>3 DEF TakeAck
  <2>2. /\ mk \in Ring
        /\ \A c \in Cells :
              mk.pkt[c] = IF c = active /\ p.id # 0
                          THEN [r.pkt[c] EXCEPT !.st = "DELIVERED"] ELSE r.pkt[c]
        /\ StillRing(mk, m.ring)
        /\ m.ul = SetStatus(ul, sentId, x, "DELIVERED")
    BY <1>1, ResendOfOne
  <2> HIDE DEF mk, m, t
  <2>3. Kept(r, m.ring)
    <3>1. ASSUME NEW c \in Cells PROVE Alike(r.pkt[c], mk.pkt[c])
      <4>1. r.pkt[c] \in Packet
        BY RingPkt
      <4>2. mk.pkt[c] \in {r.pkt[c], [r.pkt[c] EXCEPT !.st = "DELIVERED"]}
        BY <2>2
      <4>3. QED BY <4>1, <4>2 DEF Alike, Packet
    <3>2. QED BY <2>2, <3>1, KeptAlike, KeptStill, KeptTrans
  <2>4. x = 0 \/ x = p.id
    <3>1. CASE active \in Slots
      BY <2>3, <3>1 DEF Kept, Same
    <3>2. CASE active \notin Slots
      <4>1. active = Idle /\ m.ring.pkt[active] = mk.pkt[active]
        BY <1>1, <2>2, <3>2, CellFacts DEF StillRing
      <4>2. mk.pkt[active].id = p.id
        BY <1>1, <2>2 DEF Packet
      <4>3. QED BY <4>1, <4>2
    <3>3. QED BY <3>1, <3>2
  <2> HIDE DEF x, p
  <2>5. /\ Touches(ul, SetStatus(ul, sentId, x, "DELIVERED"), x)
        /\ x \in Ids => \/ SetStatus(ul, sentId, x, "DELIVERED")[x] = ul[x]
                        \/ SetStatus(ul, sentId, x, "DELIVERED")[x]
                              = [st |-> "DELIVERED", rep |-> FALSE]
    BY SetStatusTouches
  <2>6. /\ Touches(ul, m.ul, x)
        /\ x \in Ids => m.ul[x] = ul[x] \/ m.ul[x].st = "DELIVERED"
    BY <2>2, <2>5
  <2>7. /\ Touches(ul, m.ul, p.id)
        /\ p.id \in Ids => m.ul[p.id] = ul[p.id] \/ m.ul[p.id].st = "DELIVERED"
    BY <2>4, <2>6 DEF Touches, Ids
  <2>8. QED BY <1>2, <1>3, <2>1, <2>3, <2>7 DEF t, p
<1>4. CASE y.type # "ACK" /\ p.mack # 0
  <2>1. t = [ring |-> r, ul |-> ul]
    BY <1>4 DEF TakeAck
  <2> HIDE DEF t
  <2>2. QED BY <1>2, <2>1, StillRefl, KeptStill DEF Touches, t
<1>5. CASE p.mack = 0
  <2>1. p.id = 0
    BY <1>1, <1>5, WaitsOpen
  <2> HIDE DEF t
  <2>2. PICK d \in Packet, r1 \in Ring :
          /\ AsDelivered(d, p)
          /\ r1 = SetPkt(r, active, d) /\ r1.head = r.head
          /\ \A c \in Cells : r1.pkt[c] = IF c = active THEN d ELSE r.pkt[c]
          /\ t.ring = r1 \/ t.ring = SendClear(r1, d.iter)
          /\ \/ t.ul = ul
             \/ t.ul = SetStatus(ul, sentId, t.ring.pkt[active].id, "DELIVERED")
    BY <1>1, <1>5, TakeAckEmpty DEF t
  <2>3. Kept(r, r1)
    <3>1. Same(p, d)
      BY <1>1, <2>2 DEF Same, AsDelivered
    <3>2. QED BY <1>1, <2>2, <3>1, KeptSet
  <2>4. StillRing(r1, t.ring)
    BY <2>2, SendClearStill, StillRefl
  <2>5. Kept(r, t.ring)
    BY <1>2, <2>3, <2>4, KeptStill, KeptTrans DEF t
  <2>6. t.ring.pkt[active].id = 0
    <3>1. r1.pkt[active].id = 0
      BY <1>1, <2>1, <2>2 DEF AsDelivered
    <3>2. CASE active \in Slots
      BY <2>4, <3>1, <3>2 DEF StillRing, Still, Own, Alike
    <3>3. CASE active \notin Slots
      BY <1>1, <2>4, <3>1, <3>3, CellFacts DEF StillRing
    <3>4. QED BY <3>2, <3>3
  <2>7. Touches(ul, t.ul, 0)
    <3>1. Touches(ul, SetStatus(ul, sentId, 0, "DELIVERED"), 0)
      BY SetStatusTouches
    <3>2. t.ul = ul \/ t.ul = SetStatus(ul, sentId, 0, "DELIVERED")
      BY <2>2, <2>6
    <3>3. QED BY <3>1, <3>2 DEF Touches
  <2> HIDE DEF p
  <2>8. p.id \notin Ids
    BY <2>1 DEF Ids
  <2>9. QED BY <1>2, <2>1, <2>5, <2>7, <2>8 DEF t, p
<1>6. QED BY <1>3, <1>4, <1>5

LEMMA RxAckKept ==
    ASSUME MaxMsgs < IdMod, LinedInv, RxAck PROVE Kept(ring, ring')
<1> DEFINE r == Restored(ring)
<1>1. TypeOK /\ r \in Ring /\ RingLined(r, active, oldState, ul, sentId) /\ Kept(ring, r)
  BY LinedRestored, KeptRestored DEF LinedInv
<1>2. CASE AckAccepted(r, station.reply)
  <2>1. PICK policy \in LossPolicies :
          ring' = LookAtQueue(TakeAck(r, station.reply, policy).ring, active)
    BY <1>2 DEF RxAck
  <2> DEFINE q == TakeAck(r, station.reply, policy).ring
  <2>2. r.pkt[active].st = "WAIT_ACK"
    BY <1>2 DEF AckAccepted
  <2>3. q \in Ring /\ Kept(r, q)
    <3> HIDE DEF r
    <3> QED BY <1>1, <2>2, TakeAckOne
  <2> HIDE DEF q, r
  <2>4. Kept(q, ring')
    BY <2>1, <2>3, LookAtQueueStill, KeptStill DEF q
  <2>5. QED BY <1>1, <2>3, <2>4, KeptTrans
<1>3. CASE ~AckAccepted(r, station.reply)
  <2>1. ring' = LookAtQueue(r, active)
    BY <1>3 DEF RxAck
  <2> HIDE DEF r
  <2>2. QED BY <1>1, <2>1, LookAtQueueStill, KeptStill, KeptTrans
<1>4. QED BY <1>2, <1>3
\* What the base station hears of a packet of a message, and of one of the
\* stack's own.
LEMMA HeardAir ==
    ASSUME HeardInv, NEW p, Air(p), p.kind \in AppKinds => p.id \in Ids /\ frags[p.id] = {p.iter}
    PROVE /\ ReplyTrue(station'.reply, frags, heard')
          /\ heard \subseteq heard' /\ \A h \in heard' \ heard : h[1] = p.id
          /\ p.kind \notin AppKinds => heard' = heard
<1>1. ReplyTrue(station.reply, frags, heard)
  BY DEF HeardInv
<1>2. CASE UNCHANGED <<station, heard>>
  BY <1>1, <1>2
<1>3. CASE StationHears(p)
  <2>1. heard' = IF p.kind \in AppKinds THEN heard \cup {<<p.id, p.iter>>} ELSE heard
    BY <1>3 DEF StationHears
  <2>2. \/ station'.reply = station.reply
        \/ /\ station'.reply.type = "ACK" /\ station'.reply.iter = p.iter
           /\ p.kind \in AppKinds
        \/ station'.reply.type = "ACK_ON_SYS"
    BY <1>3 DEF StationHears
  <2>3. ReplyTrue(station.reply, frags, heard')
    BY <1>1, <2>1 DEF ReplyTrue
  <2>4. ReplyTrue(station'.reply, frags, heard')
    BY <2>1, <2>2, <2>3 DEF ReplyTrue
  <2>5. QED BY <2>1, <2>4
<1>4. QED BY <1>2, <1>3 DEF Air

LEMMA SendNextHeard ==
    ASSUME OneLap, HeardInv, TypeOK', LinedInv', SendNext
    PROVE HeardInv' /\ ServiceStep
<1> DEFINE r  == Sweep(ring, active)
           s  == Queued(ring, active)
           p  == r.pkt[s]
           u1 == SetStatus(ul, sentId, p.id, "INPROCESS")
           u2 == SetStatus(u1, sentId, p.id, "DELIVERED")
<1>1. /\ TypeOK /\ LinedInv /\ Mode = "CRX" /\ MaxMsgs < IdMod
      /\ UNCHANGED <<sentId, ulIter, hbLeft, frags, confirm>> /\ Air(p)
      /\ sentId \in Nat
  <2>1. TypeOK /\ LinedInv /\ Mode = "CRX" /\ MaxMsgs < IdMod
    BY DEF HeardInv, LinedInv, OneLap, Singles
  <2>2. Air(p)
    BY <2>1, SendNextShape
  <2>3. UNCHANGED <<sentId, ulIter, hbLeft, frags, confirm>>
    BY DEF SendNext
  <2>4. QED BY <2>1, <2>2, <2>3 DEF TypeOK
<1>2. ul' = IF StateOnAir(p) = "SENT" THEN u2 ELSE u1
  BY <1>1, SendNextShape
<1>3. /\ s \in Slots /\ mode # "OFF" /\ r \in Ring /\ StillRing(ring, r)
      /\ RingLined(r, Idle, oldState, ul, sentId)
      /\ p \in Packet
      /\ p.id # 0 => p.id \in Ids /\ p.id <= sentId /\ ul[p.id].st \in Open
      /\ p.kind \in AppKinds => p.id # 0
  BY <1>1, SentPacket
<1>4. Kept(ring, ring')
  BY <1>1, SendNextKept
<1>5. Holds(p, frags, confirm)
  <2> HIDE DEF r, s
  <2>1. RingHolds(r, frags, confirm)
    BY <1>3, KeptStill, KeptHolds DEF HeardInv
  <2>2. QED BY <1>3, <2>1, CellFacts DEF RingHolds
<1>6. /\ Touches(ul, u1, p.id) /\ Touches(u1, u2, p.id)
      /\ p.id \in Ids => /\ u1[p.id] = ul[p.id] \/ u1[p.id] = [st |-> "INPROCESS", rep |-> FALSE]
                         /\ u2[p.id] = u1[p.id] \/ u2[p.id] = [st |-> "DELIVERED", rep |-> FALSE]
  <2> DEFINE x == p.id
  <2> HIDE DEF x
  <2>1. /\ Touches(ul, SetStatus(ul, sentId, x, "INPROCESS"), x)
        /\ x \in Ids => \/ SetStatus(ul, sentId, x, "INPROCESS")[x] = ul[x]
                        \/ SetStatus(ul, sentId, x, "INPROCESS")[x]
                              = [st |-> "INPROCESS", rep |-> FALSE]
    BY <1>1, SetStatusTouches
  <2> DEFINE v == SetStatus(ul, sentId, x, "INPROCESS")
  <2> HIDE DEF v
  <2>2. /\ Touches(v, SetStatus(v, sentId, x, "DELIVERED"), x)
        /\ x \in Ids => \/ SetStatus(v, sentId, x, "DELIVERED")[x] = v[x]
                        \/ SetStatus(v, sentId, x, "DELIVERED")[x]
                              = [st |-> "DELIVERED", rep |-> FALSE]
    BY <1>1, SetStatusTouches
  <2>3. QED BY <2>1, <2>2 DEF x, v
<1> HIDE DEF r, s, p, u1, u2
<1>7. /\ ReplyTrue(station'.reply, frags, heard')
      /\ heard \subseteq heard' /\ \A h \in heard' \ heard : h[1] = p.id
      /\ p.kind \notin AppKinds => heard' = heard
  BY <1>1, <1>3, <1>5, HeardAir DEF Holds
<1>8. CASE p.id = 0
  <2>1. \A id \in Ids : ul'[id] = ul[id]
    BY <1>2, <1>6, <1>8 DEF Touches, Ids
  <2>2. heard' = heard
    BY <1>3, <1>7, <1>8
  <2>3. QED BY <1>1, <1>4, <1>7, <2>1, <2>2, HeardQuiet DEF HeardInv
<1>9. CASE p.id # 0
  <2>1. p.id \in Ids /\ p.id <= sentId /\ ul[p.id].st \in Open
    BY <1>3, <1>9
  <2>2. Touches(ul, ul', p.id)
    BY <1>2, <1>6 DEF Touches
  <2>3. u1[p.id].st \in Open
    BY <1>6, <2>1 DEF Open
  <2>4. \/ ul'[p.id].st \in Open
        \/ ul'[p.id].st = "DELIVERED" /\ p.id \notin confirm
    <3>1. CASE StateOnAir(p) = "SENT"
      <4>1. AckMode(mode) /\ ~p.hs
        BY <1>1, <1>3, <3>1 DEF StateOnAir, AckMode, TypeOK
      <4>2. p.id \notin confirm
        BY <1>5, <1>9, <4>1 DEF Holds
      <4>3. QED BY <1>2, <1>6, <2>1, <2>3, <3>1, <4>2
    <3>2. CASE StateOnAir(p) # "SENT"
      BY <1>2, <2>3, <3>2
    <3>3. QED BY <3>1, <3>2
  <2>5. Moves(p.id)
    BY <1>1, <1>7, <2>1, <2>2, <2>4 DEF Moves
  <2>6. QED BY <1>1, <1>4, <1>7, <2>1, <2>5, HeardMoves
<1>10. QED BY <1>8, <1>9
LEMMA ReceiveTimeoutHeard ==
    ASSUME OneLap, HeardInv, TypeOK', LinedInv', ReceiveTimeout
    PROVE HeardInv' /\ ServiceStep
<1> DEFINE p == ring.pkt[active]
<1>1. /\ TypeOK /\ LinedInv /\ MaxMsgs < IdMod /\ "requeue" \notin LossPolicies
      /\ Mode = "CRX"
  BY DEF HeardInv, LinedInv, OneLap, Singles
<1>2. /\ active \in Cells /\ ring \in Ring /\ sentId \in 0 .. MaxMsgs
      /\ RingLined(ring, active, oldState, ul, sentId)
  BY <1>1 DEF LinedInv, TypeOK
<1>3. Kept(ring, ring')
  BY <1>1, ReceiveTimeoutKept
<1>4. UNCHANGED <<sentId, ulIter, hbLeft, station, frags, confirm, heard>>
  BY DEF ReceiveTimeout, histVars
<1>5. CASE ul' = ul
  BY <1>1, <1>3, <1>4, <1>5, HeardQuiet DEF HeardInv
<1>6. CASE p.st = "WAIT_ACK" /\ ul' = SetStatus(ul, sentId, p.id, "LOST")
  <2>1. /\ Touches(ul, ul', p.id)
        /\ p.id \in Ids => ul'[p.id] = ul[p.id] \/ ul'[p.id].st = "LOST"
    <3> DEFINE x == p.id
    <3> HIDE DEF x
    <3>1. /\ Touches(ul, SetStatus(ul, sentId, x, "LOST"), x)
          /\ x \in Ids => \/ SetStatus(ul, sentId, x, "LOST")[x] = ul[x]
                          \/ SetStatus(ul, sentId, x, "LOST")[x] = [st |-> "LOST", rep |-> FALSE]
      BY <1>1, SetStatusTouches
    <3>2. ul' = SetStatus(ul, sentId, x, "LOST")
      BY <1>6 DEF x
    <3>3. Touches(ul, ul', x) /\ (x \in Ids => ul'[x] = ul[x] \/ ul'[x].st = "LOST")
      BY <3>1, <3>2
    <3>4. QED BY <3>3 DEF x
  <2>2. CASE p.id = 0
    <3>1. \A id \in Ids : ul'[id] = ul[id]
      BY <2>1, <2>2 DEF Touches, Ids
    <3>2. QED BY <1>1, <1>3, <1>4, <3>1, HeardQuiet DEF HeardInv
  <2>3. CASE p.id # 0
    <3>1. active \in Slots /\ p.id \in Ids /\ p.id <= sentId /\ ul[p.id].st \in Open
      BY <1>2, <1>6, <2>3, WaitsOpen
    <3>2. p.hs
      <4>1. Meant(p, active, active, oldState) = "WAIT_ACK"
        BY <1>6 DEF Meant
      <4>2. PktLined(p, "WAIT_ACK", ul, sentId)
        BY <1>2, <3>1, <4>1 DEF RingLined
      <4>3. QED BY <2>3, <4>2 DEF PktLined
    <3>3. p.id \in confirm
      BY <2>3, <3>1, <3>2 DEF HeardInv, RingHolds, Holds
    <3> HIDE DEF p
    <3>4. Moves(p.id)
      BY <1>4, <2>1, <3>1, <3>3 DEF Moves
    <3>5. QED BY <1>1, <1>3, <1>4, <3>1, <3>4, HeardMoves DEF HeardInv
  <2>4. QED BY <2>2, <2>3
<1>7. QED BY <1>5, <1>6 DEF ReceiveTimeout, TimeoutRetry, TimeoutLost

\* An ACK that fits the active packet comes from the message of that packet:
\* no other message has its ITER.
LEMMA RxAckHeard ==
    ASSUME OneLap, HeardInv, TypeOK', LinedInv', RxAck
    PROVE HeardInv' /\ ServiceStep
<1> DEFINE r == Restored(ring)
           p == r.pkt[active]
           y == station.reply
<1>1. TypeOK /\ LinedInv /\ MaxMsgs < IdMod /\ Mode = "CRX"
  BY DEF HeardInv, LinedInv, OneLap, Singles
<1>2. /\ active \in Cells /\ r \in Ring /\ sentId \in 0 .. MaxMsgs
      /\ RingLined(r, active, oldState, ul, sentId)
  BY <1>1, LinedRestored DEF TypeOK
<1>3. Kept(ring, ring')
  BY <1>1, RxAckKept
<1>4. /\ UNCHANGED <<sentId, ulIter, hbLeft, frags, confirm, heard>>
      /\ station'.reply = NoReply
  BY <1>1 DEF RxAck, histVars, TypeOK
<1>5. \A h : ReplyTrue(station'.reply, frags, h)
  BY <1>4 DEF ReplyTrue, NoReply
<1>6. Counted(ulIter, sentId + (MaxHb - hbLeft), frags)
  BY DEF HeardInv
<1>7. CASE \A id \in Ids : ul'[id] = ul[id]
  BY <1>1, <1>3, <1>4, <1>5, <1>6, <1>7, HeardQuiet
<1>8. CASE ~ \A id \in Ids : ul'[id] = ul[id]
  <2>1. AckAccepted(r, y)
    BY <1>8 DEF RxAck
  <2>2. PICK policy \in LossPolicies : ul' = TakeAck(r, y, policy).ul
    BY <2>1 DEF RxAck
  <2>3. p.st = "WAIT_ACK" /\ p.iter = y.iter
    BY <2>1 DEF AckAccepted
  <2>4. /\ Touches(ul, ul', p.id)
        /\ p.id \in Ids => \/ ul'[p.id] = ul[p.id]
                           \/ y.type = "ACK" /\ ul'[p.id].st = "DELIVERED"
    <3> HIDE DEF r, y
    <3> QED BY <1>1, <1>2, <2>2, <2>3, TakeAckOne
  <2>5. p.id \in Ids /\ p.id # 0 /\ y.type = "ACK" /\ ul'[p.id].st = "DELIVERED"
    BY <1>8, <2>4 DEF Touches, Ids
  <2>6. active \in Slots /\ p.id <= sentId /\ ul[p.id].st \in Open
    <3> HIDE DEF r
    <3> QED BY <1>2, <2>3, <2>5, WaitsOpen
  <2>7. p.hs
    <3> HIDE DEF r
    <3>1. Meant(p, active, active, oldState) = "WAIT_ACK"
      BY <2>3 DEF Meant
    <3>2. PktLined(p, "WAIT_ACK", ul, sentId)
      BY <1>2, <2>6, <3>1 DEF RingLined
    <3>3. QED BY <2>5, <3>2 DEF PktLined
  <2>8. Holds(p, frags, confirm)
    <3>1. RingHolds(r, frags, confirm)
      BY <1>1, KeptRestored, KeptHolds DEF HeardInv
    <3> HIDE DEF r
    <3>2. QED BY <2>6, <3>1 DEF RingHolds
  <2> HIDE DEF p, r
  <2>9. p.id \in confirm /\ frags[p.id] = {y.iter}
    BY <2>3, <2>5, <2>7, <2>8 DEF Holds
  <2>10. Complete(p.id)
    <3>1. PICK id \in Ids : frags[id] = {y.iter} /\ <<id, y.iter>> \in heard
      BY <2>5 DEF HeardInv, ReplyTrue
    <3>2. id = p.id
      BY <2>5, <2>9, <3>1 DEF HeardInv, Apart
    <3>3. p.id % IdMod = p.id
      BY <1>1, <2>5, SmallId
    <3>4. QED BY <2>9, <3>1, <3>2, <3>3 DEF Complete
  <2>11. Moves(p.id)
    BY <1>4, <2>4, <2>5, <2>6, <2>9, <2>10 DEF Moves
  <2>12. QED BY <1>1, <1>3, <1>4, <1>5, <2>6, <2>11, HeardMoves
<1>9. QED BY <1>7, <1>8
-----------------------------------------------------------------------------
\* NBFi_Send5 accepts a message of one packet: the message gets the next id,
\* its packet, if the allocation works, the next ITER.
LEMMA Send5Queued ==
    ASSUME OneLap, LinedInv, NEW len \in Lengths, NEW flags \in FlagSets,
           Send5(len, flags), sentId' # sentId
    PROVE \E k \in {0, 1} :
             /\ sentId < MaxMsgs /\ sentId' = sentId + 1
             /\ ul' = [ul EXCEPT ![sentId + 1] = [st |-> "QUEUED", rep |-> FALSE]]
             /\ ulIter' = Wrap(ulIter + k)
             /\ frags' = [frags EXCEPT ![sentId + 1] = IF k = 0 THEN {} ELSE {Wrap(ulIter)}]
             /\ confirm' = IF Asks(flags) THEN confirm \cup {sentId + 1} ELSE confirm
             /\ \A c \in Slots : \/ Same(ring.pkt[c], ring'.pkt[c])
                                 \/ /\ k = 1 /\ ring'.pkt[c].id = sentId + 1
                                    /\ ring'.pkt[c].hs = Asks(flags)
                                    /\ ring'.pkt[c].iter = Wrap(ulIter)
<1> DEFINE r     == CountSweep(ring, active)
           id    == sentId + 1
           n     == Fragments(len)
           k     == Allocatable(r, n)
           first == IF "SAME_TX_ITER" \in flags /\ k > 0 THEN lastIter ELSE ulIter
           room  == IF len <= MaxPayload THEN FreeSlots(ring, active, transmit) >= Mack + 3
                    ELSE FreeSlots(ring, active, transmit) >= len \div MaxPayload + 3
           hs    == Asks(flags) /\ AckMode(mode)
           frag(c) == Fragment(id, len, flags, first, Age(r.head, c), n, notAcked, mode)
<1>1. /\ TypeOK /\ ring \in Ring /\ StillRing(ring, r) /\ r \in Ring /\ ulIter \in Int
      /\ sentId \in 0 .. MaxMsgs /\ MaxMsgs \in Nat
  BY CountSweepStill, CountSweepType, StatAssumption DEF TypeOK, LinedInv, Iters
<1>2. room /\ sentId < MaxMsgs
  BY DEF Send5
<1>3. /\ ul' = [ul EXCEPT ![id] = [st |-> "QUEUED", rep |-> FALSE]]
      /\ sentId' = id
  BY <1>2 DEF Send5
<1>4. ring' = [pkt |-> [c \in Cells |-> IF c \in Slots /\ Age(r.head, c) < k
                                        THEN frag(c) ELSE r.pkt[c]],
               head |-> (r.head + k) % TxSize]
  BY <1>2 DEF Send5
<1>5. /\ ulIter' = Wrap(first + k)
      /\ frags' = [frags EXCEPT ![id] = {Wrap(first + j) : j \in 0 .. k - 1}]
      /\ confirm' = IF hs THEN confirm \cup {id} ELSE confirm
  BY <1>2 DEF Send5
<1>6. n = 1
  BY DEF OneLap, Singles, Fragments
<1>7. k \in {0, 1}
  <2> DEFINE blocked(j) == Blocked(r.pkt[(r.head + j) % TxSize])
             stop == AnyOf({i \in 0 .. n - 1 :
                             blocked(i) /\ \A j \in 0 .. i - 1 : ~blocked(j)})
  <2>1. stop = None \/ stop \in 0 .. n - 1
    <3> HIDE DEF blocked
    <3> QED BY AnyOfIn
  <2>2. k = IF stop = None THEN n ELSE stop
    BY DEF Allocatable
  <2> HIDE DEF stop, k, n
  <2>3. QED BY <1>6, <2>1, <2>2
<1>8. first = ulIter
  BY DEF OneLap
<1>9. hs = Asks(flags)
  <2>1. mode \in {"CRX", "OFF"}
    BY <1>1 DEF OneLap, TypeOK
  <2>2. QED BY <2>1 DEF AckMode, Asks
<1>10. id % IdMod = id
  <2>1. id \in Ids
    BY <1>1, <1>2 DEF Ids
  <2> HIDE DEF id
  <2>2. QED BY <2>1, SmallId DEF OneLap, Singles
<1>11. {Wrap(first + j) : j \in 0 .. k - 1} = IF k = 0 THEN {} ELSE {Wrap(ulIter)}
  <2>1. CASE k = 0
    <3> HIDE DEF k, first
    <3>1. 0 .. k - 1 = {}
      BY <2>1
    <3>2. QED BY <2>1, <3>1
  <2>2. CASE k = 1
    <3> HIDE DEF k, first
    <3>1. 0 .. k - 1 = {0} /\ first + 0 = ulIter
      BY <1>1, <1>8, <2>2
    <3>2. QED BY <2>2, <3>1
  <2> HIDE DEF k
  <2>3. QED BY <1>7, <2>1, <2>2
<1>12. ASSUME NEW c \in Slots
       PROVE \/ Same(ring.pkt[c], ring'.pkt[c])
             \/ /\ k = 1 /\ ring'.pkt[c].id = id
                /\ ring'.pkt[c].hs = Asks(flags)
                /\ ring'.pkt[c].iter = Wrap(ulIter)
  <2>1. Age(r.head, c) \in 0 .. TxSize - 1
    <3>1. r.head \in Slots
      BY <1>1 DEF Ring
    <3> HIDE DEF r
    <3>2. QED BY <3>1, AgeFacts
  <2>2. CASE Age(r.head, c) < k
    <3>1. ring'.pkt[c] = frag(c)
      <4> HIDE DEF frag, r, k
      <4> QED BY <1>4, <2>2, CellFacts
    <3>2. Age(r.head, c) = 0 /\ k = 1
      <4> HIDE DEF r, k
      <4> QED BY <1>7, <2>1, <2>2
    <3>3. /\ frag(c).id = id % IdMod /\ frag(c).hs = Asks(flags)
          /\ frag(c).iter = Wrap(first + Age(r.head, c))
      BY Zenon DEF Fragment
    <3> HIDE DEF frag, r, k, first, id
    <3>4. first + Age(r.head, c) = ulIter
      BY <1>1, <1>8, <3>2
    <3>5. QED BY <1>10, <3>1, <3>2, <3>3, <3>4
  <2>3. CASE ~(Age(r.head, c) < k)
    <3>1. ring'.pkt[c] = r.pkt[c]
      <4> HIDE DEF frag, r, k
      <4> QED BY <1>4, <2>3, CellFacts
    <3> HIDE DEF r
    <3>2. QED BY <1>1, <3>1, KeptStill DEF Kept
  <2>4. QED BY <2>2, <2>3
<1> HIDE DEF r, n, k, first, hs, frag, room
<1>13. QED BY <1>2, <1>3, <1>5, <1>7, <1>8, <1>9, <1>11, <1>12

\* A refused message changes nothing but the ring.
LEMMA Send5Refused ==
    ASSUME TypeOK, NEW len, NEW flags, Send5(len, flags), sentId' = sentId
    PROVE /\ UNCHANGED <<ul, ulIter, frags, confirm>> /\ Kept(ring, ring')
<1>1. sentId # sentId + 1 /\ ring \in Ring
  BY DEF TypeOK
<1>2. UNCHANGED <<ul, ulIter, frags, confirm>> /\ ring' = CountSweep(ring, active)
  BY <1>1 DEF Send5
<1>3. QED BY <1>1, <1>2, CountSweepStill, KeptStill

LEMMA Send5Heard ==
    ASSUME OneLap, HeardInv, TypeOK', LinedInv', NEW len \in Lengths,
           NEW flags \in FlagSets, Send5(len, flags)
    PROVE HeardInv' /\ ServiceStep
<1>1. TypeOK /\ LinedInv /\ MaxMsgs < IdMod
  BY DEF HeardInv, LinedInv, OneLap, Singles
<1>2. UNCHANGED <<station, heard, hbLeft>>
  BY DEF Send5
<1>3. CASE sentId' = sentId
  <2>1. UNCHANGED <<ul, ulIter, frags, confirm>> /\ Kept(ring, ring')
    BY <1>1, <1>3, Send5Refused
  <2>2. QED BY <1>1, <1>2, <1>3, <2>1, HeardQuiet DEF HeardInv
<1>4. CASE sentId' # sentId
  <2> DEFINE id == sentId + 1
             w  == confirm'
  <2>1. PICK k \in {0, 1} :
             /\ sentId < MaxMsgs /\ sentId' = id
             /\ ul' = [ul EXCEPT ![id] = [st |-> "QUEUED", rep |-> FALSE]]
             /\ ulIter' = Wrap(ulIter + k)
             /\ frags' = [frags EXCEPT ![id] = IF k = 0 THEN {} ELSE {Wrap(ulIter)}]
             /\ confirm' = IF Asks(flags) THEN confirm \cup {id} ELSE confirm
             /\ \A c \in Slots : \/ Same(ring.pkt[c], ring'.pkt[c])
                                 \/ /\ k = 1 /\ ring'.pkt[c].id = id
                                    /\ ring'.pkt[c].hs = Asks(flags)
                                    /\ ring'.pkt[c].iter = Wrap(ulIter)
    BY <1>1, <1>4, Send5Queued
  <2>2. /\ sentId \in 0 .. MaxMsgs /\ MaxMsgs \in Nat /\ hbLeft \in 0 .. MaxHb /\ MaxHb \in Nat
        /\ id \in Ids /\ id > sentId /\ id # 0
    BY <1>1, <2>1, StatAssumption, BoundAssumption DEF TypeOK, Ids
  <2>3. PICK j \in 0 .. sentId + (MaxHb - hbLeft) :
          ulIter = j % IterMod /\ \A i \in Ids : \A x \in frags[i] : x < j
    BY DEF HeardInv, Counted
  <2>4. ulIter = j /\ j < IterMod /\ Wrap(ulIter) = j
    <3>1. j < IterMod /\ j \in Nat
      BY <2>1, <2>2, <2>3, IterAssumption DEF OneLap
    <3>2. j % IterMod = j
      BY <3>1, IterAssumption
    <3>3. QED BY <2>3, <3>1, <3>2 DEF Wrap
  <2>5. /\ \A i \in Ids : i # id => /\ ul'[i] = ul[i] /\ frags'[i] = frags[i]
                                    /\ i \in confirm' <=> i \in confirm
        /\ ul'[id].st = "QUEUED" /\ frags'[id] = IF k = 0 THEN {} ELSE {j}
        /\ id \in confirm' => Asks(flags)
        /\ Asks(flags) => id \in confirm'
    <3>1. id \notin confirm
      BY <2>2 DEF HeardInv, Begun
    <3> HIDE DEF id
    <3>2. QED BY <1>1, <2>1, <2>2, <2>4, <3>1 DEF TypeOK
  <2>6. Counted(ulIter', sentId' + (MaxHb - hbLeft'), frags')
    <3>1. ulIter' = (j + k) % IterMod
      BY <2>1, <2>4 DEF Wrap
    <3>2. j + k \in 0 .. sentId' + (MaxHb - hbLeft')
      BY <1>2, <2>1, <2>2
    <3>3. ASSUME NEW i \in Ids, NEW x \in frags'[i] PROVE x < j + k
      <4>1. CASE i = id
        BY <2>5, <3>3, <4>1
      <4>2. CASE i # id
        <5>1. x \in frags[i]
          BY <2>5, <3>3, <4>2
        <5>2. x < j
          BY <2>3, <5>1
        <5>3. x \in Iters
          BY <1>1, <5>1 DEF TypeOK
        <5>4. QED BY <5>2, <5>3, IterAssumption DEF Iters
      <4>3. QED BY <4>1, <4>2
    <3>4. QED BY <3>1, <3>2, <3>3 DEF Counted
  <2>7. Apart(frags')
    <3>1. \A i \in Ids : j \notin frags[i]
      BY <2>3
    <3>2. ASSUME NEW i \in Ids, NEW l \in Ids, i # l PROVE frags'[i] \cap frags'[l] = {}
      <4>1. CASE i = id
        BY <2>5, <3>1, <3>2, <4>1
      <4>2. CASE l = id
        BY <2>5, <3>1, <3>2, <4>2
      <4>3. CASE i # id /\ l # id
        BY <2>5, <3>2, <4>3 DEF HeardInv, Apart
      <4>4. QED BY <4>1, <4>2, <4>3
    <3>3. QED BY <3>2 DEF Apart
  <2>8. Begun(ul', sentId', frags', confirm', heard')
    <3>1. ASSUME NEW i \in Ids
          PROVE /\ i > id => /\ frags'[i] = {} /\ i \notin confirm'
                             /\ \A x \in Iters : <<i, x>> \notin heard
                /\ i <= id => ul'[i].st # "NOTEXIST"
      <4>1. CASE i = id
        BY <2>2, <2>5, <4>1
      <4>2. CASE i # id
        <5>1. (i > id => i > sentId) /\ (i <= id => i <= sentId)
          BY <2>2, <4>2 DEF Ids
        <5> HIDE DEF id
        <5>2. QED BY <2>5, <4>2, <5>1 DEF HeardInv, Begun
      <4>3. QED BY <4>1, <4>2
    <3>2. QED BY <1>2, <2>1, <3>1 DEF Begun
  <2>9. RingHolds(ring', frags', confirm')
    <3>1. RingHolds(ring, frags, confirm) /\ RingLined(ring, active, oldState, ul, sentId)
      BY DEF HeardInv, LinedInv
    <3>2. ASSUME NEW c \in Slots PROVE Holds(ring'.pkt[c], frags', confirm')
      <4>1. CASE Same(ring.pkt[c], ring'.pkt[c]) /\ ring'.pkt[c].id # 0
        <5>1. /\ ring'.pkt[c].id = ring.pkt[c].id /\ ring'.pkt[c].hs = ring.pkt[c].hs
              /\ ring'.pkt[c].iter = ring.pkt[c].iter
          BY <4>1 DEF Same
        <5>2. ring.pkt[c].id <= sentId
          BY <3>1, <4>1, <5>1 DEF RingLined, PktLined
        <5>3. ring.pkt[c].id \in Nat
          BY <1>1, RingPkt, CellFacts DEF TypeOK, Packet
        <5>4. ring.pkt[c].id \in Ids /\ ring.pkt[c].id # id
          BY <2>2, <4>1, <5>1, <5>2, <5>3 DEF Ids
        <5>5. Holds(ring.pkt[c], frags, confirm)
          BY <3>1 DEF RingHolds
        <5> HIDE DEF id
        <5>6. QED BY <2>5, <5>1, <5>4, <5>5 DEF Holds
      <4>2. CASE k = 1 /\ ring'.pkt[c].id = id /\ ring'.pkt[c].hs = Asks(flags)
                 /\ ring'.pkt[c].iter = Wrap(ulIter)
        <5> HIDE DEF id
        <5> QED BY <2>4, <2>5, <4>2 DEF Holds
      <4>3. CASE ring'.pkt[c].id = 0
        BY <4>3 DEF Holds
      <4> HIDE DEF id
      <4>4. QED BY <2>1, <4>1, <4>2, <4>3
    <3>3. QED BY <3>2 DEF RingHolds
  <2>10. ReplyTrue(station'.reply, frags', heard')
    <3>1. ASSUME station.reply.type = "ACK"
          PROVE \E i \in Ids : frags'[i] = {station.reply.iter}
                               /\ <<i, station.reply.iter>> \in heard
      <4>1. PICK i \in Ids : frags[i] = {station.reply.iter} /\ <<i, station.reply.iter>> \in heard
        BY <3>1 DEF HeardInv, ReplyTrue
      <4>2. i # id
        BY <2>2, <4>1 DEF HeardInv, Begun
      <4>3. QED BY <2>5, <4>1, <4>2
    <3>2. QED BY <1>2, <3>1 DEF ReplyTrue
  <2> HIDE DEF id
  <2>11. ASSUME NEW i \in Ids
         PROVE /\ i = id => ~Complete(i) /\ ~Complete(i)'
               /\ i # id => (Complete(i)' <=> Complete(i))
    <3>1. i % IdMod = i
      BY <1>1, SmallId
    <3>2. CASE i = id
      <4>1. frags[i] = {} /\ (\A x \in Iters : <<i, x>> \notin heard) /\ frags'[i] \subseteq Iters
        BY <2>2, <3>2 DEF HeardInv, Begun, TypeOK
      <4>2. QED BY <1>2, <3>1, <3>2, <4>1 DEF Complete
    <3>3. CASE i # id
      BY <1>2, <2>5, <3>3 DEF Complete
    <3>4. QED BY <3>2, <3>3
  <2>12. DeliveredIsComplete'
    <3>1. ASSUME NEW i \in confirm', ul'[i].st = "DELIVERED" PROVE Complete(i)'
      <4>1. i \in Ids
        BY DEF TypeOK
      <4>2. i # id /\ i \in confirm /\ ul[i].st = "DELIVERED"
        BY <2>5, <3>1, <4>1
      <4>3. Complete(i)
        BY <4>2 DEF HeardInv, DeliveredIsComplete
      <4>4. QED BY <2>11, <4>1, <4>2, <4>3
    <3>2. QED BY <3>1 DEF DeliveredIsComplete
  <2>13. ServiceStep
    <3> DEFINE vd(i) == Judged(ul[i].st)
               vn(i) == Judged(ul'[i].st)
    <3>1. \A i \in Ids : Verdict(i) = vd(i) /\ Verdict(i)' = vn(i)
      BY <1>1, VerdictJudged
    <3>2. /\ vd(id) = "NOTEXIST" /\ vn(id) = "PENDING"
          /\ \A i \in Ids : i # id => vn(i) = vd(i)
      <4>1. ul[id].st = "NOTEXIST"
        BY <1>1, <2>2 DEF LinedInv, ToldLined
      <4>2. QED BY <2>2, <2>5, <4>1 DEF Judged, Open
    <3>3. \A i \in Ids : i < id => vd(i) # "NOTEXIST"
      <4>1. ASSUME NEW i \in Ids, i < id PROVE vd(i) # "NOTEXIST"
        <5>1. i <= sentId
          BY <2>2, <4>1 DEF id, Ids
        <5>2. ul[i].st # "NOTEXIST"
          BY <5>1 DEF HeardInv, Begun
        <5>3. QED BY <5>2 DEF Judged
      <4>2. QED BY <4>1
    <3>4. confirm' \in {confirm, confirm \cup {id}}
      BY <2>1
    <3> HIDE DEF vd, vn
    <3>5. Service!Submit(id)
      BY <2>2, <2>11, <3>1, <3>2, <3>3, <3>4 DEF Service!Submit
    <3>6. QED BY <2>2, <3>5 DEF ServiceStep, Service!Next
  <2>14. QED BY <1>1, <2>6, <2>7, <2>8, <2>9, <2>10, <2>12, <2>13 DEF HeardInv
<1>5. QED BY <1>3, <1>4
-----------------------------------------------------------------------------
\* The heartbeat takes an ITER of its own.
LEMMA HeartBeatHeard ==
    ASSUME OneLap, HeardInv, TypeOK', LinedInv', HeartBeat
    PROVE HeardInv' /\ ServiceStep
<1>1. TypeOK /\ Kept(ring, ring')
  BY HeartBeatStill, KeptStill DEF HeardInv, LinedInv
<1>2. /\ UNCHANGED <<sentId, ul, station, frags, confirm, heard>>
      /\ hbLeft' = hbLeft - 1 /\ hbLeft > 0
      /\ ulIter' = ulIter \/ ulIter' = Wrap(ulIter + 1)
  BY DEF HeartBeat, histVars
<1>3. /\ sentId \in 0 .. MaxMsgs /\ MaxMsgs \in Nat /\ hbLeft \in 0 .. MaxHb /\ MaxHb \in Nat
  BY <1>1, StatAssumption, BoundAssumption DEF TypeOK
<1>4. PICK j \in 0 .. sentId + (MaxHb - hbLeft) :
        ulIter = j % IterMod /\ \A i \in Ids : \A x \in frags[i] : x < j
  BY DEF HeardInv, Counted
<1>5. j < IterMod /\ j % IterMod = j
  <2>1. j < IterMod /\ j \in Nat
    BY <1>2, <1>3, <1>4, IterAssumption DEF OneLap
  <2>2. QED BY <2>1, IterAssumption
<1>6. Counted(ulIter', sentId + (MaxHb - hbLeft'), frags)
  <2>1. CASE ulIter' = ulIter
    <3>1. j \in 0 .. sentId + (MaxHb - hbLeft')
      BY <1>2, <1>3
    <3>2. QED BY <1>4, <2>1, <3>1 DEF Counted
  <2>2. CASE ulIter' = Wrap(ulIter + 1)
    <3>1. j + 1 \in 0 .. sentId + (MaxHb - hbLeft')
      BY <1>2, <1>3
    <3>2. ulIter' = (j + 1) % IterMod
      BY <1>4, <1>5, <2>2 DEF Wrap
    <3>3. ASSUME NEW i \in Ids, NEW x \in frags[i] PROVE x < j + 1
      <4>1. x \in Iters
        BY <1>1, <3>3 DEF TypeOK
      <4>2. QED BY <1>4, <3>3, <4>1, IterAssumption DEF Iters
    <3>4. QED BY <3>1, <3>2, <3>3 DEF Counted
  <2>3. QED BY <1>2, <2>1, <2>2
<1>7. ReplyTrue(station'.reply, frags, heard)
  BY <1>2 DEF HeardInv
<1>8. QED BY <1>1, <1>2, <1>6, <1>7, HeardQuiet

\* The steps that change neither a message nor what the station knows.
LEMMA HeardStill ==
    ASSUME HeardInv, TypeOK', LinedInv', Kept(ring, ring'),
           \A id \in Ids : ul'[id].st = ul[id].st,
           UNCHANGED <<sentId, ulIter, hbLeft, station, frags, confirm, heard>>
    PROVE HeardInv' /\ ServiceStep
BY HeardQuiet DEF HeardInv, LinedInv

LEMMA HeardNext ==
    ASSUME OneLap, HeardInv, [Next]_vars PROVE HeardInv' /\ ServiceStep
<1>0. /\ TypeOK /\ TypeOK' /\ LinedInv' /\ ring \in Ring
      /\ LinedInv
  BY LinedNext, TypeOKNext DEF HeardInv, LinedInv, OneLap, TypeOK
<1>1. CASE UNCHANGED vars
  BY <1>0, <1>1, StillRefl, KeptStill, HeardStill DEF vars, devVars, histVars
<1>2. ASSUME NEW len \in Lengths, NEW flags \in FlagSets, Send5(len, flags)
      PROVE HeardInv' /\ ServiceStep
  BY <1>0, <1>2, Send5Heard
<1>3. CASE SendNext
  BY <1>0, <1>3, SendNextHeard
<1>4. CASE ArmTimer
  BY <1>0, <1>4, StillRefl, KeptStill, HeardStill DEF ArmTimer, histVars
<1>5. CASE ProcessOff
  BY <1>0, <1>5, ClearTxStill, KeptStill, HeardStill DEF ProcessOff, histVars
<1>6. CASE TxFinished
  BY <1>0, <1>6, SweepStill, StillRefl, KeptStill, HeardStill DEF TxFinished, histVars
<1>7. CASE ReceiveTimeout
  BY <1>0, <1>7, ReceiveTimeoutHeard
<1>8. CASE RxAck
  BY <1>0, <1>8, RxAckHeard
<1>9. ASSUME NEW answer \in BOOLEAN, NEW ack \in BOOLEAN, RxSystem(answer, ack)
      PROVE HeardInv' /\ ServiceStep
  <2>1. Kept(ring, ring')
    BY <1>0, <1>9, RxSystemShape, KeptRestored, KeptStill, KeptTrans
  <2>2. UNCHANGED <<ul, sentId, ulIter, hbLeft, station, frags, confirm, heard>>
    BY <1>9 DEF RxSystem, histVars
  <2>3. QED BY <1>0, <2>1, <2>2, HeardStill
<1>10. ASSUME NEW ack \in BOOLEAN, NEW multi \in BOOLEAN, NEW repeated \in BOOLEAN,
              RxMessage(ack, multi, repeated)
       PROVE HeardInv' /\ ServiceStep
  <2>1. Kept(ring, ring')
    BY <1>0, <1>10, RxMessageKept
  <2>2. UNCHANGED <<ul, sentId, ulIter, hbLeft, station, frags, confirm, heard>>
    BY <1>10, Zenon DEF RxMessage, histVars
  <2>3. QED BY <1>0, <2>1, <2>2, HeardStill
<1>11. CASE WaitExtraTimeout
  <2> DEFINE r == Restored(ring)
  <2>1. /\ r \in Ring /\ ring' = Sweep(r, active) /\ Kept(ring, r)
        /\ UNCHANGED <<ul, sentId, ulIter, hbLeft, station, frags, confirm, heard>>
    BY <1>0, <1>11, RestoredType, KeptRestored DEF WaitExtraTimeout, TypeOK, histVars
  <2> HIDE DEF r
  <2>2. Kept(ring, ring')
    BY <2>1, SweepStill, KeptStill, KeptTrans
  <2>3. QED BY <1>0, <2>1, <2>2, HeardStill
<1>12. CASE WaitClearTimeout
  BY <1>0, <1>12, StillRefl, KeptStill, HeardStill DEF WaitClearTimeout, histVars
<1>13. CASE HeartBeat
  BY <1>0, <1>13, HeartBeatHeard
<1>14. CASE ReportStatus
  <2>1. PICK id \in Ids : ul' = [ul EXCEPT ![id].rep = TRUE]
    BY <1>14 DEF ReportStatus
  <2>2. \A i \in Ids : ul'[i].st = ul[i].st
    BY <1>0, <2>1 DEF TypeOK
  <2>3. UNCHANGED <<ring, sentId, ulIter, hbLeft, station, frags, confirm, heard>>
    BY <1>14 DEF ReportStatus
  <2>4. QED BY <1>0, <2>2, <2>3, StillRefl, KeptStill, HeardStill
<1>15. CASE GoToSleep
  BY <1>0, <1>15, ClearTxStill, KeptStill, HeardStill DEF GoToSleep, histVars
<1>16. CASE WakeUp
  BY <1>0, <1>16, WakeUpStill, KeptStill, HeardStill DEF WakeUp, histVars
<1>17. QED
  BY <1>1, <1>2, <1>3, <1>4, <1>5, <1>6, <1>7, <1>8, <1>9, <1>10, <1>11, <1>12,
     <1>13, <1>14, <1>15, <1>16 DEF Next

LEMMA HeardInit == Init => HeardInv
<1>1. SUFFICES ASSUME Init PROVE HeardInv
  OBVIOUS
<1>2. LinedInv
  BY <1>1, LinedInit
<1>3. /\ sentId = 0 /\ hbLeft = MaxHb /\ ulIter = 0 /\ station.reply = NoReply
      /\ \A id \in Ids : frags[id] = {} /\ ul[id].st = "NOTEXIST"
      /\ confirm = {} /\ heard = {}
  BY <1>1 DEF Init
<1>4. Counted(ulIter, sentId + (MaxHb - hbLeft), frags)
  <2>1. 0 \in 0 .. sentId + (MaxHb - hbLeft) /\ 0 % IterMod = 0
    BY <1>3, BoundAssumption, IterAssumption
  <2>2. QED BY <1>3, <2>1 DEF Counted
<1>5. Begun(ul, sentId, frags, confirm, heard)
  BY <1>3 DEF Begun, Ids
<1>6. RingHolds(ring, frags, confirm)
  <2>1. EmptyRing \in Ring /\ SendSync(EmptyRing, 0) \in Ring
    BY EmptyRingType, SendSyncType DEF Iters
  <2>2. StillRing(EmptyRing, ring)
    BY <1>1, <2>1, SendSyncStill, SendClearStill, StillTrans, StillRefl DEF Init
  <2>3. RingHolds(EmptyRing, frags, confirm)
    BY CellFacts DEF RingHolds, Holds, EmptyRing, FreePkt
  <2>4. QED BY <2>2, <2>3, KeptStill, KeptHolds
<1>7. QED
  BY <1>2, <1>3, <1>4, <1>5, <1>6
     DEF HeardInv, Apart, ReplyTrue, NoReply, DeliveredIsComplete

\* A message sent with a handshake is called DELIVERED only when the base
\* station has it, however acknowledgements, timeouts, downlinks and the
\* stack's own packets are interleaved: an ACK that comes late is never taken
\* for the ACK of a later message (NBFi_Resend_Pkt, "all packets delivered").
\* It needs that no ITER is used twice.
THEOREM DeliveredIsTrue == ASSUME OneLap PROVE Spec => []DeliveredIsComplete
<1>1. Init => HeardInv
  BY HeardInit
<1>2. HeardInv /\ [Next]_vars => HeardInv'
  BY HeardNext
<1>3. HeardInv => DeliveredIsComplete
  BY DEF HeardInv
<1>4. QED BY <1>1, <1>2, <1>3, PTL DEF Spec

\* The transmit side implements the service of UlService: a message is
\* accepted once, gets at most one verdict, which is never taken back, and a
\* message with a handshake ends DELIVERED only when the station has it and
\* LOST only if it asked for an ACK.
THEOREM TxImplementsService == ASSUME OneLap PROVE Spec => ServiceSpec
<1>1. Init => HeardInv
  BY HeardInit
<1>2. HeardInv /\ [Next]_vars => HeardInv' /\ [Service!Next]_(Service!svcVars)
  BY HeardNext DEF ServiceStep
<1>3. Init => Service!Init
  <2>1. SUFFICES ASSUME Init PROVE Service!Init
    OBVIOUS
  <2>2. \A id \in Ids : ul[id].st = "NOTEXIST" /\ frags[id] = {}
    BY <2>1 DEF Init
  <2>3. ASSUME NEW id \in Ids PROVE Verdict(id) = "NOTEXIST" /\ ~Complete(id)
    <3>1. ~Undecided(id) /\ ~Complete(id)
      BY <2>2 DEF Undecided, Complete
    <3>2. Verdict(id) = "NOTEXIST"
      BY <2>2, <3>1 DEF Verdict
    <3>3. QED BY <3>1, <3>2
  <2>4. confirm = {}
    BY <2>1 DEF Init
  <2>5. QED BY <2>3, <2>4 DEF Service!Init
<1>4. QED BY <1>1, <1>2, <1>3, PTL DEF Spec, ServiceSpec, Service!Spec
-----------------------------------------------------------------------------
(***************************************************************************)
(* Part 5.  No packet is sent more often than the retry limit allows, as   *)
(* long as no downlink message interferes.  "sent" counts transmissions,   *)
(* retry is counted by the timeout and by the walk over an ACK, and the    *)
(* searches of the ring requeue a waiting packet without counting it: the  *)
(* invariant shows that they never find one, because only the active       *)
(* packet waits for its ACK.                                               *)
(***************************************************************************)
NoDownlinks == MaxDl = 0 /\ "requeue" \notin LossPolicies

PktBounded(p, isActive) ==
    /\ p.sent <= MaxRetry + 1 /\ p.sent <= p.retry + 1
    /\ p.st # "WAIT_FOR_EXTRA_PACKETS"
    /\ p.st = "WAIT_ACK" => isActive
    /\ p.st = "QUEUED" => p.sent = 0
    /\ p.st = "QUEUED_AGAIN" => p.sent <= p.retry /\ p.retry <= MaxRetry
    /\ p.st = "NEED_TO_SEND_RIGHT_NOW" => p.sent = 0 /\ ~p.hs

RingBounded(r, a) == \A c \in Cells : PktBounded(r.pkt[c], c = a)

BoundedInv ==
    /\ TypeOK
    /\ RingBounded(ring, active)
    /\ ReplyHolds
    /\ dlLeft = 0

\* Neither the state nor the counts depend on the other fields.
LEMMA BoundedAs ==
    ASSUME NEW p, NEW q, NEW act, PktBounded(p, act), q.st = p.st, q.hs = p.hs,
           q.retry = p.retry, q.sent = p.sent
    PROVE PktBounded(q, act)
BY DEF PktBounded

\* The searches find no packet that waits for an ACK and is not active.
LEMMA SweepBounded ==
    ASSUME NEW r \in Ring, NEW a \in Cells, RingBounded(r, a)
    PROVE /\ Sweep(r, a) = r /\ CountSweep(r, a) = r /\ LookAtQueue(r, a) = r
<1>1. ASSUME NEW s, s # a PROVE Requeue(r, s) = r
  <2>1. s \in Slots => r.pkt[s].st # "WAIT_ACK"
    BY <1>1, CellFacts DEF RingBounded, PktBounded
  <2>2. QED BY <2>1 DEF Requeue
<1>2. ASSUME NEW s, s = a PROVE Requeue(r, s) = r \/ r.pkt[s].st = "WAIT_ACK"
  BY DEF Requeue
<1>3. Queued(r, a) = a => r.pkt[a].st # "WAIT_ACK"
  <2>1. \A S : Oldest(r.head, S) # None => Oldest(r.head, S) \in S
    BY OldestIn
  <2>2. a # None
    BY DEF Cells, Slots, Idle, None
  <2>3. CASE Urgent(r) # {}
    BY <2>1, <2>2, <2>3 DEF Queued, Urgent, InState
  <2>4. CASE Urgent(r) = {} /\ Again(r) # {}
    BY <2>1, <2>2, <2>4 DEF Queued, Again, InState
  <2>5. CASE Urgent(r) = {} /\ Again(r) = {}
    <3>1. Queued(r, a) = Oldest(r.head, Fresh(r, a))
      BY <2>5 DEF Queued
    <3>2. Queued(r, a) = a => a \in Fresh(r, a)
      BY <2>1, <2>2, <3>1
    <3>3. QED BY <3>2 DEF Fresh, InState
  <2>6. QED BY <2>3, <2>4, <2>5
<1>4. Sweep(r, a) = r
  <2> DEFINE s == Queued(r, a)
  <2> HIDE DEF s
  <2>1. Requeue(r, s) = r
    BY <1>1, <1>2, <1>3 DEF s
  <2>2. QED BY <2>1 DEF Sweep, s
<1>5. CountSweep(r, a) = r
  BY <1>1 DEF CountSweep
<1>6. QED BY <1>4, <1>5 DEF LookAtQueue

\* One packet changes, and perhaps another one becomes active.
LEMMA BoundedSet ==
    ASSUME NEW r \in Ring, NEW s \in Cells, NEW p, NEW a, RingBounded(r, a),
           PktBounded(p, s = a)
    PROVE RingBounded(SetPkt(r, s, p), a)
<1>1. \A c \in Cells : SetPkt(r, s, p).pkt[c] = IF c = s THEN p ELSE r.pkt[c]
  BY DEF SetPkt, Ring
<1>2. QED BY <1>1 DEF RingBounded

LEMMA BoundedMoved ==
    ASSUME NEW r, NEW a, NEW b, RingBounded(r, a), r.pkt[a].st # "WAIT_ACK" \/ a = b
    PROVE RingBounded(r, b)
BY DEF RingBounded, PktBounded

\* A packet of the stack itself, not on the air yet.
OwnBounded(p) ==
    /\ p.sent = 0 /\ p.retry = 0
    /\ p.st \in {"QUEUED", "NEED_TO_SEND_RIGHT_NOW"}
    /\ p.st = "NEED_TO_SEND_RIGHT_NOW" => ~p.hs

LEMMA OwnIsBounded ==
    ASSUME NEW p, OwnBounded(p), NEW act PROVE PktBounded(p, act)
<1>1. MaxRetry \in Int /\ 0 <= MaxRetry
  OBVIOUS
<1>2. QED BY <1>1 DEF OwnBounded, PktBounded

LEMMA FreeIsBounded == ASSUME NEW act PROVE PktBounded(FreePkt, act)
<1>1. MaxRetry \in Int /\ 0 <= MaxRetry
  OBVIOUS
<1>2. QED BY <1>1 DEF FreePkt, PktBounded

LEMMA SysPktBounded ==
    ASSUME NEW kind, NEW i PROVE OwnBounded(SysPkt(kind, "NEED_TO_SEND_RIGHT_NOW", i))
BY DEF OwnBounded, SysPkt, FreePkt

LEMMA AllocBounded ==
    ASSUME NEW r \in Ring, NEW p, OwnBounded(p), NEW a, RingBounded(r, a)
    PROVE RingBounded(Alloc(r, p), a)
<1>1. r.head \in Slots /\ r.head \in Cells
  BY CellFacts DEF Ring
<1>2. CASE CanAlloc(r)
  <2>1. \A c \in Cells : Alloc(r, p).pkt[c] = IF c = r.head THEN p ELSE r.pkt[c]
    BY <1>1, <1>2 DEF Alloc, Ring
  <2>2. QED BY <2>1, OwnIsBounded DEF RingBounded
<1>3. CASE ~CanAlloc(r)
  BY <1>3 DEF Alloc
<1>4. QED BY <1>2, <1>3

LEMMA SendSyncBounded ==
    ASSUME NEW r \in Ring, NEW i, NEW a, RingBounded(r, a)
    PROVE RingBounded(SendSync(r, i), a)
<1> DEFINE f == [c \in Cells |-> IF c \in SysQueued(r, "SYNC") THEN FreePkt ELSE r.pkt[c]]
           q == [r EXCEPT !.pkt = f]
<1>1. f \in [Cells -> Packet]
  BY RingPkt, FreePktType
<1>2. q \in Ring /\ q.pkt = f
  <2> HIDE DEF f
  <2> QED BY <1>1, PktsType DEF Ring
<1>3. RingBounded(q, a)
  <2>1. \A c \in Cells : f[c] = FreePkt \/ f[c] = r.pkt[c]
    OBVIOUS
  <2> HIDE DEF f, q
  <2>2. QED BY <1>2, <2>1, FreeIsBounded DEF RingBounded
<1>4. SendSync(r, i) = Alloc(q, SysPkt("SYNC", "NEED_TO_SEND_RIGHT_NOW", i))
  BY DEF SendSync
<1> HIDE DEF q
<1>5. QED BY <1>2, <1>3, <1>4, SysPktBounded, AllocBounded

LEMMA SendClearBounded ==
    ASSUME NEW r \in Ring, NEW i, NEW a, RingBounded(r, a)
    PROVE RingBounded(SendClear(r, i), a)
BY SysPktBounded, AllocBounded DEF SendClear

LEMMA AfterLossBounded ==
    ASSUME NEW r \in Ring, NEW policy, NEW a, RingBounded(r, a)
    PROVE RingBounded(AfterLoss(r, policy), a)
BY SendSyncBounded DEF AfterLoss

LEMMA CloseActiveBounded ==
    ASSUME NEW r \in Ring, NEW a, RingBounded(r, a)
    PROVE RingBounded(CloseActive(r, a), a)
<1>1. ASSUME NEW c \in Cells PROVE PktBounded(CloseActive(r, a).pkt[c], c = a)
  <2> DEFINE p == r.pkt[c]
             m == CloseActive(r, a).pkt[c]
  <2>1. p \in Packet /\ PktBounded(p, c = a)
    BY RingPkt DEF RingBounded
  <2>2. m = p \/ m = [p EXCEPT !.st = "LOST"]
    BY CloseActiveShape
  <2> HIDE DEF m, p
  <2>3. CASE m = p
    BY <2>1, <2>3 DEF m
  <2>4. CASE m = [p EXCEPT !.st = "LOST"]
    <3>1. m.st = "LOST" /\ m.sent = p.sent /\ m.retry = p.retry
      BY <2>1, <2>4 DEF Packet
    <3>2. QED BY <2>1, <3>1 DEF PktBounded, m
  <2>5. QED BY <2>2, <2>3, <2>4
<1>2. QED BY <1>1 DEF RingBounded

LEMMA AskAgainBounded ==
    ASSUME NEW r \in Ring, NEW a, NEW s \in Cells, RingBounded(r, a)
    PROVE RingBounded(AskAgain(r, a, s), a)
<1> DEFINE m == (r.pkt[a].mack - ((r.pkt[a].iter - r.pkt[s].iter) % IterMod)) % 64
           q == AskAgain(r, a, s)
<1>1. \A c \in Cells : q.pkt[c] = IF c = s THEN [r.pkt[s] EXCEPT !.ack = TRUE, !.mack = m]
                                  ELSE r.pkt[c]
  BY DEF AskAgain, Ring
<1> HIDE DEF m
<1>2. ASSUME NEW c \in Cells PROVE PktBounded(q.pkt[c], c = a)
  <2>1. /\ q.pkt[c].st = r.pkt[c].st /\ q.pkt[c].hs = r.pkt[c].hs
        /\ q.pkt[c].retry = r.pkt[c].retry /\ q.pkt[c].sent = r.pkt[c].sent
    <3>1. r.pkt[c] \in Packet
      BY RingPkt
    <3>2. q.pkt[c] = r.pkt[c] \/ q.pkt[c] = [r.pkt[c] EXCEPT !.ack = TRUE, !.mack = m]
      BY <1>1
    <3> HIDE DEF q
    <3> QED BY <3>1, <3>2 DEF Packet
  <2>2. PktBounded(r.pkt[c], c = a)
    BY DEF RingBounded
  <2> HIDE DEF q
  <2>3. QED BY <2>1, <2>2, BoundedAs
<1>3. QED BY <1>2 DEF RingBounded, q

\* The walk over the ACK's window requeues only what may be sent once more,
\* and never the active packet.
LEMMA MarkedBounded ==
    ASSUME NEW r \in Ring, NEW a \in Cells, NEW has, r.pkt[a].iter \in has,
           RingBounded(r, a)
    PROVE RingBounded(Marked(r, a, has), a)
<1>1. ASSUME NEW c \in Cells PROVE PktBounded(Marked(r, a, has).pkt[c], c = a)
  <2> DEFINE p == r.pkt[c]
             m == Marked(r, a, has).pkt[c]
  <2>1. p \in Packet /\ PktBounded(p, c = a)
    BY RingPkt DEF RingBounded
  <2>2. WalkMakes(p, m, c = a)
    BY MarkedShape
  <2>3. m.st = "QUEUED_AGAIN" => m = p \/ p.retry + 1 <= MaxRetry
    <3>1. m = IF \E k \in Absent(r, a, has) : At(r, a, k) = c
              THEN [p EXCEPT !.st = "QUEUED_AGAIN", !.retry = @ + 1]
              ELSE IF \E k \in Walked(r, a, has) : At(r, a, k) = c
              THEN [p EXCEPT !.st = "DELIVERED"]
              ELSE IF \E k \in GivenUp(r, a, has) : At(r, a, k) = c
              THEN [p EXCEPT !.retry = @ + 1]
              ELSE p
      BY DEF Marked, Ring
    <3>2. ASSUME NEW k \in Absent(r, a, has), At(r, a, k) = c
          PROVE p.retry + 1 <= MaxRetry
      <4>1. k \in Walked(r, a, has) /\ Missing(r, a, has, k)
        BY DEF Absent
      <4>2. k \notin Stops(r, a, has) /\ k \in AckWindow(r, a)
        <5>1. k \in AckWindow(r, a) /\ \A j \in Stops(r, a, has) : k < j
          BY <4>1 DEF Walked
        <5>2. ~(k < k)
          BY <5>1 DEF AckWindow
        <5>3. QED BY <5>1, <5>2
      <4>3. ~WornOut(r, a, has, k)
        BY <4>2 DEF Stops
      <4>4. ~(p.retry + 1 > MaxRetry)
        BY <3>2, <4>1, <4>3 DEF WornOut
      <4> HIDE DEF p
      <4>5. p.retry \in Nat /\ MaxRetry \in Int
        BY <2>1 DEF Packet
      <4>6. QED BY <4>4, <4>5
    <3>3. ASSUME NEW k \in GivenUp(r, a, has), At(r, a, k) = c
          PROVE p.st # "QUEUED_AGAIN"
      <4>1. p.st \in OnAir
        BY <3>3, AtOnAir DEF GivenUp
      <4>2. QED BY <4>1 DEF OnAir
    <3> HIDE DEF m
    <3>4. CASE \E k \in Absent(r, a, has) : At(r, a, k) = c
      BY <3>2, <3>4
    <3>5. CASE /\ ~\E k \in Absent(r, a, has) : At(r, a, k) = c
               /\ \E k \in Walked(r, a, has) : At(r, a, k) = c
      <4>1. m = [p EXCEPT !.st = "DELIVERED"]
        BY <3>1, <3>5
      <4>2. m.st = "DELIVERED"
        BY <2>1, <4>1 DEF Packet
      <4>3. QED BY <4>2
    <3>6. CASE /\ ~\E k \in Absent(r, a, has) : At(r, a, k) = c
               /\ ~\E k \in Walked(r, a, has) : At(r, a, k) = c
               /\ \E k \in GivenUp(r, a, has) : At(r, a, k) = c
      <4>1. m = [p EXCEPT !.retry = @ + 1] /\ p.st # "QUEUED_AGAIN"
        BY <3>1, <3>3, <3>6
      <4>2. m.st = p.st
        BY <2>1, <4>1 DEF Packet
      <4>3. QED BY <4>1, <4>2
    <3>7. CASE /\ ~\E k \in Absent(r, a, has) : At(r, a, k) = c
               /\ ~\E k \in Walked(r, a, has) : At(r, a, k) = c
               /\ ~\E k \in GivenUp(r, a, has) : At(r, a, k) = c
      BY <3>1, <3>7
    <3>8. QED BY <3>4, <3>5, <3>6, <3>7
  <2> HIDE DEF m, p
  <2>4. p.retry \in Nat /\ p.sent \in Int /\ MaxRetry \in Int
    BY <2>1 DEF Packet
  <2>5. CASE m = p
    BY <2>1, <2>5 DEF m
  <2>6. CASE m = [p EXCEPT !.st = "DELIVERED"]
    <3>1. m.st = "DELIVERED" /\ m.sent = p.sent /\ m.retry = p.retry
      BY <2>1, <2>6 DEF Packet
    <3>2. PktBounded(m, c = a)
      BY <2>1, <3>1 DEF PktBounded
    <3>3. QED BY <3>2 DEF m
  <2>7. CASE p.st \in OnAir /\ m = [p EXCEPT !.st = "QUEUED_AGAIN", !.retry = @ + 1]
    <3>1. m.st = "QUEUED_AGAIN" /\ m.sent = p.sent /\ m.retry = p.retry + 1
      BY <2>1, <2>7 DEF Packet
    <3>2. m # p
      BY <2>7, <3>1 DEF OnAir
    <3>3. p.retry + 1 <= MaxRetry
      BY <2>3, <3>1, <3>2
    <3>4. PktBounded(m, c = a)
      BY <2>1, <2>4, <3>1, <3>3 DEF PktBounded
    <3>5. QED BY <3>4 DEF m
  <2>8. CASE p.st \in OnAir /\ m = [p EXCEPT !.retry = @ + 1]
    <3>1. m.st = p.st /\ m.sent = p.sent /\ m.retry = p.retry + 1
      BY <2>1, <2>8 DEF Packet
    <3>2. PktBounded(m, c = a)
      BY <2>1, <2>4, <2>8, <3>1 DEF PktBounded, OnAir
    <3>3. QED BY <3>2 DEF m
  <2>9. QED BY <2>2, <2>5, <2>6, <2>7, <2>8 DEF WalkMakes
<1>2. QED BY <1>1 DEF RingBounded

LEMMA ResendBounded ==
    ASSUME TypeOK, NEW r \in Ring, NEW has, NEW policy, RingBounded(r, active),
           r.pkt[active].iter \in has
    PROVE RingBounded(Resend(r, active, has, policy).ring, active)
<1> DEFINE mk == Marked(r, active, has)
           cl == CloseActive(mk, active)
           r1 == IF GivenUp(r, active, has) = {} THEN mk ELSE AfterLoss(cl, policy)
           u1 == GaveUpStatus(r, active, has, ul)
           k0 == FirstAbsent(r, active, has)
           r2 == IF LeftOver(r, active, has) = {} THEN SendClear(r1, r1.pkt[active].iter)
                 ELSE r1
<1>1. active \in Cells /\ ulIter \in Iters
  BY DEF TypeOK
<1>2. mk \in Ring /\ RingBounded(mk, active)
  BY <1>1, MarkedType, MarkedBounded
<1>3. r1 \in Ring /\ RingBounded(r1, active)
  <2> HIDE DEF mk
  <2>1. cl \in Ring /\ RingBounded(cl, active)
    BY <1>1, <1>2, CloseActiveType, CloseActiveBounded
  <2> HIDE DEF cl
  <2>2. AfterLoss(cl, policy) \in Ring /\ RingBounded(AfterLoss(cl, policy), active)
    BY <1>1, <2>1, AfterLossType, AfterLossBounded
  <2>3. QED BY <1>2, <2>2
<1>4. RingBounded(r2, active)
  <2> HIDE DEF r1
  <2> QED BY <1>3, SendClearBounded
<1>5. CASE k0 # None
  <2> DEFINE s == At(r, active, k0)
  <2>1. Resend(r, active, has, policy).ring = AskAgain(r1, active, s)
    BY <1>5 DEF Resend
  <2>2. k0 \in Walked(r, active, has)
    <3>1. k0 \in Absent(r, active, has)
      BY <1>5, AnyOfIn DEF FirstAbsent
    <3>2. QED BY <3>1 DEF Absent
  <2>3. s \in Cells
    <3> HIDE DEF k0
    <3> QED BY <1>1, <2>2, WalkedAt, AtIn, CellFacts
  <2> HIDE DEF r1, s
  <2>4. QED BY <1>3, <2>1, <2>3, AskAgainBounded
<1>6. CASE k0 = None
  <2>1. Resend(r, active, has, policy).ring = r2
    BY <1>6 DEF Resend
  <2> HIDE DEF r2
  <2>2. QED BY <1>4, <2>1
<1>7. QED BY <1>5, <1>6

\* A step that leaves the active packet, the station and the bound alone.
BoundedStep == RingBounded(ring', active') /\ ReplyHolds' /\ dlLeft' = 0

LEMMA RestoredIs ==
    ASSUME TypeOK, RingBounded(ring, active) PROVE Restored(ring) = ring
BY DEF TypeOK, RingBounded, PktBounded, Restored

LEMMA Send5Bounded ==
    ASSUME BoundedInv, NEW len \in Lengths, NEW flags \in FlagSets, Send5(len, flags)
    PROVE BoundedStep
<1> DEFINE id    == sentId + 1
           n     == Fragments(len)
           r     == CountSweep(ring, active)
           k     == Allocatable(r, n)
           first == IF "SAME_TX_ITER" \in flags /\ k > 0 THEN lastIter ELSE ulIter
           room  == IF len <= MaxPayload THEN FreeSlots(ring, active, transmit) >= Mack + 3
                    ELSE FreeSlots(ring, active, transmit) >= len \div MaxPayload + 3
<1>1. /\ active \in Cells /\ ring \in Ring /\ RingBounded(ring, active)
      /\ UNCHANGED <<active, station, dlLeft>>
  BY DEF BoundedInv, TypeOK, Send5
<1>2. r = ring
  BY <1>1, SweepBounded
<1>3. CASE ~room
  <2>1. ring' = r
    BY <1>3 DEF Send5
  <2> HIDE DEF r
  <2>2. QED BY <1>1, <1>2, <2>1 DEF BoundedStep, BoundedInv, ReplyHolds
<1>4. CASE room
  <2>1. ring'.pkt = [c \in Cells |->
            IF c \in Slots /\ Age(r.head, c) < k
            THEN Fragment(id, len, flags, first, Age(r.head, c), n, notAcked, mode)
            ELSE r.pkt[c]]
    BY <1>4 DEF Send5
  <2>2. ASSUME NEW c \in Cells PROVE PktBounded(ring'.pkt[c], c = active)
    <3>1. CASE c \in Slots /\ Age(r.head, c) < k
      <4> DEFINE p == Fragment(id, len, flags, first, Age(r.head, c), n, notAcked, mode)
      <4>1. p.st = "QUEUED" /\ p.sent = 0 /\ (p.retry = 0 \/ p.retry = NoRetries)
        BY DEF Fragment
      <4>2. ring'.pkt[c] = p
        BY <2>1, <3>1
      <4> HIDE DEF p
      <4>3. MaxRetry \in Int /\ 0 <= MaxRetry
        OBVIOUS
      <4>4. QED BY <4>1, <4>2, <4>3 DEF PktBounded, NoRetries
    <3>2. CASE ~(c \in Slots /\ Age(r.head, c) < k)
      <4>1. ring'.pkt[c] = r.pkt[c]
        BY <2>1, <3>2
      <4> HIDE DEF r
      <4>2. QED BY <1>1, <1>2, <4>1 DEF RingBounded
    <3>3. QED BY <3>1, <3>2
  <2> HIDE DEF r
  <2>3. QED BY <1>1, <2>2 DEF BoundedStep, BoundedInv, ReplyHolds, RingBounded
<1>5. QED BY <1>3, <1>4

LEMMA AfterAirBounded ==
    ASSUME NEW p \in Packet, PktBounded(p, FALSE),
           p.st \in {"QUEUED", "QUEUED_AGAIN", "NEED_TO_SEND_RIGHT_NOW"}
    PROVE PktBounded(AfterAir(p), TRUE)
<1>1. CASE StateOnAir(p) = "SENT"
  BY <1>1, FreeIsBounded DEF AfterAir
<1>2. CASE StateOnAir(p) # "SENT"
  <2>1. /\ AfterAir(p).st \in {"WAIT_ACK", "SENT_NOACKED"} /\ p.hs
        /\ AfterAir(p).sent = Bump(p.sent) /\ AfterAir(p).retry = p.retry
        /\ p.sent \in 0 .. MaxSent /\ p.retry \in Nat
    BY <1>2 DEF AfterAir, StateOnAir, Packet
  <2>2. Bump(p.sent) <= p.sent + 1
    BY <2>1 DEF Bump
  <2>3. p.sent = 0 \/ (p.sent <= p.retry /\ p.retry <= MaxRetry)
    BY <2>1 DEF PktBounded
  <2>4. MaxRetry \in Int /\ 0 <= MaxRetry /\ Bump(p.sent) \in Int /\ p.sent \in Int
    BY <2>1 DEF Bump
  <2>5. Bump(p.sent) <= MaxRetry + 1 /\ Bump(p.sent) <= p.retry + 1
    BY <2>1, <2>2, <2>3, <2>4
  <2>6. QED BY <2>1, <2>5 DEF PktBounded
<1>3. QED BY <1>1, <1>2

\* What the search finds is queued.
LEMMA QueuedBounded ==
    ASSUME NEW r \in Ring, NEW a \in Cells, RingBounded(r, a), NEW s \in Slots,
           s = Queued(r, a), r.pkt[a].st # "WAIT_ACK"
    PROVE r.pkt[s].st \in {"QUEUED", "QUEUED_AGAIN", "NEED_TO_SEND_RIGHT_NOW"}
<1>1. \A S : Oldest(r.head, S) # None => Oldest(r.head, S) \in S
  BY OldestIn
<1>2. s # None
  BY DEF Slots, None
<1>3. s \in Urgent(r) \cup Again(r) \cup Fresh(r, a)
  <2>1. CASE Urgent(r) # {}
    BY <1>1, <1>2, <2>1 DEF Queued
  <2>2. CASE Urgent(r) = {} /\ Again(r) # {}
    BY <1>1, <1>2, <2>2 DEF Queued
  <2>3. CASE Urgent(r) = {} /\ Again(r) = {}
    BY <1>1, <1>2, <2>3 DEF Queued
  <2>4. QED BY <2>1, <2>2, <2>3
<1>4. r.pkt[s].st # "WAIT_ACK"
  BY CellFacts DEF RingBounded, PktBounded
<1>5. QED BY <1>3, <1>4 DEF Urgent, Again, Fresh, InState

LEMMA SendNextBounded ==
    ASSUME BoundedInv, SendNext PROVE BoundedStep
<1> DEFINE s  == Queued(ring, active)
           p  == ring.pkt[s]
           st == StateOnAir(p)
           r1 == SetPkt(ring, s, AfterAir(p))
           r2 == IF ~p.ack /\ IsSystem(p) THEN Sweep(r1, s) ELSE r1
           more == Queued(r1, s) # None
<1>1. /\ ring \in Ring /\ active \in Cells /\ RingBounded(ring, active)
      /\ ring.pkt[active].st # "WAIT_ACK" /\ s \in Slots /\ s \in Cells
  BY QueuedIn, CellFacts DEF BoundedInv, TypeOK, SendNext
<1>2. Sweep(ring, active) = ring
  BY <1>1, SweepBounded
<1>3. Transmit(ring, s) /\ UNCHANGED <<dlLeft>>
  BY <1>2 DEF SendNext
<1>4. p \in Packet /\ p.st \in {"QUEUED", "QUEUED_AGAIN", "NEED_TO_SEND_RIGHT_NOW"}
  BY <1>1, RingPkt, QueuedBounded
<1>5. RingBounded(ring, s)
  BY <1>1, BoundedMoved
<1>6. PktBounded(AfterAir(p), TRUE)
  <2>1. PktBounded(p, FALSE)
    <3>1. PktBounded(p, s = s)
      BY <1>1, <1>5 DEF RingBounded
    <3> HIDE DEF p
    <3>2. QED BY <1>4, <3>1 DEF PktBounded
  <2> HIDE DEF p
  <2>2. QED BY <1>4, <2>1, AfterAirBounded
<1>7. r1 \in Ring /\ RingBounded(r1, s)
  <2>1. AfterAir(p) \in Packet
    <3> HIDE DEF p
    <3> QED BY <1>4, AfterAirType
  <2>2. PktBounded(AfterAir(p), s = s)
    BY <1>6
  <2> HIDE DEF p, s
  <2>3. QED BY <1>1, <1>5, <2>1, <2>2, SetPktType, BoundedSet
<1>8. r2 = r1
  <2> HIDE DEF r1, p, s
  <2> QED BY <1>1, <1>7, SweepBounded
<1>9. RingBounded(ring', s)
  <2>1. ring' = r1 \/ ring' = [r1 EXCEPT !.pkt[s].multi = more]
    <3>1. ring' = IF (~p.ack /\ IsSystem(p)) /\ st # "SENT"
                  THEN [r2 EXCEPT !.pkt[s].multi = more] ELSE r2
      BY <1>3 DEF Transmit
    <3> HIDE DEF p, s, r1, r2, more, st
    <3>2. QED BY <1>8, <3>1
  <2> HIDE DEF r1, s, more
  <2>2. CASE ring' = r1
    BY <1>7, <2>2
  <2>3. CASE ring' = [r1 EXCEPT !.pkt[s].multi = more]
    <3>1. ASSUME NEW c \in Cells PROVE PktBounded(ring'.pkt[c], c = s)
      <4>1. r1.pkt[c] \in Packet /\ PktBounded(r1.pkt[c], c = s)
        BY <1>7, RingPkt DEF RingBounded
      <4>2. ring'.pkt[c] = r1.pkt[c] \/ ring'.pkt[c] = [r1.pkt[c] EXCEPT !.multi = more]
        BY <1>1, <1>7, <2>3 DEF Ring
      <4>3. /\ ring'.pkt[c].st = r1.pkt[c].st /\ ring'.pkt[c].hs = r1.pkt[c].hs
            /\ ring'.pkt[c].retry = r1.pkt[c].retry /\ ring'.pkt[c].sent = r1.pkt[c].sent
        BY <4>1, <4>2 DEF Packet
      <4>4. QED BY <4>1, <4>3, BoundedAs
    <3>2. QED BY <3>1 DEF RingBounded
  <2>4. QED BY <2>1, <2>2, <2>3
<1>10. active' = (IF st = "SENT" THEN Idle ELSE s) /\ Air(p)
  BY <1>3 DEF Transmit
<1>11. RingBounded(ring', active')
  <2>1. CASE st # "SENT"
    BY <1>9, <1>10, <2>1
  <2>2. CASE st = "SENT"
    <3>1. AfterAir(p) = FreePkt
      BY <2>2 DEF AfterAir
    <3>2. r1.pkt[s] = FreePkt
      <4> HIDE DEF p, s
      <4> QED BY <1>1, <3>1 DEF SetPkt, Ring
    <3>3. ring' = r2
      BY <1>3, <2>2 DEF Transmit
    <3> HIDE DEF r1, r2, p, s, st
    <3>4. ring'.pkt[s].st # "WAIT_ACK"
      BY <1>8, <3>2, <3>3 DEF FreePkt
    <3>5. QED BY <1>9, <1>10, <2>2, <3>4 DEF RingBounded, PktBounded
  <2>3. QED BY <2>1, <2>2
<1>12. ReplyHolds'
  <2> HIDE DEF p
  <2> QED BY <1>10, AirHolds DEF BoundedInv
<1>13. QED BY <1>3, <1>11, <1>12 DEF BoundedStep, BoundedInv

LEMMA ReceiveTimeoutBounded ==
    ASSUME NoDownlinks, BoundedInv, ReceiveTimeout PROVE BoundedStep
<1> DEFINE p  == ring.pkt[active]
           p1 == [p EXCEPT !.retry = p.retry + 1]
           R  == [ring EXCEPT !.pkt[active].retry = @ + 1]
<1>0. UNCHANGED <<active, station, dlLeft>>
  BY DEF ReceiveTimeout
<1>1. active \in Cells /\ ring \in Ring /\ RingBounded(ring, active)
  BY DEF BoundedInv, TypeOK
<1>2. p \in Packet /\ p.retry \in Nat /\ p.retry + 1 \in Nat /\ p.sent \in Int
      /\ PktBounded(p, TRUE) /\ MaxRetry \in Int
  <2>1. PktBounded(p, active = active)
    BY <1>1 DEF RingBounded
  <2>2. p \in Packet
    BY <1>1, RingPkt
  <2> HIDE DEF p
  <2>3. p.retry \in Nat /\ p.sent \in Int
    BY <2>2 DEF Packet
  <2>4. PktBounded(p, TRUE)
    BY <2>1 DEF PktBounded
  <2>5. MaxRetry \in Int
    OBVIOUS
  <2>6. p.retry + 1 \in Nat
    BY <2>3
  <2>7. QED BY <2>2, <2>3, <2>4, <2>5, <2>6
<1>3. R = SetPkt(ring, active, p1) /\ R \in Ring
  <2>1. p1 \in Packet
    BY <1>2, PktRetryType
  <2>2. R = SetPkt(ring, active, p1)
    BY <1>1 DEF SetPkt, Ring
  <2> HIDE DEF R, p1
  <2>3. QED BY <1>1, <2>1, <2>2, SetPktType
<1>4. CASE p.st # "WAIT_ACK"
  BY <1>0, <1>1, <1>4 DEF ReceiveTimeout, BoundedStep, BoundedInv, ReplyHolds
<1>5. ASSUME p.st = "WAIT_ACK", TimeoutRetry PROVE BoundedStep
  <2> DEFINE p2 == [p1 EXCEPT !.st = "QUEUED_AGAIN"]
  <2>1. ring' = SetPkt(ring, active, p2)
    BY <1>1, <1>2, <1>5 DEF TimeoutRetry, SetPkt, Ring, Packet
  <2>2. p2.st = "QUEUED_AGAIN" /\ p2.retry = p.retry + 1 /\ p2.sent = p.sent
    BY <1>2 DEF Packet
  <2>3. p.retry + 1 <= MaxRetry
    BY <1>5 DEF TimeoutRetry
  <2> HIDE DEF p2, p
  <2>4. PktBounded(p2, active = active)
    BY <1>2, <2>2, <2>3 DEF PktBounded
  <2>5. RingBounded(ring', active)
    BY <1>1, <2>1, <2>4, BoundedSet
  <2>6. QED BY <1>0, <2>5 DEF BoundedStep, BoundedInv, ReplyHolds
<1>6. ASSUME p.st = "WAIT_ACK", NEW policy \in LossPolicies, TimeoutLost(policy)
      PROVE BoundedStep
  <2>1. p1.st = "WAIT_ACK" /\ p1.retry = p.retry + 1 /\ p1.sent = p.sent
    BY <1>2, <1>6 DEF Packet
  <2>2. PktBounded(p1, active = active)
    <3> HIDE DEF p, p1
    <3> QED BY <1>2, <2>1 DEF PktBounded
  <2>3. RingBounded(R, active)
    <3> HIDE DEF p1, R
    <3> QED BY <1>1, <1>3, <2>2, BoundedSet
  <2>4. ring' = AfterLoss(CloseActive(R, active), policy)
    BY <1>6 DEF TimeoutLost, NoDownlinks
  <2> HIDE DEF R
  <2>5. CloseActive(R, active) \in Ring /\ RingBounded(CloseActive(R, active), active)
    BY <1>1, <1>3, <2>3, CloseActiveType, CloseActiveBounded
  <2>6. RingBounded(ring', active)
    BY <2>4, <2>5, AfterLossBounded
  <2>7. QED BY <1>0, <2>6 DEF BoundedStep, BoundedInv, ReplyHolds
<1>7. QED BY <1>4, <1>5, <1>6 DEF ReceiveTimeout

LEMMA RxAckBounded ==
    ASSUME BoundedInv, RxAck PROVE BoundedStep
<1>1. /\ active \in Cells /\ ring \in Ring /\ RingBounded(ring, active)
      /\ Restored(ring) = ring /\ UNCHANGED <<active, dlLeft>>
  BY RestoredIs DEF BoundedInv, TypeOK, RxAck
<1>2. ReplyHolds'
  BY DEF RxAck, ReplyHolds, NoReply, BoundedInv, TypeOK
<1>3. CASE AckAccepted(ring, station.reply)
  <2>1. PICK policy \in LossPolicies :
          ring' = LookAtQueue(TakeAck(ring, station.reply, policy).ring, active)
    BY <1>1, <1>3 DEF RxAck
  <2> DEFINE t == TakeAck(ring, station.reply, policy).ring
  <2>2. t \in Ring
    BY <1>1, TakeAckType DEF BoundedInv
  <2>3. RingBounded(t, active)
    <3>1. CASE station.reply.type = "ACK" /\ ring.pkt[active].mack # 0
      <4>1. ring.pkt[active].iter \in station.reply.has
        BY <1>3, <3>1 DEF AckAccepted, BoundedInv, ReplyHolds
      <4>2. QED BY <1>1, <3>1, <4>1, ResendBounded DEF TakeAck, BoundedInv
    <3>2. CASE station.reply.type # "ACK" /\ ring.pkt[active].mack # 0
      BY <1>1, <3>2 DEF TakeAck
    <3>3. CASE ring.pkt[active].mack = 0
      <4> DEFINE z == TakeAck(ring, station.reply, policy)
      <4> HIDE DEF z
      <4>1. PICK d \in Packet, r1 \in Ring :
              /\ AsDelivered(d, ring.pkt[active])
              /\ r1 = SetPkt(ring, active, d) /\ r1.head = ring.head
              /\ \A c \in Cells : r1.pkt[c] = IF c = active THEN d ELSE ring.pkt[c]
              /\ z.ring = r1 \/ z.ring = SendClear(r1, d.iter)
              /\ \/ z.ul = ul
                 \/ z.ul = SetStatus(ul, sentId, z.ring.pkt[active].id, "DELIVERED")
        BY <1>1, <3>3, TakeAckEmpty DEF z
      <4>2. PktBounded(ring.pkt[active], active = active)
        BY <1>1 DEF RingBounded
      <4>3. PktBounded(d, active = active)
        BY <4>1, <4>2 DEF PktBounded, AsDelivered
      <4>4. RingBounded(r1, active)
        BY <1>1, <4>1, <4>3, BoundedSet
      <4>5. RingBounded(z.ring, active)
        BY <4>1, <4>4, SendClearBounded
      <4>6. QED BY <4>5 DEF z
    <3>4. QED BY <3>1, <3>2, <3>3
  <2> HIDE DEF t
  <2>4. ring' = t
    BY <1>1, <2>1, <2>2, <2>3, SweepBounded DEF t
  <2>5. QED BY <1>1, <1>2, <2>3, <2>4 DEF BoundedStep, BoundedInv
<1>4. CASE ~AckAccepted(ring, station.reply)
  <2>1. ring' = LookAtQueue(ring, active)
    BY <1>1, <1>4 DEF RxAck
  <2>2. QED BY <1>1, <1>2, <2>1, SweepBounded DEF BoundedStep, BoundedInv
<1>5. QED BY <1>3, <1>4

LEMMA ClearedBounded ==
    ASSUME BoundedInv, ring' = ClearTx(ring), active' = Idle, UNCHANGED <<station, dlLeft>>
    PROVE BoundedStep
<1>1. \A c \in Cells : ring'.pkt[c] = IF c = Idle THEN ring.pkt[Idle] ELSE FreePkt
  BY DEF ClearTx, BoundedInv, TypeOK, Ring
<1>2. PktBounded(ring.pkt[Idle], TRUE)
  <2>1. PktBounded(ring.pkt[Idle], Idle = active)
    BY CellFacts DEF BoundedInv, RingBounded
  <2>2. QED BY <2>1 DEF PktBounded
<1>3. RingBounded(ring', Idle)
  BY <1>1, <1>2, FreeIsBounded DEF RingBounded
<1>4. QED BY <1>3 DEF BoundedStep, BoundedInv, ReplyHolds

LEMMA HeartBeatBounded == ASSUME BoundedInv, HeartBeat PROVE BoundedStep
<1> DEFINE p == [SysPkt("HEARTBEAT", "QUEUED", ulIter) EXCEPT
                   !.hs = Handshake /\ AckMode(mode), !.ack = Handshake /\ AckMode(mode)]
<1>1. OwnBounded(p)
  BY DEF OwnBounded, SysPkt, FreePkt
<1>2. (ring' = Alloc(ring, p) \/ ring' = ring) /\ UNCHANGED <<active, station, dlLeft>>
  BY DEF HeartBeat
<1> HIDE DEF p
<1>3. RingBounded(ring', active)
  BY <1>1, <1>2, AllocBounded DEF BoundedInv, TypeOK
<1>4. QED BY <1>2, <1>3 DEF BoundedStep, BoundedInv, ReplyHolds

LEMMA WakeUpBounded == ASSUME BoundedInv, WakeUp PROVE BoundedStep
<1>1. ring \in Ring /\ SendSync(ring, ulIter) \in Ring
  BY SendSyncType DEF BoundedInv, TypeOK
<1>2. ring' = SendClear(SendSync(ring, ulIter), 0) /\ UNCHANGED <<active, station, dlLeft>>
  BY DEF WakeUp
<1>3. RingBounded(ring', active)
  BY <1>1, <1>2, SendSyncBounded, SendClearBounded DEF BoundedInv
<1>4. QED BY <1>2, <1>3 DEF BoundedStep, BoundedInv, ReplyHolds

LEMMA BoundedNext ==
    ASSUME NoDownlinks, BoundedInv, [Next]_vars PROVE BoundedInv'
<1>0. TypeOK' /\ ring \in Ring /\ active \in Cells /\ RingBounded(ring, active)
  BY TypeOKNext DEF BoundedInv, TypeOK
<1>1. ASSUME ring' = ring, active' = active, station' = station, dlLeft' = dlLeft
      PROVE BoundedStep
  BY <1>1 DEF BoundedStep, BoundedInv, ReplyHolds
<1>2. ASSUME UNCHANGED vars PROVE BoundedStep
  BY <1>1, <1>2 DEF vars, devVars
<1>3. ASSUME NEW len \in Lengths, NEW flags \in FlagSets, Send5(len, flags)
      PROVE BoundedStep
  BY <1>3, Send5Bounded
<1>4. ASSUME SendNext PROVE BoundedStep
  BY <1>4, SendNextBounded
<1>5. ASSUME ArmTimer PROVE BoundedStep
  BY <1>1, <1>5 DEF ArmTimer
<1>6. ASSUME ProcessOff PROVE BoundedStep
  BY <1>6, ClearedBounded DEF ProcessOff
<1>7. ASSUME TxFinished PROVE BoundedStep
  <2>1. Sweep(ring, active) = ring
    BY <1>0, SweepBounded
  <2>2. QED BY <1>1, <1>7, <2>1 DEF TxFinished
<1>8. ASSUME ReceiveTimeout PROVE BoundedStep
  BY <1>8, ReceiveTimeoutBounded
<1>9. ASSUME RxAck PROVE BoundedStep
  BY <1>9, RxAckBounded
<1>10. ~\E answer, ack \in BOOLEAN : RxSystem(answer, ack)
  BY DEF RxSystem, BoundedInv
<1>11. ~\E ack, multi, repeated \in BOOLEAN : RxMessage(ack, multi, repeated)
  BY DEF RxMessage, BoundedInv
<1>12. ASSUME WaitExtraTimeout PROVE BoundedStep
  <2>1. Sweep(Restored(ring), active) = ring
    BY <1>0, SweepBounded, RestoredIs DEF BoundedInv
  <2>2. QED BY <1>1, <1>12, <2>1 DEF WaitExtraTimeout
<1>13. ASSUME WaitClearTimeout PROVE BoundedStep
  BY <1>1, <1>13 DEF WaitClearTimeout
<1>14. ASSUME HeartBeat PROVE BoundedStep
  BY <1>14, HeartBeatBounded
<1>15. ASSUME ReportStatus PROVE BoundedStep
  BY <1>1, <1>15 DEF ReportStatus
<1>16. ASSUME GoToSleep PROVE BoundedStep
  BY <1>16, ClearedBounded DEF GoToSleep
<1>17. ASSUME WakeUp PROVE BoundedStep
  BY <1>17, WakeUpBounded
<1>18. BoundedStep
  BY <1>2, <1>3, <1>4, <1>5, <1>6, <1>7, <1>8, <1>9, <1>10, <1>11, <1>12, <1>13, <1>14,
     <1>15, <1>16, <1>17 DEF Next
<1>19. QED BY <1>0, <1>18 DEF BoundedStep, BoundedInv

LEMMA BoundedInit == ASSUME NoDownlinks, Init PROVE BoundedInv
<1>1. TypeOK
  BY TypeOKInit
<1>2. RingBounded(EmptyRing, Idle)
  BY FreeIsBounded DEF RingBounded, EmptyRing
<1>3. RingBounded(ring, active)
  <2>1. EmptyRing \in Ring /\ SendSync(EmptyRing, 0) \in Ring
    BY EmptyRingType, SendSyncType DEF Iters
  <2>2. RingBounded(SendClear(SendSync(EmptyRing, 0), 0), Idle)
    BY <1>2, <2>1, SendSyncBounded, SendClearBounded
  <2>3. QED BY <1>2, <2>2 DEF Init
<1>4. ReplyHolds /\ dlLeft = 0
  BY DEF Init, ReplyHolds, NoReply, NoDownlinks
<1>5. QED BY <1>1, <1>3, <1>4 DEF BoundedInv

\* No packet is transmitted more often than the first try and MaxRetry retries:
\* the timeout and the walk over an ACK count every try, and no search of the
\* ring, no sleep and no heartbeat sends a packet once more without counting it
\* (NBFi_Receive_Timeout_cb, NBFi_Resend_Pkt, NBFi_GetQueuedTXPkt).  A downlink
\* message may make it one more: it takes the active packet away.
THEOREM TriesLimited ==
    ASSUME NoDownlinks PROVE Spec => []TriesBounded
<1>1. Init => BoundedInv
  BY BoundedInit
<1>2. BoundedInv /\ [Next]_vars => BoundedInv'
  BY BoundedNext
<1>3. BoundedInv => TriesBounded
  BY CellFacts DEF BoundedInv, RingBounded, PktBounded, TriesBounded
<1>4. QED BY <1>1, <1>2, <1>3, PTL DEF Spec
-----------------------------------------------------------------------------
(***************************************************************************)
(* Part 6.  Groups.  The ACK of a window reports the ITERs the station     *)
(* holds; the walk over it marks the packets that carry them, of this and  *)
(* of earlier messages.  Within one lap of ITER, however a message is cut, *)
(* retried and asked for again, every packet the walk marks DELIVERED was  *)
(* heard: the ITERs under way to the device are those of packets that were *)
(* heard, and no two messages have one in common.  What makes the ACK of a *)
(* heartbeat harmless is the window: a packet of a message that waits for  *)
(* an ACK always asks for at least one packet, which needs the window to   *)
(* fit the six bits NBFi_Resend_Pkt keeps of it.                           *)
(***************************************************************************)
LapFits(F) ==
    /\ \A len \in Lengths : Fragments(len) <= F
    /\ \A f \in FlagSets : "SAME_TX_ITER" \notin f
    /\ MaxMsgs < IdMod
    /\ MaxMsgs * F + MaxHb <= IterMod
    /\ LossPolicies = {"keep"} \/ MaxMsgs * F + MaxHb < IterMod
    /\ MaxMsgs + F < 64 /\ IterMod <= 64

MarkPkt(p, st, f, h) ==
    /\ p.id # 0 => /\ p.id \in Ids /\ p.iter \in f[p.id] /\ p.kind \in AppKinds
                   /\ p.mack < 64
                   /\ p.ack => p.mack > 0
                   /\ st = "WAIT_ACK" => p.ack
                   /\ st = "DELIVERED" => <<p.id, p.iter>> \in h
    /\ p.id = 0 => /\ p.mack = 0
                   /\ p.kind \in AppKinds => st = "FREE"

RingMarks(r, a, o, f, h) ==
    /\ r.pkt[Idle].id = 0 /\ r.pkt[Idle].mack = 0
    /\ \A c \in Slots : MarkPkt(r.pkt[c], Meant(r.pkt[c], c, a, o), f, h)

\* The packets with these ITERs were heard.
Known(S, f, h) == \A i \in S : \E id \in Ids : i \in f[id] /\ <<id, i>> \in h

StationKnows(y, f, h) ==
    /\ Known(y.holds, f, h)
    /\ y.reply.type = "ACK" => Known(y.reply.has, f, h)

KnownInv(F) ==
    /\ TypeOK
    /\ ReplyHolds
    /\ notAcked <= sentId
    /\ Counted(ulIter, sentId * F + (MaxHb - hbLeft), frags)
    /\ Apart(frags)
    /\ \A id \in Ids : id > sentId => frags[id] = {}
    /\ RingMarks(ring, active, oldState, frags, heard)
    /\ StationKnows(station, frags, heard)

LEMMA LapNumbers ==
    ASSUME NEW F \in Nat, LapFits(F)
    PROVE /\ MaxMsgs \in Nat /\ MaxHb \in Nat /\ MaxMsgs * F \in Nat
          /\ IterMod \in Nat \ {0} /\ IdMod \in Nat \ {0}
BY StatAssumption, BoundAssumption

\* The ring operators that leave the messages' packets alone.
LEMMA MarksStill ==
    ASSUME NEW r \in Ring, NEW q, NEW a, NEW o, NEW f, NEW h,
           RingMarks(r, a, o, f, h), StillRing(r, q)
    PROVE RingMarks(q, a, o, f, h)
<1>1. ASSUME NEW c \in Slots
      PROVE MarkPkt(q.pkt[c], Meant(q.pkt[c], c, a, o), f, h)
  <2>1. /\ MarkPkt(r.pkt[c], Meant(r.pkt[c], c, a, o), f, h)
        /\ Still(r.pkt[c], q.pkt[c])
    BY DEF RingMarks, StillRing
  <2>2. CASE Own(q.pkt[c])
    <3>1. q.pkt[c].kind \in AppKinds => Meant(q.pkt[c], c, a, o) = "FREE"
      BY <2>2 DEF Own, Meant
    <3>2. QED BY <2>2, <3>1 DEF Own, MarkPkt
  <2>3. CASE Alike(r.pkt[c], q.pkt[c]) /\ q.pkt[c].st = r.pkt[c].st
    <3>1. Meant(q.pkt[c], c, a, o) = Meant(r.pkt[c], c, a, o)
      BY <2>3 DEF Meant
    <3>2. QED BY <2>1, <2>3, <3>1 DEF MarkPkt, Alike
  <2>4. CASE /\ Alike(r.pkt[c], q.pkt[c])
             /\ r.pkt[c].st = "WAIT_ACK" /\ q.pkt[c].st = "QUEUED_AGAIN"
    <3>1. /\ Meant(q.pkt[c], c, a, o) = "QUEUED_AGAIN"
          /\ Meant(r.pkt[c], c, a, o) = "WAIT_ACK"
      BY <2>4 DEF Meant
    <3>2. QED BY <2>1, <2>4, <3>1 DEF MarkPkt, Alike
  <2>5. QED BY <2>1, <2>2, <2>3, <2>4 DEF Still
<1>2. QED BY <1>1 DEF RingMarks, StillRing

\* What the station hears only adds to what is known.
LEMMA MarksMore ==
    ASSUME NEW r, NEW a, NEW o, NEW f, NEW h, RingMarks(r, a, o, f, h),
           NEW g, NEW e, \A id \in Ids : f[id] \subseteq g[id], h \subseteq e
    PROVE RingMarks(r, a, o, g, e)
<1>1. ASSUME NEW c \in Slots
      PROVE MarkPkt(r.pkt[c], Meant(r.pkt[c], c, a, o), g, e)
  <2>1. MarkPkt(r.pkt[c], Meant(r.pkt[c], c, a, o), f, h)
    BY DEF RingMarks
  <2>2. QED BY <2>1 DEF MarkPkt
<1>2. QED BY <1>1 DEF RingMarks

LEMMA KnownMore ==
    ASSUME NEW S, NEW f, NEW h, Known(S, f, h),
           NEW g, NEW e, \A id \in Ids : f[id] \subseteq g[id], h \subseteq e
    PROVE Known(S, g, e)
<1>1. ASSUME NEW i \in S PROVE \E id \in Ids : i \in g[id] /\ <<id, i>> \in e
  <2>1. PICK id \in Ids : i \in f[id] /\ <<id, i>> \in h
    BY DEF Known
  <2>2. QED BY <2>1
<1>2. QED BY <1>1 DEF Known

LEMMA MarksMoved ==
    ASSUME NEW r, NEW a, NEW o, NEW f, NEW h, RingMarks(r, a, o, f, h), NEW b,
           b = a \/ /\ b = Idle \/ r.pkt[b].st # "WAIT_FOR_EXTRA_PACKETS"
                    /\ a = Idle \/ r.pkt[a].st # "WAIT_FOR_EXTRA_PACKETS"
    PROVE RingMarks(r, b, o, f, h)
BY MeantMoved DEF RingMarks

\* Packets that keep all but their state, and mean the same.
LEMMA MarksAlike ==
    ASSUME NEW r, NEW q, NEW a, NEW b, NEW o, NEW o2, NEW f, NEW h,
           RingMarks(r, a, o, f, h),
           \A c \in Cells : /\ Alike(r.pkt[c], q.pkt[c])
                            /\ Meant(q.pkt[c], c, b, o2) = Meant(r.pkt[c], c, a, o)
    PROVE RingMarks(q, b, o2, f, h)
<1>1. ASSUME NEW c \in Slots
      PROVE MarkPkt(q.pkt[c], Meant(q.pkt[c], c, b, o2), f, h)
  <2>1. /\ MarkPkt(r.pkt[c], Meant(r.pkt[c], c, a, o), f, h)
        /\ Alike(r.pkt[c], q.pkt[c])
        /\ Meant(q.pkt[c], c, b, o2) = Meant(r.pkt[c], c, a, o)
    BY CellFacts DEF RingMarks
  <2>2. QED BY <2>1 DEF MarkPkt, Alike
<1>2. q.pkt[Idle].id = 0 /\ q.pkt[Idle].mack = 0
  BY CellFacts DEF RingMarks, Alike
<1>3. QED BY <1>1, <1>2 DEF RingMarks

LEMMA MarksRestored ==
    ASSUME TypeOK, NEW f, NEW h, RingMarks(ring, active, oldState, f, h)
    PROVE RingMarks(Restored(ring), active, oldState, f, h)
<1>1. \A c \in Cells :
          /\ Alike(ring.pkt[c], Restored(ring).pkt[c])
          /\ Meant(Restored(ring).pkt[c], c, active, oldState)
               = Meant(ring.pkt[c], c, active, oldState)
  BY RestoredAlike
<1>2. QED BY <1>1, MarksAlike

\* One packet changes.
LEMMA MarksSet ==
    ASSUME NEW r \in Ring, NEW s \in Cells, NEW p, NEW a, NEW o, NEW f, NEW h,
           RingMarks(r, a, o, f, h),
           s \in Slots => MarkPkt(p, Meant(p, s, a, o), f, h),
           s = Idle => p.id = 0 /\ p.mack = 0
    PROVE RingMarks(SetPkt(r, s, p), a, o, f, h)
<1>1. \A c \in Cells : SetPkt(r, s, p).pkt[c] = IF c = s THEN p ELSE r.pkt[c]
  BY DEF SetPkt, Ring
<1> DEFINE q == SetPkt(r, s, p)
<1> HIDE DEF q
<1>2. ASSUME NEW c \in Slots PROVE MarkPkt(q.pkt[c], Meant(q.pkt[c], c, a, o), f, h)
  <2>1. c \in Cells
    BY CellFacts
  <2>2. CASE c = s
    <3>1. q.pkt[c] = p
      BY <1>1, <2>1, <2>2 DEF q
    <3>2. QED BY <2>2, <3>1
  <2>3. CASE c # s
    <3>1. q.pkt[c] = r.pkt[c]
      BY <1>1, <2>1, <2>3 DEF q
    <3>2. QED BY <3>1 DEF RingMarks
  <2>4. QED BY <2>2, <2>3
<1>3. q.pkt[Idle].id = 0 /\ q.pkt[Idle].mack = 0
  BY <1>1, CellFacts DEF RingMarks, q
<1>4. QED BY <1>2, <1>3 DEF RingMarks, q

\* A packet that waits for its ACK, or waited, keeps all but its state, which
\* becomes another one than WAIT_ACK or DELIVERED.
LEMMA MarkOther ==
    ASSUME NEW p, NEW q, NEW s1, NEW s2, NEW f, NEW h, MarkPkt(p, s1, f, h),
           q.id = p.id, q.kind = p.kind, q.ack = p.ack, q.iter = p.iter, q.mack = p.mack,
           s2 \notin {"WAIT_ACK", "DELIVERED"} \/ s2 = s1, s1 # "FREE"
    PROVE MarkPkt(q, s2, f, h)
BY DEF MarkPkt

LEMMA FreeMark ==
    ASSUME NEW f, NEW h PROVE MarkPkt(FreePkt, "FREE", f, h)
BY DEF MarkPkt, FreePkt

-----------------------------------------------------------------------------
\* The walk only meets packets of messages.
LEMMA AtApp ==
    ASSUME NEW r, NEW a, NEW k, At(r, a, k) # None
    PROVE /\ At(r, a, k) \in Slots
          /\ r.pkt[At(r, a, k)].kind \in AppKinds
<1> DEFINE i == (r.pkt[a].iter - k) % IterMod
           S == {s \in Slots :
                   /\ r.pkt[s].kind \in AppKinds
                   /\ r.pkt[s].st \in {"SENT_NOACKED", "WAIT_ACK", "LOST", "DELIVERED"}
                   /\ r.pkt[s].iter = i}
<1>1. At(r, a, k) = Newest(r.head, S)
  BY DEF At, SentByIter
<1>2. At(r, a, k) \in S
  <2> HIDE DEF S
  <2> QED BY <1>1, NewestIn
<1>3. QED BY <1>2

\* What the walk makes of a packet, with the ITERs it goes by.
WalkFinds(p, m, has) ==
    \/ m = p
    \/ /\ p.kind \in AppKinds /\ p.st \in OnAir
       /\ \/ m = [p EXCEPT !.st = "DELIVERED"] /\ p.iter \in has
          \/ m = [p EXCEPT !.st = "QUEUED_AGAIN", !.retry = @ + 1]
          \/ m = [p EXCEPT !.retry = @ + 1]

LEMMA MarkedFinds ==
    ASSUME NEW r \in Ring, NEW a \in Cells, NEW has, r.pkt[a].iter \in has, NEW c \in Cells
    PROVE WalkFinds(r.pkt[c], Marked(r, a, has).pkt[c], has)
<1> DEFINE p == r.pkt[c]
           m == Marked(r, a, has).pkt[c]
<1>1. m = IF \E k \in Absent(r, a, has) : At(r, a, k) = c
          THEN [p EXCEPT !.st = "QUEUED_AGAIN", !.retry = @ + 1]
          ELSE IF \E k \in Walked(r, a, has) : At(r, a, k) = c
          THEN [p EXCEPT !.st = "DELIVERED"]
          ELSE IF \E k \in GivenUp(r, a, has) : At(r, a, k) = c
          THEN [p EXCEPT !.retry = @ + 1]
          ELSE p
  BY DEF Marked, Ring
<1>2. ASSUME NEW k, k \in Walked(r, a, has) \/ k \in GivenUp(r, a, has), At(r, a, k) = c
      PROVE p.st \in OnAir /\ p.kind \in AppKinds /\ p.iter = (r.pkt[a].iter - k) % IterMod
  BY <1>2, WalkedAt, AtOnAir, AtApp
<1>3. ASSUME NEW k \in Walked(r, a, has), k \notin Absent(r, a, has), At(r, a, k) = c
      PROVE p.iter \in has
  <2>1. ~Missing(r, a, has, k) /\ p.iter = (r.pkt[a].iter - k) % IterMod
    BY <1>2, <1>3 DEF Absent
  <2>2. CASE k > 0
    BY <2>1, <2>2 DEF Missing
  <2>3. CASE ~(k > 0)
    <3>1. k \in 0 .. r.pkt[a].mack - 1
      BY DEF Walked, AckWindow
    <3>2. k = 0
      BY <2>3, <3>1
    <3>3. r.pkt[a].iter \in Iters
      BY RingPkt DEF Packet
    <3>4. (r.pkt[a].iter - 0) % IterMod = r.pkt[a].iter
      BY <3>3 DEF Iters
    <3>5. QED BY <2>1, <3>2, <3>4
  <2>4. QED BY <2>2, <2>3
<1> HIDE DEF m
<1>4. CASE \E k \in Absent(r, a, has) : At(r, a, k) = c
  BY <1>1, <1>2, <1>4 DEF m, WalkFinds, Absent
<1>5. CASE /\ ~\E k \in Absent(r, a, has) : At(r, a, k) = c
           /\ \E k \in Walked(r, a, has) : At(r, a, k) = c
  BY <1>1, <1>2, <1>3, <1>5 DEF m, WalkFinds
<1>6. CASE /\ ~\E k \in Absent(r, a, has) : At(r, a, k) = c
           /\ ~\E k \in Walked(r, a, has) : At(r, a, k) = c
           /\ \E k \in GivenUp(r, a, has) : At(r, a, k) = c
  BY <1>1, <1>2, <1>6 DEF m, WalkFinds
<1>7. CASE /\ ~\E k \in Absent(r, a, has) : At(r, a, k) = c
           /\ ~\E k \in Walked(r, a, has) : At(r, a, k) = c
           /\ ~\E k \in GivenUp(r, a, has) : At(r, a, k) = c
  BY <1>1, <1>7 DEF m, WalkFinds
<1>8. QED BY <1>4, <1>5, <1>6, <1>7

\* No two messages share an ITER, so a packet with a known one was heard.
LEMMA KnownIsHeard ==
    ASSUME NEW f, NEW h, Apart(f), NEW has, Known(has, f, h),
           NEW id \in Ids, NEW i, i \in f[id], i \in has
    PROVE <<id, i>> \in h
<1>1. PICK j \in Ids : i \in f[j] /\ <<j, i>> \in h
  BY DEF Known
<1>2. j = id
  BY <1>1 DEF Apart
<1>3. QED BY <1>1, <1>2

LEMMA MarksMarked ==
    ASSUME NEW r \in Ring, NEW a \in Cells, NEW has, r.pkt[a].iter \in has,
           NEW o, NEW f, NEW h, Apart(f), Known(has, f, h), RingMarks(r, a, o, f, h)
    PROVE RingMarks(Marked(r, a, has), a, o, f, h)
<1>1. ASSUME NEW c \in Slots
      PROVE MarkPkt(Marked(r, a, has).pkt[c], Meant(Marked(r, a, has).pkt[c], c, a, o), f, h)
  <2> DEFINE p == r.pkt[c]
             m == Marked(r, a, has).pkt[c]
  <2>1. p \in Packet
    BY RingPkt, CellFacts
  <2>2. MarkPkt(p, Meant(p, c, a, o), f, h)
    BY DEF RingMarks
  <2>3. WalkFinds(p, m, has)
    BY MarkedFinds, CellFacts
  <2>4. p.st \in OnAir => Meant(p, c, a, o) = p.st /\ p.st # "FREE"
    BY DEF Meant, OnAir
  <2> HIDE DEF m, p
  <2>5. CASE m = p
    BY <2>2, <2>5 DEF m
  <2>6. CASE p.kind \in AppKinds /\ p.st \in OnAir /\ p.iter \in has
             /\ m = [p EXCEPT !.st = "DELIVERED"]
    <3>1. p.id # 0 /\ p.id \in Ids /\ p.iter \in f[p.id]
      BY <2>2, <2>4, <2>6 DEF MarkPkt
    <3>2. <<p.id, p.iter>> \in h
      BY <2>6, <3>1, KnownIsHeard
    <3>3. /\ m.id = p.id /\ m.kind = p.kind /\ m.ack = p.ack /\ m.iter = p.iter
          /\ m.mack = p.mack /\ m.st = "DELIVERED"
      BY <2>1, <2>6 DEF Packet
    <3>4. Meant(m, c, a, o) = "DELIVERED"
      BY <3>3 DEF Meant
    <3>5. MarkPkt(m, "DELIVERED", f, h)
      BY <2>2, <3>1, <3>2, <3>3 DEF MarkPkt
    <3>6. QED BY <3>4, <3>5 DEF m
  <2>7. CASE /\ p.kind \in AppKinds /\ p.st \in OnAir
             /\ m = [p EXCEPT !.st = "QUEUED_AGAIN", !.retry = @ + 1]
    <3>1. /\ m.id = p.id /\ m.kind = p.kind /\ m.ack = p.ack /\ m.iter = p.iter
          /\ m.mack = p.mack /\ m.st = "QUEUED_AGAIN"
      BY <2>1, <2>7 DEF Packet
    <3>2. Meant(m, c, a, o) = "QUEUED_AGAIN"
      BY <3>1 DEF Meant
    <3>3. MarkPkt(m, "QUEUED_AGAIN", f, h)
      BY <2>2, <2>4, <2>7, <3>1, MarkOther
    <3>4. QED BY <3>2, <3>3 DEF m
  <2>8. CASE /\ p.kind \in AppKinds /\ p.st \in OnAir
             /\ m = [p EXCEPT !.retry = @ + 1]
    <3>1. /\ m.id = p.id /\ m.kind = p.kind /\ m.ack = p.ack /\ m.iter = p.iter
          /\ m.mack = p.mack /\ m.st = p.st
      BY <2>1, <2>8 DEF Packet
    <3>2. Meant(m, c, a, o) = Meant(p, c, a, o)
      BY <3>1 DEF Meant
    <3>3. MarkPkt(m, Meant(p, c, a, o), f, h)
      BY <2>2, <3>1 DEF MarkPkt
    <3>4. QED BY <3>2, <3>3 DEF m
  <2>9. QED BY <2>3, <2>5, <2>6, <2>7, <2>8 DEF WalkFinds
<1>2. Marked(r, a, has).pkt[Idle].id = 0 /\ Marked(r, a, has).pkt[Idle].mack = 0
  <2> DEFINE p == r.pkt[Idle]
             m == Marked(r, a, has).pkt[Idle]
  <2>1. p \in Packet /\ p.id = 0 /\ p.mack = 0
    BY RingPkt, CellFacts DEF RingMarks
  <2>2. WalkFinds(p, m, has)
    BY MarkedFinds, CellFacts
  <2> HIDE DEF m, p
  <2>3. m.id = 0 /\ m.mack = 0
    BY <2>1, <2>2 DEF WalkFinds, Packet
  <2>4. QED BY <2>3 DEF m
<1>3. QED BY <1>1, <1>2 DEF RingMarks
-----------------------------------------------------------------------------
LEMMA MarksClosed ==
    ASSUME NEW r \in Ring, NEW a \in Cells, NEW o, NEW f, NEW h, RingMarks(r, a, o, f, h),
           a \in Slots => r.pkt[a].st # "FREE" /\ r.pkt[a].st # "WAIT_FOR_EXTRA_PACKETS"
    PROVE RingMarks(CloseActive(r, a), a, o, f, h)
<1>1. ASSUME NEW c \in Slots
      PROVE MarkPkt(CloseActive(r, a).pkt[c], Meant(CloseActive(r, a).pkt[c], c, a, o), f, h)
  <2> DEFINE p == r.pkt[c]
             m == CloseActive(r, a).pkt[c]
  <2>1. p \in Packet /\ MarkPkt(p, Meant(p, c, a, o), f, h)
    BY RingPkt, CellFacts DEF RingMarks
  <2>2. m = p \/ ((c = a \/ p.st = "SENT_NOACKED") /\ m = [p EXCEPT !.st = "LOST"])
    BY CloseActiveShape, CellFacts
  <2>3. c = a \/ p.st = "SENT_NOACKED" => Meant(p, c, a, o) = p.st /\ p.st # "FREE"
    BY DEF Meant
  <2> HIDE DEF m, p
  <2>4. CASE m = p
    BY <2>1, <2>4 DEF m
  <2>5. CASE (c = a \/ p.st = "SENT_NOACKED") /\ m = [p EXCEPT !.st = "LOST"]
    <3>1. /\ m.id = p.id /\ m.kind = p.kind /\ m.ack = p.ack /\ m.iter = p.iter
          /\ m.mack = p.mack /\ m.st = "LOST"
      BY <2>1, <2>5 DEF Packet
    <3>2. Meant(m, c, a, o) = "LOST"
      BY <3>1 DEF Meant
    <3>3. MarkPkt(m, "LOST", f, h)
      BY <2>1, <2>3, <2>5, <3>1, MarkOther
    <3>4. QED BY <3>2, <3>3 DEF m
  <2>6. QED BY <2>2, <2>4, <2>5
<1>2. CloseActive(r, a).pkt[Idle].id = 0 /\ CloseActive(r, a).pkt[Idle].mack = 0
  <2> DEFINE p == r.pkt[Idle]
             m == CloseActive(r, a).pkt[Idle]
  <2>1. p \in Packet /\ p.id = 0 /\ p.mack = 0
    BY RingPkt, CellFacts DEF RingMarks
  <2>2. m = p \/ m = [p EXCEPT !.st = "LOST"]
    BY CloseActiveShape, CellFacts
  <2> HIDE DEF m, p
  <2>3. m.id = 0 /\ m.mack = 0
    BY <2>1, <2>2 DEF Packet
  <2>4. QED BY <2>3 DEF m
<1>3. QED BY <1>1, <1>2 DEF RingMarks

\* What becomes of a packet that is no SYNC, when a loss queues one: it stays,
\* or it was not needed any more and gave its slot to the SYNC.
LEMMA AfterLossCell ==
    ASSUME NEW r \in Ring, NEW policy, NEW c \in Cells, ulIter \in Iters,
           r.pkt[c].kind \in AppKinds
    PROVE LET q == AfterLoss(r, policy).pkt[c]
          IN  \/ q = r.pkt[c]
              \/ /\ policy # "keep" /\ ~Blocked(r.pkt[c])
                 /\ q = SysPkt("SYNC", "NEED_TO_SEND_RIGHT_NOW", ulIter)
<1> DEFINE g == [d \in Cells |-> IF d \in SysQueued(r, "SYNC") THEN FreePkt ELSE r.pkt[d]]
           q == [r EXCEPT !.pkt = g]
           y == SysPkt("SYNC", "NEED_TO_SEND_RIGHT_NOW", ulIter)
<1>1. CASE policy = "keep"
  BY <1>1 DEF AfterLoss
<1>2. CASE policy # "keep"
  <2>1. AfterLoss(r, policy) = Alloc(q, y)
    BY <1>2 DEF AfterLoss, SendSync
  <2>2. g[c] = r.pkt[c] /\ g \in [Cells -> Packet]
    BY RingPkt, FreePktType DEF SysQueued, AppKinds
  <2>3. q.pkt = g /\ q.head = r.head /\ q.head \in Cells
    <3> HIDE DEF g
    <3> QED BY CellFacts DEF Ring
  <2> HIDE DEF y, q, g
  <2>4. CASE CanAlloc(q) /\ c = q.head
    <3>1. Alloc(q, y).pkt[c] = y
      BY <2>2, <2>3, <2>4 DEF Alloc
    <3>2. ~Blocked(r.pkt[c])
      BY <2>2, <2>3, <2>4 DEF CanAlloc
    <3>3. QED BY <1>2, <2>1, <3>1, <3>2 DEF y
  <2>5. CASE ~(CanAlloc(q) /\ c = q.head)
    <3>1. Alloc(q, y).pkt[c] = q.pkt[c]
      BY <2>2, <2>3, <2>5 DEF Alloc
    <3>2. QED BY <2>1, <2>2, <2>3, <3>1
  <2>6. QED BY <2>4, <2>5
<1>3. QED BY <1>1, <1>2

\* The window of the next ACK has room for the packet that asks for it.
LEMMA NextWindow ==
    ASSUME IterMod <= 64, NEW w \in 0 .. 63, NEW i \in Iters, NEW j \in Iters,
           \/ \E k \in 0 .. w - 1 : j = (i - k) % IterMod
           \/ w = 0 /\ i # j
    PROVE (w - ((i - j) % IterMod)) % 64 \in 1 .. 63
<1>0. IterMod \in Nat \ {0} /\ i \in 0 .. IterMod - 1 /\ j \in 0 .. IterMod - 1
  BY DEF Iters
<1> DEFINE d == (i - j) % IterMod
<1>1. d \in 0 .. IterMod - 1
  BY <1>0
<1>2. d = IF i >= j THEN i - j ELSE i - j + IterMod
  BY <1>0
<1>3. CASE \E k \in 0 .. w - 1 : j = (i - k) % IterMod
  <2>1. PICK k \in 0 .. w - 1 : j = (i - k) % IterMod
    BY <1>3
  <2>2. d <= k
    <3>1. k \in Nat
      OBVIOUS
    <3>2. CASE k >= IterMod
      <4> HIDE DEF d
      <4> QED BY <1>0, <1>1, <3>1, <3>2
    <3>3. CASE k < IterMod
      <4>1. j = IF i >= k THEN i - k ELSE i - k + IterMod
        BY <1>0, <2>1, <3>1, <3>3
      <4> HIDE DEF d
      <4>2. QED BY <1>0, <1>2, <3>1, <3>3, <4>1
    <3>4. QED BY <1>0, <3>1, <3>2, <3>3
  <2> HIDE DEF d
  <2>3. w - d \in 1 .. 63
    BY <1>0, <1>1, <2>2
  <2>4. QED BY <2>3 DEF d
<1>4. CASE w = 0 /\ i # j
  <2>1. d \in 1 .. 63
    <3> HIDE DEF d
    <3> QED BY <1>0, <1>1, <1>2, <1>4
  <2> HIDE DEF d
  <2>2. (0 - d) % 64 = 64 - d
    BY <2>1
  <2>3. QED BY <1>4, <2>1, <2>2 DEF d
<1>5. QED BY <1>3, <1>4

LEMMA MarksAsked ==
    ASSUME NEW r \in Ring, NEW a \in Cells, NEW s \in Slots, NEW o, NEW f, NEW h,
           RingMarks(r, a, o, f, h), r.pkt[s].kind \in AppKinds,
           r.pkt[s].st = "QUEUED_AGAIN",
           (r.pkt[a].mack - ((r.pkt[a].iter - r.pkt[s].iter) % IterMod)) % 64 \in 1 .. 63
    PROVE RingMarks(AskAgain(r, a, s), a, o, f, h)
<1> DEFINE n == (r.pkt[a].mack - ((r.pkt[a].iter - r.pkt[s].iter) % IterMod)) % 64
           p == r.pkt[s]
           q == [p EXCEPT !.ack = TRUE, !.mack = n]
<1>1. s \in Cells /\ s # Idle
  BY CellFacts
<1>2. AskAgain(r, a, s) = SetPkt(r, s, q)
  BY <1>1 DEF AskAgain, SetPkt, Ring
<1>3. p \in Packet /\ MarkPkt(p, Meant(p, s, a, o), f, h) /\ Meant(p, s, a, o) = "QUEUED_AGAIN"
  BY <1>1, RingPkt DEF RingMarks, Meant
<1> HIDE DEF n, p
<1>4. /\ q.id = p.id /\ q.kind = p.kind /\ q.iter = p.iter /\ q.st = p.st
      /\ q.ack = TRUE /\ q.mack = n
  BY <1>3 DEF Packet
<1> HIDE DEF q
<1>5. Meant(q, s, a, o) = "QUEUED_AGAIN"
  BY <1>3, <1>4 DEF Meant, p
<1>6. n \in 1 .. 63
  BY DEF n, p
<1>7. p.id # 0
  BY <1>3 DEF MarkPkt, p
<1>8. n > 0 /\ n < 64
  BY <1>6
<1>9. MarkPkt(q, "QUEUED_AGAIN", f, h)
  BY <1>3, <1>4, <1>7, <1>8 DEF MarkPkt
<1>10. QED BY <1>1, <1>2, <1>5, <1>9, MarksSet
LEMMA LapBound ==
    ASSUME NEW F \in Nat, NEW M \in Nat, NEW n \in 0 .. M PROVE n * F <= M * F
<1>1. M * F = n * F + (M - n) * F
  OBVIOUS
<1>2. (M - n) * F \in Nat /\ n * F \in Nat
  OBVIOUS
<1>3. QED BY <1>1, <1>2

LEMMA LapSoFar ==
    ASSUME NEW F \in Nat, LapFits(F), KnownInv(F)
    PROVE /\ sentId * F \in Nat /\ sentId * F <= MaxMsgs * F
          /\ sentId * F + (MaxHb - hbLeft) <= MaxMsgs * F + MaxHb
          /\ sentId \in 0 .. MaxMsgs /\ hbLeft \in 0 .. MaxHb
          /\ MaxMsgs * F \in Nat /\ MaxHb \in Nat /\ MaxMsgs \in Nat
<1>1. sentId \in 0 .. MaxMsgs /\ hbLeft \in 0 .. MaxHb
  BY DEF KnownInv, TypeOK
<1>2. MaxMsgs \in Nat /\ MaxHb \in Nat /\ MaxMsgs * F \in Nat
  BY LapNumbers
<1>3. sentId * F <= MaxMsgs * F
  BY <1>1, <1>2, LapBound
<1>4. sentId * F \in Nat
  BY <1>1, <1>2
<1> DEFINE x == sentId * F
           y == MaxMsgs * F
<1> HIDE DEF x, y
<1>5. x \in Nat /\ y \in Nat /\ x <= y
  BY <1>2, <1>3, <1>4 DEF x, y
<1>6. x + (MaxHb - hbLeft) <= y + MaxHb
  BY <1>1, <1>2, <1>5
<1>7. QED BY <1>1, <1>2, <1>3, <1>4, <1>6 DEF x, y

\* As long as the lap is not over, the next ITER is a new one.
LEMMA NextIsNew ==
    ASSUME NEW F \in Nat, LapFits(F), KnownInv(F), LossPolicies # {"keep"},
           NEW id \in Ids, NEW j, j \in frags[id]
    PROVE ulIter # j
<1> DEFINE n == sentId * F + (MaxHb - hbLeft)
           m == MaxMsgs * F + MaxHb
<1>1. n \in Int /\ m \in Int /\ n <= m
  BY LapSoFar
<1>2. m < IterMod
  BY DEF LapFits
<1>3. PICK k \in 0 .. n : ulIter = k % IterMod /\ \A i \in frags[id] : i < k
  BY DEF KnownInv, Counted
<1> HIDE DEF n, m
<1>4. j < k /\ j \in Int
  BY <1>3 DEF KnownInv, TypeOK, Iters
<1>5. ulIter = k /\ k \in Int
  BY <1>1, <1>2, <1>3
<1>6. QED BY <1>4, <1>5

LEMMA MarksResent ==
    ASSUME NEW F \in Nat, LapFits(F), KnownInv(F), NEW r \in Ring, NEW has,
           NEW policy \in LossPolicies,
           RingMarks(r, active, oldState, frags, heard),
           r.pkt[active].st = "WAIT_ACK", r.pkt[active].iter \in has,
           Known(has, frags, heard)
    PROVE RingMarks(Resend(r, active, has, policy).ring, active, oldState, frags, heard)
<1> DEFINE mk == Marked(r, active, has)
           cl == CloseActive(mk, active)
           r1 == IF GivenUp(r, active, has) = {} THEN mk ELSE AfterLoss(cl, policy)
           u1 == GaveUpStatus(r, active, has, ul)
           k0 == FirstAbsent(r, active, has)
           r2 == IF LeftOver(r, active, has) = {} THEN SendClear(r1, r1.pkt[active].iter)
                 ELSE r1
           M(q) == RingMarks(q, active, oldState, frags, heard)
<1>1. active \in Cells /\ ulIter \in Iters /\ Apart(frags)
  BY DEF KnownInv, TypeOK
<1>2. mk \in Ring /\ M(mk)
  BY <1>1, MarkedType, MarksMarked
<1>3. mk.pkt[active].st \in Handled
  BY <1>1, MarkedActive DEF Handled
<1>4. cl \in Ring /\ M(cl)
  <2>1. mk.pkt[active].st # "FREE" /\ mk.pkt[active].st # "WAIT_FOR_EXTRA_PACKETS"
    BY <1>3 DEF Handled
  <2> HIDE DEF mk
  <2>2. QED BY <1>1, <1>2, <2>1, CloseActiveType, MarksClosed
<1>5. r1 \in Ring /\ M(r1)
  <2> HIDE DEF mk, cl
  <2>1. AfterLoss(cl, policy) \in Ring
    BY <1>1, <1>4, AfterLossType
  <2>2. M(AfterLoss(cl, policy))
    BY <1>4, AfterLossStill, MarksStill
  <2>3. QED BY <1>2, <2>1, <2>2
<1>6. M(r2)
  <2> HIDE DEF r1
  <2>1. StillRing(r1, SendClear(r1, r1.pkt[active].iter))
    BY <1>5, SendClearStill
  <2>2. QED BY <1>5, <2>1, MarksStill
<1>7. CASE k0 = None
  <2>1. Resend(r, active, has, policy).ring = r2
    BY <1>7 DEF Resend
  <2> HIDE DEF r2
  <2>2. QED BY <1>6, <2>1
<1>8. CASE k0 # None
  <2> DEFINE s == At(r, active, k0)
  <2>1. Resend(r, active, has, policy).ring = AskAgain(r1, active, s)
    BY <1>8 DEF Resend
  <2>2. k0 \in Absent(r, active, has)
    BY <1>8, AnyOfIn DEF FirstAbsent
  <2>3. /\ k0 \in Walked(r, active, has) /\ k0 \in 0 .. r.pkt[active].mack - 1
        /\ (r.pkt[active].iter - k0) % IterMod \notin has
    BY <2>2 DEF Absent, Missing, Walked, AckWindow
  <2> HIDE DEF k0
  <2>4. /\ s \in Slots /\ s \in Cells /\ s # active
        /\ r.pkt[s].kind \in AppKinds /\ r.pkt[s].iter = (r.pkt[active].iter - k0) % IterMod
    <3>1. s # None
      BY <1>1, <2>3, WalkedAt
    <3>2. s \in Slots /\ r.pkt[s].kind \in AppKinds
          /\ r.pkt[s].iter = (r.pkt[active].iter - k0) % IterMod
      BY <3>1, AtOnAir, AtApp
    <3> HIDE DEF s
    <3>3. QED BY <2>3, <3>2, CellFacts
  <2>5. mk.pkt[s] = [r.pkt[s] EXCEPT !.st = "QUEUED_AGAIN", !.retry = @ + 1]
    <3>1. \E k \in Absent(r, active, has) : At(r, active, k) = s
      BY <2>2
    <3> HIDE DEF s
    <3>2. QED BY <2>4, <3>1 DEF Marked, Ring
  <2> HIDE DEF s
  <2>6. /\ mk.pkt[s].st = "QUEUED_AGAIN" /\ mk.pkt[s].kind \in AppKinds
        /\ mk.pkt[s].iter = r.pkt[s].iter
    <3>1. r.pkt[s] \in Packet
      BY <2>4, RingPkt
    <3> HIDE DEF mk
    <3>2. QED BY <2>4, <2>5, <3>1 DEF Packet
  <2>7. /\ r.pkt[active].mack \in 1 .. 63 /\ active \in Slots
        /\ r.pkt[active].kind \in AppKinds /\ r.pkt[active] \in Packet
    <3>1. r.pkt[active] \in Packet
      BY <1>1, RingPkt
    <3>2. r.pkt[active].mack \in Nat /\ r.pkt[active].mack > 0
      BY <2>3, <3>1 DEF Packet
    <3>3. active \in Slots
      BY <1>1, <3>2, CellFacts DEF RingMarks
    <3>4. MarkPkt(r.pkt[active], Meant(r.pkt[active], active, active, oldState), frags, heard)
      BY <3>3 DEF RingMarks
    <3>5. r.pkt[active].id # 0
      BY <3>2, <3>4 DEF MarkPkt
    <3>6. r.pkt[active].mack < 64 /\ r.pkt[active].kind \in AppKinds
      BY <3>4, <3>5 DEF MarkPkt
    <3>7. QED BY <3>1, <3>2, <3>3, <3>6
  <2>8. /\ mk.pkt[active].mack = r.pkt[active].mack /\ mk.pkt[active].iter = r.pkt[active].iter
        /\ mk.pkt[active].kind \in AppKinds /\ mk.pkt[active] \in Packet
    <3>1. WalkFinds(r.pkt[active], mk.pkt[active], has)
      BY <1>1, MarkedFinds
    <3>2. mk.pkt[active] \in Packet
      BY <1>1, <1>2, RingPkt
    <3> HIDE DEF mk
    <3>3. QED BY <2>7, <3>1, <3>2 DEF WalkFinds, Packet
  <2>9. /\ r1.pkt[s] = mk.pkt[s]
        /\ \/ /\ r1.pkt[active].mack = r.pkt[active].mack
              /\ r1.pkt[active].iter = r.pkt[active].iter
           \/ /\ r1.pkt[active].mack = 0 /\ r1.pkt[active].iter = ulIter
              /\ LossPolicies # {"keep"}
    <3>1. CASE GivenUp(r, active, has) = {}
      BY <2>8, <3>1
    <3>2. CASE GivenUp(r, active, has) # {}
      <4>1. r1 = AfterLoss(cl, policy)
        BY <3>2
      <4>2. /\ cl.pkt[s] = mk.pkt[s]
            /\ cl.pkt[active] = [mk.pkt[active] EXCEPT !.st = "LOST"]
        <5> HIDE DEF mk
        <5>1. \A c \in Cells : cl.pkt[c] =
                IF c = active \/ (c \in Slots /\ mk.pkt[c].st = "SENT_NOACKED")
                THEN [mk.pkt[c] EXCEPT !.st = "LOST"] ELSE mk.pkt[c]
          BY <1>2, CloseActiveShape
        <5> HIDE DEF cl
        <5>2. cl.pkt[active] = [mk.pkt[active] EXCEPT !.st = "LOST"]
          BY <1>1, <5>1
        <5>3. cl.pkt[s] = mk.pkt[s]
          BY <2>4, <2>6, <5>1
        <5>4. QED BY <5>2, <5>3
      <4>3. /\ cl.pkt[active].mack = r.pkt[active].mack
            /\ cl.pkt[active].iter = r.pkt[active].iter
            /\ cl.pkt[active].kind \in AppKinds
        <5> HIDE DEF mk, cl
        <5> QED BY <2>8, <4>2 DEF Packet
      <4>4. Blocked(cl.pkt[s]) /\ cl.pkt[s].kind \in AppKinds
        <5> HIDE DEF mk, cl
        <5> QED BY <2>6, <4>2 DEF Blocked
      <4> HIDE DEF mk, cl, r1
      <4>5. r1.pkt[s] = cl.pkt[s]
        BY <1>1, <1>4, <2>4, <4>1, <4>4, AfterLossCell
      <4>6. \/ r1.pkt[active] = cl.pkt[active]
            \/ /\ policy # "keep"
               /\ r1.pkt[active] = SysPkt("SYNC", "NEED_TO_SEND_RIGHT_NOW", ulIter)
        BY <1>1, <1>4, <4>1, <4>3, AfterLossCell
      <4>7. QED BY <4>2, <4>3, <4>5, <4>6 DEF SysPkt, FreePkt
    <3>3. QED BY <3>1, <3>2
  <2> HIDE DEF mk, cl, r1
  <2>10. r1.pkt[s].iter \in Iters /\ r1.pkt[active].iter \in Iters
    BY <1>1, <1>5, <2>4, RingPkt DEF Packet
  <2>11. LossPolicies # {"keep"} => ulIter # r1.pkt[s].iter
    <3>1. MarkPkt(r1.pkt[s], Meant(r1.pkt[s], s, active, oldState), frags, heard)
      BY <1>5, <2>4 DEF RingMarks
    <3>2. Meant(r1.pkt[s], s, active, oldState) = "QUEUED_AGAIN"
      BY <2>6, <2>9 DEF Meant
    <3>3. r1.pkt[s].id # 0
      BY <2>6, <2>9, <3>1, <3>2 DEF MarkPkt
    <3>4. r1.pkt[s].id \in Ids /\ r1.pkt[s].iter \in frags[r1.pkt[s].id]
      BY <3>1, <3>3 DEF MarkPkt
    <3>5. QED BY <3>4, NextIsNew
  <2>12. (r1.pkt[active].mack - ((r1.pkt[active].iter - r1.pkt[s].iter) % IterMod)) % 64
            \in 1 .. 63
    <3> DEFINE w == r1.pkt[active].mack
               i == r1.pkt[active].iter
               j == r1.pkt[s].iter
    <3>1. w \in 0 .. 63
      BY <2>7, <2>9
    <3>2. \/ \E k \in 0 .. w - 1 : j = (i - k) % IterMod
          \/ w = 0 /\ i # j
      <4>1. j = (r.pkt[active].iter - k0) % IterMod
        BY <2>4, <2>6, <2>9
      <4>2. QED BY <2>3, <2>9, <2>11, <4>1
    <3>3. IterMod <= 64
      BY DEF LapFits
    <3> HIDE DEF w, i, j
    <3>4. (w - ((i - j) % IterMod)) % 64 \in 1 .. 63
      BY <2>10, <3>1, <3>2, <3>3, NextWindow DEF i, j
    <3>5. QED BY <3>4 DEF w, i, j
  <2>13. M(AskAgain(r1, active, s))
    BY <1>1, <1>5, <2>4, <2>6, <2>9, <2>12, MarksAsked
  <2>14. QED BY <2>1, <2>13
<1>9. QED BY <1>7, <1>8

\* An ACK of a heartbeat never meets a packet of a message: that one asks for
\* more than nothing.
LEMMA MarksTaken ==
    ASSUME NEW F \in Nat, LapFits(F), KnownInv(F), NEW r \in Ring,
           NEW policy \in LossPolicies,
           RingMarks(r, active, oldState, frags, heard),
           AckAccepted(r, station.reply), r.pkt[active].st = "WAIT_ACK"
    PROVE RingMarks(TakeAck(r, station.reply, policy).ring, active, oldState, frags, heard)
<1> DEFINE y == station.reply
           p == r.pkt[active]
<1>1. active \in Cells /\ p \in Packet /\ p.iter = y.iter
  BY RingPkt DEF KnownInv, TypeOK, AckAccepted
<1>2. CASE y.type = "ACK" /\ p.mack # 0
  <2>1. p.iter \in y.has /\ Known(y.has, frags, heard)
    BY <1>1, <1>2 DEF KnownInv, ReplyHolds, StationKnows
  <2>2. TakeAck(r, y, policy) = Resend(r, active, y.has, policy)
    BY <1>2 DEF TakeAck
  <2>3. QED BY <2>1, <2>2, MarksResent
<1>3. CASE y.type # "ACK" /\ p.mack # 0
  BY <1>3 DEF TakeAck
<1>4. CASE p.mack = 0
  <2> DEFINE t == TakeAck(r, y, policy)
  <2> HIDE DEF t
  <2>1. PICK d \in Packet, r1 \in Ring :
          /\ AsDelivered(d, p)
          /\ r1 = SetPkt(r, active, d) /\ r1.head = r.head
          /\ \A c \in Cells : r1.pkt[c] = IF c = active THEN d ELSE r.pkt[c]
          /\ t.ring = r1 \/ t.ring = SendClear(r1, d.iter)
          /\ \/ t.ul = ul
             \/ t.ul = SetStatus(ul, sentId, t.ring.pkt[active].id, "DELIVERED")
    BY <1>1, <1>4, TakeAckEmpty DEF t
  <2>2. d.id = p.id /\ d.mack = p.mack /\ d.kind = p.kind
    BY <2>1 DEF AsDelivered
  <2>3. ASSUME active \in Slots PROVE MarkPkt(d, Meant(d, active, active, oldState), frags, heard)
    <3>1. Meant(p, active, active, oldState) = "WAIT_ACK"
      BY DEF Meant
    <3>2. MarkPkt(p, "WAIT_ACK", frags, heard)
      BY <2>3, <3>1 DEF RingMarks
    <3> HIDE DEF p
    <3>3. p.id = 0 /\ p.kind \notin AppKinds
      BY <1>4, <3>2 DEF MarkPkt
    <3>4. QED BY <1>4, <2>2, <3>3 DEF MarkPkt
  <2>4. active = Idle => d.id = 0 /\ d.mack = 0
    BY <1>4, <2>2 DEF RingMarks
  <2> HIDE DEF p
  <2>5. RingMarks(r1, active, oldState, frags, heard)
    BY <1>1, <2>1, <2>3, <2>4, MarksSet
  <2>6. RingMarks(t.ring, active, oldState, frags, heard)
    BY <2>1, <2>5, SendClearStill, MarksStill
  <2>7. QED BY <2>6 DEF t
<1>5. QED BY <1>2, <1>3, <1>4

-----------------------------------------------------------------------------
\* What a step has to keep; the messages and the station may be left alone.
KnownStep ==
    /\ RingMarks(ring', active', oldState', frags, heard')
    /\ StationKnows(station', frags, heard')
    /\ ReplyHolds'

SameMessages == UNCHANGED <<sentId, notAcked, ulIter, hbLeft, frags>>

LEMMA KnownStepped ==
    ASSUME NEW F \in Nat, KnownInv(F), TypeOK', KnownStep, SameMessages
    PROVE KnownInv(F)'
BY DEF KnownInv, KnownStep, SameMessages

\* A step that leaves all but the ring alone.
LEMMA KnownQuiet ==
    ASSUME NEW F \in Nat, KnownInv(F), NEW r, r = ring \/ r = Restored(ring),
           StillRing(r, ring'), UNCHANGED <<active, oldState, station, heard>>
    PROVE KnownStep
<1>1. TypeOK /\ RingMarks(ring, active, oldState, frags, heard)
  BY DEF KnownInv
<1>2. RingMarks(r, active, oldState, frags, heard)
  BY <1>1, MarksRestored
<1>3. r \in Ring
  BY <1>1, RestoredType DEF TypeOK
<1>4. RingMarks(ring', active, oldState, frags, heard)
  BY <1>2, <1>3, MarksStill
<1>5. QED BY <1>4 DEF KnownStep, KnownInv, ReplyHolds

LEMMA KnownCleared ==
    ASSUME NEW F \in Nat, KnownInv(F), ring' = ClearTx(ring), active' = Idle,
           UNCHANGED <<oldState, station, heard>>
    PROVE KnownStep
<1>1. /\ ring'.pkt[Idle] = ring.pkt[Idle]
      /\ \A c \in Slots : ring'.pkt[c] = FreePkt
  BY CellFacts DEF KnownInv, TypeOK, ClearTx, Ring
<1>2. ASSUME NEW c \in Slots
      PROVE MarkPkt(ring'.pkt[c], Meant(ring'.pkt[c], c, Idle, oldState), frags, heard)
  <2>1. Meant(FreePkt, c, Idle, oldState) = "FREE"
    BY DEF Meant, FreePkt
  <2>2. QED BY <1>1, <2>1, FreeMark
<1>3. RingMarks(ring', Idle, oldState, frags, heard)
  BY <1>1, <1>2 DEF RingMarks, KnownInv
<1>4. QED BY <1>3 DEF KnownStep, KnownInv, ReplyHolds

\* What the station learns from a packet on the air.
LEMMA KnownAir ==
    ASSUME NEW F \in Nat, KnownInv(F), NEW p, Air(p),
           p.kind \in AppKinds => p.id \in Ids /\ p.iter \in frags[p.id]
    PROVE /\ StationKnows(station', frags, heard')
          /\ heard \subseteq heard'
<1>1. StationKnows(station, frags, heard)
  BY DEF KnownInv
<1>2. CASE UNCHANGED <<station, heard>>
  BY <1>1, <1>2
<1>3. CASE StationHears(p)
  <2> DEFINE holds == IF p.kind \in AppKinds THEN station.holds \cup {p.iter}
                      ELSE IF p.kind = "CLEAR_EXT" THEN {}
                      ELSE station.holds
  <2>1. heard' = IF p.kind \in AppKinds THEN heard \cup {<<p.id, p.iter>>} ELSE heard
    BY <1>3 DEF StationHears
  <2>2. /\ station'.holds = holds
        /\ \/ station'.reply = station.reply
           \/ station'.reply.type = "ACK" /\ station'.reply.has = holds
           \/ station'.reply.type = "ACK_ON_SYS"
    BY <1>3 DEF StationHears
  <2>3. heard \subseteq heard'
    BY <2>1
  <2>4. Known(holds, frags, heard')
    <3>1. Known(station.holds, frags, heard')
      BY <1>1, <2>3, KnownMore DEF StationKnows
    <3>2. CASE p.kind \in AppKinds
      <4>1. holds = station.holds \cup {p.iter} /\ <<p.id, p.iter>> \in heard'
        BY <2>1, <3>2
      <4> HIDE DEF holds
      <4>2. QED BY <3>1, <3>2, <4>1 DEF Known
    <3>3. CASE p.kind \notin AppKinds
      BY <3>1, <3>3 DEF Known
    <3>4. QED BY <3>2, <3>3
  <2>5. station.reply.type = "ACK" => Known(station.reply.has, frags, heard')
    BY <1>1, <2>3, KnownMore DEF StationKnows
  <2> HIDE DEF holds
  <2>6. QED BY <2>2, <2>3, <2>4, <2>5 DEF StationKnows
<1>4. QED BY <1>2, <1>3 DEF Air

Sendable == {"QUEUED", "QUEUED_AGAIN", "NEED_TO_SEND_RIGHT_NOW", "WAIT_ACK"}

LEMMA SentState ==
    ASSUME TypeOK, SendNext
    PROVE Sweep(ring, active).pkt[Queued(ring, active)].st \in Sendable
<1> DEFINE s == Queued(ring, active)
<1>1. s \in Slots /\ s # None /\ ring \in Ring
  BY SendNextShape, CellFacts DEF TypeOK
<1>2. s \in Urgent(ring) \cup Again(ring) \cup Fresh(ring, active)
  <2>1. \A S : Oldest(ring.head, S) # None => Oldest(ring.head, S) \in S
    BY OldestIn
  <2>2. CASE Urgent(ring) # {}
    BY <1>1, <2>1, <2>2 DEF Queued
  <2>3. CASE Urgent(ring) = {} /\ Again(ring) # {}
    BY <1>1, <2>1, <2>3 DEF Queued
  <2>4. CASE Urgent(ring) = {} /\ Again(ring) = {}
    BY <1>1, <2>1, <2>4 DEF Queued
  <2>5. QED BY <2>2, <2>3, <2>4
<1>3. Sweep(ring, active).pkt[s] = ring.pkt[s] \/ Sweep(ring, active).pkt[s].st = "QUEUED_AGAIN"
  BY <1>1, RingPkt, CellFacts DEF Sweep, Requeue, SetSt, Ring, Packet
<1> HIDE DEF s
<1>4. Sweep(ring, active).pkt[s].st \in Sendable
  BY <1>2, <1>3 DEF Urgent, Again, Fresh, InState, Sendable
<1>5. QED BY <1>4 DEF s

LEMMA SendNextKnown ==
    ASSUME NEW F \in Nat, KnownInv(F), SendNext
    PROVE KnownStep
<1> DEFINE r  == Sweep(ring, active)
           s  == Queued(ring, active)
           p  == r.pkt[s]
           q  == AfterAir(p)
           r1 == SetPkt(r, s, q)
<1>1. /\ s \in Slots /\ mode # "OFF"
      /\ ring.pkt[active].st \notin {"WAIT_ACK", "WAIT_FOR_EXTRA_PACKETS"}
      /\ r \in Ring /\ StillRing(ring, r)
      /\ r1 \in Ring /\ StillRing(r1, ring')
      /\ active' = IF StateOnAir(p) = "SENT" THEN Idle ELSE s
      /\ oldState' = oldState
      /\ Air(p)
  BY SendNextShape DEF KnownInv
<1>2. TypeOK /\ active \in Cells /\ ring \in Ring
  BY DEF KnownInv, TypeOK
<1>3. RingMarks(ring, Idle, oldState, frags, heard)
  <2>1. RingMarks(ring, active, oldState, frags, heard)
    BY DEF KnownInv
  <2>2. QED BY <1>1, <2>1, MarksMoved
<1>4. RingMarks(r, Idle, oldState, frags, heard)
  <2> HIDE DEF r
  <2> QED BY <1>1, <1>2, <1>3, MarksStill
<1>5. /\ s \in Cells /\ s # Idle /\ p \in Packet /\ MarkPkt(p, p.st, frags, heard)
      /\ p.st # "FREE"
  <2>1. s \in Cells /\ s # Idle
    BY <1>1, CellFacts
  <2>2. p \in Packet
    <3> HIDE DEF r, s
    <3> QED BY <1>1, <2>1, RingPkt
  <2>3. Meant(p, s, Idle, oldState) = p.st
    BY <2>1 DEF Meant
  <2>4. MarkPkt(p, p.st, frags, heard)
    <3> HIDE DEF r, s
    <3> QED BY <1>1, <1>4, <2>3 DEF RingMarks
  <2>5. p.st \in Sendable
    BY <1>1, <1>2, SentState
  <2>6. QED BY <2>1, <2>2, <2>4, <2>5 DEF Sendable
<1>6. p.kind \in AppKinds => p.id # 0 /\ p.id \in Ids /\ p.iter \in frags[p.id]
  <2> HIDE DEF p
  <2> QED BY <1>5 DEF MarkPkt
<1>7. StationKnows(station', frags, heard') /\ heard \subseteq heard'
  <2> HIDE DEF p
  <2> QED BY <1>1, <1>6, KnownAir
<1>8. RingMarks(r1, Idle, oldState, frags, heard)
  <2>1. Meant(q, s, Idle, oldState) = q.st
    BY <1>5 DEF Meant
  <2>2. MarkPkt(q, q.st, frags, heard)
    <3>1. CASE q = FreePkt
      <4>1. q.st = "FREE"
        BY <3>1 DEF FreePkt
      <4> HIDE DEF q
      <4>2. QED BY <3>1, <4>1, FreeMark
    <3>2. CASE q # FreePkt
      <4>1. /\ q.st = IF p.ack THEN "WAIT_ACK" ELSE "SENT_NOACKED"
            /\ q.id = p.id /\ q.kind = p.kind /\ q.ack = p.ack
            /\ q.iter = p.iter /\ q.mack = p.mack
        BY <1>1, <1>2, <1>5, <3>2, AfterAirShape
      <4> HIDE DEF p, q
      <4>2. QED BY <1>5, <4>1 DEF MarkPkt
    <3>3. QED BY <3>1, <3>2
  <2> HIDE DEF r, s, q
  <2>3. QED BY <1>1, <1>4, <1>5, <2>1, <2>2, MarksSet
<1>9. RingMarks(ring', active', oldState', frags, heard')
  <2>1. r1.pkt[s].st # "WAIT_FOR_EXTRA_PACKETS"
    <3>1. r1.pkt[s] = q
      <4> HIDE DEF q, r, s
      <4> QED BY <1>1, <1>5 DEF SetPkt, Ring
    <3>2. q.st # "WAIT_FOR_EXTRA_PACKETS"
      <4>1. CASE q = FreePkt
        BY <4>1 DEF FreePkt
      <4>2. CASE q # FreePkt
        BY <1>1, <1>2, <1>5, <4>2, AfterAirShape
      <4>3. QED BY <4>1, <4>2
    <3> HIDE DEF q, r1
    <3>3. QED BY <3>1, <3>2
  <2> HIDE DEF r1, s, p
  <2>2. RingMarks(r1, active', oldState, frags, heard)
    BY <1>1, <1>8, <2>1, MarksMoved
  <2>3. RingMarks(ring', active', oldState, frags, heard)
    BY <1>1, <2>2, MarksStill
  <2>4. QED BY <1>1, <1>7, <2>3, MarksMore
<1>10. ReplyHolds'
  <2> HIDE DEF p
  <2> QED BY <1>1, AirHolds DEF KnownInv
<1>11. QED BY <1>7, <1>9, <1>10 DEF KnownStep
-----------------------------------------------------------------------------
LEMMA ReceiveTimeoutKnown ==
    ASSUME NEW F \in Nat, KnownInv(F), ReceiveTimeout PROVE KnownStep
<1> DEFINE p  == ring.pkt[active]
           p1 == [p EXCEPT !.retry = p.retry + 1]
           R  == [ring EXCEPT !.pkt[active].retry = @ + 1]
           M(q) == RingMarks(q, active, oldState, frags, heard)
<1>0. UNCHANGED <<active, oldState, station, heard>>
  BY DEF ReceiveTimeout, histVars
<1>1. active \in Cells /\ ring \in Ring /\ M(ring)
  BY DEF KnownInv, TypeOK
<1>2. p \in Packet /\ p.retry \in Nat /\ p.retry + 1 \in Nat
  BY <1>1, RingPkt DEF Packet
<1>3. ASSUME M(ring') PROVE KnownStep
  BY <1>0, <1>3 DEF KnownStep, KnownInv, ReplyHolds
<1>4. CASE p.st # "WAIT_ACK"
  BY <1>1, <1>3, <1>4 DEF ReceiveTimeout
<1>5. ASSUME p.st = "WAIT_ACK"
      PROVE /\ active \in Slots => MarkPkt(p, "WAIT_ACK", frags, heard)
            /\ active = Idle => p.id = 0 /\ p.mack = 0
  BY <1>1, <1>5 DEF RingMarks, Meant
<1>6. ASSUME p.st = "WAIT_ACK", TimeoutRetry PROVE KnownStep
  <2> DEFINE p2 == [p1 EXCEPT !.st = "QUEUED_AGAIN"]
  <2>1. ring' = SetPkt(ring, active, p2)
    BY <1>1, <1>2, <1>6 DEF TimeoutRetry, SetPkt, Ring, Packet
  <2>2. /\ p2.id = p.id /\ p2.st = "QUEUED_AGAIN" /\ p2.kind = p.kind /\ p2.ack = p.ack
        /\ p2.iter = p.iter /\ p2.mack = p.mack
    BY <1>2 DEF Packet
  <2> HIDE DEF p2, p
  <2>3. Meant(p2, active, active, oldState) = "QUEUED_AGAIN"
    BY <2>2 DEF Meant
  <2>4. active \in Slots => MarkPkt(p2, "QUEUED_AGAIN", frags, heard)
    BY <1>5, <1>6, <2>2, MarkOther
  <2>5. M(ring')
    BY <1>1, <1>5, <1>6, <2>1, <2>2, <2>3, <2>4, MarksSet
  <2>6. QED BY <1>3, <2>5
<1>7. ASSUME p.st = "WAIT_ACK", NEW policy, TimeoutLost(policy) PROVE KnownStep
  <2> DEFINE r1 == CloseActive(R, active)
             c  == r1.pkt[active]
             q2 == [[c EXCEPT !.retry = 0] EXCEPT !.st = "QUEUED"]
             r2 == IF policy = "requeue"
                   THEN [r1 EXCEPT !.pkt[active].retry = 0, !.pkt[active].st = "QUEUED"]
                   ELSE r1
  <2>1. /\ p1 \in Packet /\ p1.id = p.id /\ p1.st = "WAIT_ACK" /\ p1.kind = p.kind
        /\ p1.ack = p.ack /\ p1.iter = p.iter /\ p1.mack = p.mack
    BY <1>2, <1>7, PktRetryType DEF Packet
  <2>2. R = SetPkt(ring, active, p1)
    BY <1>1 DEF SetPkt, Ring
  <2>3. active \in Slots => MarkPkt(p1, Meant(p1, active, active, oldState), frags, heard)
    <3> HIDE DEF p, p1
    <3>1. Meant(p1, active, active, oldState) = "WAIT_ACK"
      BY <2>1 DEF Meant
    <3>2. active \in Slots => MarkPkt(p1, "WAIT_ACK", frags, heard)
      BY <1>5, <1>7, <2>1, MarkOther
    <3>3. QED BY <3>1, <3>2
  <2>4. R \in Ring /\ M(R) /\ R.pkt[active] = p1
    <3> HIDE DEF R, p1, p
    <3>1. SetPkt(ring, active, p1).pkt[active] = p1
      BY <1>1 DEF SetPkt, Ring
    <3>2. active = Idle => p1.id = 0 /\ p1.mack = 0
      BY <1>5, <1>7, <2>1
    <3>3. QED BY <1>1, <2>1, <2>2, <2>3, <3>1, <3>2, SetPktType, MarksSet
  <2>5. r1 \in Ring /\ M(r1) /\ c.st = "LOST"
    <3> HIDE DEF R, p1
    <3>1. r1 \in Ring /\ M(r1)
      BY <1>1, <2>1, <2>4, CloseActiveType, MarksClosed
    <3>2. R.pkt[active] \in Packet
      BY <1>1, <2>4, RingPkt
    <3>3. c = [R.pkt[active] EXCEPT !.st = "LOST"]
      BY <1>1, <2>4, CloseActiveShape
    <3>4. c.st = "LOST"
      BY <3>2, <3>3 DEF Packet
    <3>5. QED BY <3>1, <3>4
  <2>6. r2 \in Ring /\ M(r2)
    <3> HIDE DEF r1
    <3>1. c \in Packet
      BY <1>1, <2>5, RingPkt
    <3>2. q2 \in Packet
      BY <3>1, PktRetryType, PktStType DEF States
    <3>3. /\ q2.st = "QUEUED" /\ q2.id = c.id /\ q2.kind = c.kind /\ q2.ack = c.ack
          /\ q2.iter = c.iter /\ q2.mack = c.mack
      BY <3>1 DEF Packet
    <3>4. [r1 EXCEPT !.pkt[active].retry = 0, !.pkt[active].st = "QUEUED"]
            = SetPkt(r1, active, q2)
      BY <1>1, <2>5 DEF SetPkt, Ring, Packet
    <3>5. /\ active \in Slots => MarkPkt(c, "LOST", frags, heard)
          /\ active = Idle => c.id = 0 /\ c.mack = 0
      BY <1>1, <2>5 DEF RingMarks, Meant
    <3> HIDE DEF q2, c
    <3>6. Meant(q2, active, active, oldState) = "QUEUED"
      BY <3>3 DEF Meant
    <3>7. active \in Slots => MarkPkt(q2, "QUEUED", frags, heard)
      BY <3>3, <3>5, MarkOther
    <3>8. SetPkt(r1, active, q2) \in Ring /\ M(SetPkt(r1, active, q2))
      BY <1>1, <2>5, <3>2, <3>3, <3>5, <3>6, <3>7, SetPktType, MarksSet
    <3>9. QED BY <2>5, <3>4, <3>8
  <2>7. ring' = AfterLoss(r2, policy)
    BY <1>7 DEF TimeoutLost
  <2> HIDE DEF r2
  <2>8. M(ring')
    BY <2>6, <2>7, AfterLossStill, MarksStill
  <2>9. QED BY <1>3, <2>8
<1>8. QED BY <1>4, <1>6, <1>7 DEF ReceiveTimeout

LEMMA RxAckKnown ==
    ASSUME NEW F \in Nat, LapFits(F), KnownInv(F), RxAck PROVE KnownStep
<1> DEFINE r == Restored(ring)
           M(q) == RingMarks(q, active, oldState, frags, heard)
<1>1. UNCHANGED <<active, oldState, heard>> /\ active \in Cells /\ TypeOK
  BY DEF RxAck, KnownInv, TypeOK, histVars
<1>2. r \in Ring /\ M(r)
  BY <1>1, RestoredType, MarksRestored DEF KnownInv, TypeOK
<1>3. ReplyHolds' /\ StationKnows(station', frags, heard)
  BY <1>1 DEF RxAck, ReplyHolds, NoReply, TypeOK, StationKnows, KnownInv
<1> HIDE DEF r
<1>4. M(ring')
  <2>1. CASE AckAccepted(r, station.reply)
    <3>1. PICK policy \in LossPolicies :
            ring' = LookAtQueue(TakeAck(r, station.reply, policy).ring, active)
      BY <2>1 DEF RxAck, r
    <3>2. r.pkt[active].st = "WAIT_ACK"
      BY <2>1 DEF AckAccepted
    <3>3. M(TakeAck(r, station.reply, policy).ring)
      BY <1>2, <2>1, <3>2, MarksTaken
    <3>4. TakeAck(r, station.reply, policy).ring \in Ring
      BY <1>1, <1>2, TakeAckType
    <3>5. QED BY <3>1, <3>3, <3>4, LookAtQueueStill, MarksStill
  <2>2. CASE ~AckAccepted(r, station.reply)
    <3>1. ring' = LookAtQueue(r, active)
      BY <2>2 DEF RxAck, r
    <3>2. QED BY <1>2, <3>1, LookAtQueueStill, MarksStill
  <2>3. QED BY <2>1, <2>2
<1>5. QED BY <1>1, <1>3, <1>4 DEF KnownStep

LEMMA RxMessageKnown ==
    ASSUME NEW F \in Nat, KnownInv(F), TypeOK', NEW ack \in BOOLEAN,
           NEW multi \in BOOLEAN, NEW repeated \in BOOLEAN, RxMessage(ack, multi, repeated)
    PROVE KnownStep
<1> DEFINE r1 == Restored(ring)
<1>0. TypeOK /\ active' \in Cells
  BY DEF KnownInv, TypeOK
<1>1. /\ UNCHANGED <<station, heard>>
      /\ \/ active' = active
         \/ active' = Idle /\ r1.pkt[active].st # "WAIT_FOR_EXTRA_PACKETS"
  BY <1>0, RxMessageShape DEF histVars
<1>2. PICK r \in Ring, q \in Ring : /\ StillRing(r1, r)
                                    /\ Saved(r, q, active', oldState, oldState')
                                    /\ StillRing(q, ring')
  BY <1>0, RxMessageShape
<1>3. r1 \in Ring /\ RingMarks(r1, active, oldState, frags, heard)
  BY <1>0, RestoredType, MarksRestored DEF KnownInv, TypeOK
<1> HIDE DEF r1
<1>4. RingMarks(r1, active', oldState, frags, heard)
  BY <1>1, <1>3, MarksMoved
<1>5. RingMarks(r, active', oldState, frags, heard)
  BY <1>2, <1>3, <1>4, MarksStill
<1>6. RingMarks(q, active', oldState', frags, heard)
  <2>1. \A c \in Cells : /\ Alike(r.pkt[c], q.pkt[c])
                         /\ Meant(q.pkt[c], c, active', oldState')
                              = Meant(r.pkt[c], c, active', oldState)
    BY <1>0, <1>2, SavedAlike
  <2>2. QED BY <1>5, <2>1, MarksAlike
<1>7. RingMarks(ring', active', oldState', frags, heard)
  BY <1>2, <1>6, MarksStill
<1>8. QED BY <1>1, <1>7 DEF KnownStep, KnownInv, ReplyHolds
-----------------------------------------------------------------------------
\* The heartbeat takes an ITER of its own.
LEMMA HeartBeatKnown ==
    ASSUME NEW F \in Nat, LapFits(F), KnownInv(F), TypeOK', HeartBeat
    PROVE KnownInv(F)'
<1> DEFINE n == sentId * F
<1>1. /\ UNCHANGED <<active, oldState, sentId, notAcked, station, frags, heard>>
      /\ hbLeft' = hbLeft - 1 /\ hbLeft > 0
      /\ ulIter' = ulIter \/ ulIter' = Wrap(ulIter + 1)
  BY DEF HeartBeat, histVars
<1>2. TypeOK /\ KnownStep
  BY <1>1, HeartBeatStill, KnownQuiet DEF KnownInv
<1>3. /\ n \in Nat /\ n <= MaxMsgs * F /\ MaxMsgs * F \in Nat /\ MaxHb \in Nat
      /\ hbLeft \in 0 .. MaxHb
  BY LapSoFar
<1>4. MaxMsgs * F + MaxHb <= IterMod
  BY DEF LapFits
<1>5. PICK j \in 0 .. n + (MaxHb - hbLeft) :
        ulIter = j % IterMod /\ \A id \in Ids : \A i \in frags[id] : i < j
  BY DEF KnownInv, Counted
<1>6. Counted(ulIter', n + (MaxHb - hbLeft'), frags)
  <2> DEFINE m == MaxMsgs * F
  <2> HIDE DEF n, m
  <2>1. n \in Nat /\ n <= m /\ m \in Nat /\ m + MaxHb <= IterMod
    BY <1>3, <1>4 DEF m
  <2>2. j < IterMod /\ j \in Nat
    BY <1>1, <1>3, <1>5, <2>1
  <2>3. j % IterMod = j
    BY <2>2
  <2>4. CASE ulIter' = ulIter
    <3>1. j \in 0 .. n + (MaxHb - hbLeft')
      BY <1>1, <1>3, <2>1
    <3>2. QED BY <1>5, <2>4, <3>1 DEF Counted
  <2>5. CASE ulIter' = Wrap(ulIter + 1)
    <3>1. j + 1 \in 0 .. n + (MaxHb - hbLeft')
      BY <1>1, <1>3, <2>1
    <3>2. ulIter' = (j + 1) % IterMod
      BY <1>5, <2>3, <2>5 DEF Wrap
    <3>3. ASSUME NEW id \in Ids, NEW i \in frags[id] PROVE i < j + 1
      <4>1. i \in Iters
        BY <1>2, <3>3 DEF TypeOK
      <4>2. QED BY <1>5, <2>2, <3>3, <4>1 DEF Iters
    <3>4. QED BY <3>1, <3>2, <3>3 DEF Counted
  <2>6. QED BY <1>1, <2>4, <2>5
<1>7. QED BY <1>1, <1>2, <1>6 DEF KnownInv, KnownStep

\* A packet of a new message: the j-th of n after this ITER.
Cut(p, id, it, j, m) ==
    /\ p.id = id /\ p.kind \in AppKinds /\ p.st = "QUEUED" /\ p.iter = Wrap(it + j)
    /\ p.mack \in Nat /\ p.mack <= m
    /\ p.ack => p.mack = m

LEMMA Send5Cut ==
    ASSUME NEW F \in Nat, LapFits(F), TypeOK, NEW len \in Lengths, NEW flags \in FlagSets,
           Send5(len, flags), sentId' # sentId
    PROVE \E k \in 0 .. F, m \in 1 .. notAcked + F :
             /\ sentId < MaxMsgs /\ sentId' = sentId + 1
             /\ ulIter' = Wrap(ulIter + k)
             /\ frags' = [frags EXCEPT ![sentId + 1] = {Wrap(ulIter + j) : j \in 0 .. k - 1}]
             /\ notAcked' <= notAcked + 1
             /\ \E r \in Ring :
                  /\ StillRing(ring, r)
                  /\ \A c \in Cells : \/ ring'.pkt[c] = r.pkt[c]
                                      \/ /\ c \in Slots
                                         /\ \E j \in 0 .. k - 1 :
                                              Cut(ring'.pkt[c], sentId + 1, ulIter, j, m)
<1> DEFINE r     == CountSweep(ring, active)
           id    == sentId + 1
           n     == Fragments(len)
           k     == Allocatable(r, n)
           first == IF "SAME_TX_ITER" \in flags /\ k > 0 THEN lastIter ELSE ulIter
           room  == IF len <= MaxPayload THEN FreeSlots(ring, active, transmit) >= Mack + 3
                    ELSE FreeSlots(ring, active, transmit) >= len \div MaxPayload + 3
           frag(c) == Fragment(id, len, flags, first, Age(r.head, c), n, notAcked, mode)
<1>1. /\ ring \in Ring /\ StillRing(ring, r) /\ r \in Ring /\ ulIter \in Int
      /\ sentId \in 0 .. MaxMsgs /\ MaxMsgs \in Nat /\ notAcked \in Nat
  BY CountSweepStill, CountSweepType, StatAssumption DEF TypeOK, Iters
<1>2. room /\ sentId < MaxMsgs /\ sentId' = id
  BY DEF Send5
<1>3. ring' = [pkt |-> [c \in Cells |-> IF c \in Slots /\ Age(r.head, c) < k
                                        THEN frag(c) ELSE r.pkt[c]],
               head |-> (r.head + k) % TxSize]
  BY <1>2 DEF Send5
<1>4. first = ulIter
  BY DEF LapFits
<1>5. /\ ulIter' = Wrap(ulIter + k)
      /\ frags' = [frags EXCEPT ![id] = {Wrap(ulIter + j) : j \in 0 .. k - 1}]
  <2>1. /\ ulIter' = Wrap(first + k)
        /\ frags' = [frags EXCEPT ![id] = {Wrap(first + j) : j \in 0 .. k - 1}]
    BY <1>2 DEF Send5
  <2> HIDE DEF first, k, id
  <2>2. QED BY <1>4, <2>1
<1>6. notAcked' <= notAcked + 1
  <2>1. notAcked' \in {notAcked, 0, notAcked + 1}
    BY <1>2 DEF Send5
  <2>2. QED BY <1>1, <2>1
<1>7. n \in Nat /\ n >= 1 /\ n <= F
  <2>1. n \in Nat /\ n >= 1
    <3>1. len \in Nat
      BY LengthAssumption
    <3>2. CASE len <= MaxPayload
      BY <3>2 DEF Fragments
    <3>3. CASE ~(len <= MaxPayload)
      <4>1. MaxPayload \in Nat /\ MaxPayload > 0
        BY LengthAssumption
      <4>2. (len + 3 + MaxPayload - 1) \div MaxPayload >= 1
        BY <3>1, <3>3, <4>1
      <4>3. (len + 3 + MaxPayload - 1) \div MaxPayload \in Nat
        BY <3>1, <4>1
      <4>4. QED BY <3>3, <4>2, <4>3 DEF Fragments
    <3>4. QED BY <3>2, <3>3
  <2>2. n <= F
    BY DEF LapFits
  <2>3. QED BY <2>1, <2>2
<1>8. k \in 0 .. n
  <2> DEFINE S == {i \in 0 .. n - 1 :
                     /\ Blocked(r.pkt[(r.head + i) % TxSize])
                     /\ \A j \in 0 .. i - 1 : ~Blocked(r.pkt[(r.head + j) % TxSize])}
  <2>1. k = IF AnyOf(S) = None THEN n ELSE AnyOf(S)
    BY DEF Allocatable
  <2>2. AnyOf(S) = None \/ AnyOf(S) \in 0 .. n - 1
    BY AnyOfIn
  <2> HIDE DEF S, k, n
  <2>3. QED BY <1>7, <2>1, <2>2
<1>9. id % IdMod = id
  <2>1. id \in Ids /\ MaxMsgs < IdMod
    BY <1>1, <1>2 DEF Ids, LapFits
  <2> HIDE DEF id
  <2>2. QED BY <2>1, SmallId
<1>10. ASSUME NEW c \in Cells
       PROVE \/ ring'.pkt[c] = r.pkt[c]
             \/ /\ c \in Slots
                /\ \E j \in 0 .. k - 1 : Cut(ring'.pkt[c], id, ulIter, j, notAcked + n)
  <2>1. CASE c \in Slots /\ Age(r.head, c) < k
    <3> DEFINE j == Age(r.head, c)
    <3>1. ring'.pkt[c] = frag(c)
      <4> HIDE DEF frag, r, k
      <4> QED BY <1>3, <2>1
    <3>2. j \in 0 .. k - 1
      <4>1. r.head \in Slots
        BY <1>1 DEF Ring
      <4> HIDE DEF r, k
      <4>2. j \in 0 .. TxSize - 1
        BY <2>1, <4>1, AgeFacts
      <4>3. k \in Nat
        BY <1>7, <1>8
      <4> HIDE DEF j
      <4>4. QED BY <2>1, <4>2, <4>3 DEF j
    <3>3. /\ frag(c).id = id % IdMod /\ frag(c).st = "QUEUED"
          /\ frag(c).iter = Wrap(first + j)
          /\ frag(c).kind \in {"SHORT", "START", "DATA"}
      BY Zenon DEF Fragment
    <3>4. /\ frag(c).mack = IF frag(c).ack THEN notAcked + n ELSE 0
      BY Zenon DEF Fragment
    <3> HIDE DEF frag, r, k, first, id, j, n
    <3>5. frag(c).mack \in Nat /\ frag(c).mack <= notAcked + n
      BY <1>1, <1>7, <3>4
    <3>6. Cut(frag(c), id, ulIter, j, notAcked + n)
      BY <1>4, <1>9, <3>3, <3>4, <3>5 DEF Cut, AppKinds
    <3>7. QED BY <2>1, <3>1, <3>2, <3>6
  <2>2. CASE ~(c \in Slots /\ Age(r.head, c) < k)
    <3> HIDE DEF frag, r, k
    <3> QED BY <1>3, <2>2
  <2>3. QED BY <2>1, <2>2
<1> HIDE DEF r, n, k, first, frag, room
<1>11. k \in 0 .. F /\ notAcked + n \in 1 .. notAcked + F
  BY <1>1, <1>7, <1>8
<1>12. QED BY <1>1, <1>2, <1>5, <1>6, <1>10, <1>11

LEMMA Send5Known ==
    ASSUME NEW F \in Nat, LapFits(F), KnownInv(F), TypeOK', NEW len \in Lengths,
           NEW flags \in FlagSets, Send5(len, flags)
    PROVE KnownInv(F)'
<1>1. TypeOK /\ ring \in Ring /\ UNCHANGED <<active, oldState, station, hbLeft, heard>>
  BY DEF KnownInv, TypeOK, Send5
<1>2. CASE sentId' = sentId
  <2>1. sentId # sentId + 1
    BY <1>1 DEF TypeOK
  <2>2. ring' = CountSweep(ring, active) /\ SameMessages
    BY <1>1, <1>2, <2>1 DEF Send5, SameMessages
  <2>3. KnownStep
    BY <1>1, <2>2, CountSweepStill, KnownQuiet
  <2>4. QED BY <2>2, <2>3, KnownStepped
<1>3. CASE sentId' # sentId
  <2> DEFINE id == sentId + 1
             x  == sentId * F
             y  == MaxMsgs * F
             h  == MaxHb - hbLeft
  <2>1. PICK k \in 0 .. F, m \in 1 .. notAcked + F :
             /\ sentId < MaxMsgs /\ sentId' = id
             /\ ulIter' = Wrap(ulIter + k)
             /\ frags' = [frags EXCEPT ![id] = {Wrap(ulIter + j) : j \in 0 .. k - 1}]
             /\ notAcked' <= notAcked + 1
             /\ \E r \in Ring :
                  /\ StillRing(ring, r)
                  /\ \A c \in Cells : \/ ring'.pkt[c] = r.pkt[c]
                                      \/ /\ c \in Slots
                                         /\ \E j \in 0 .. k - 1 :
                                              Cut(ring'.pkt[c], id, ulIter, j, m)
    BY <1>1, <1>3, Send5Cut
  <2>2. /\ sentId \in 0 .. MaxMsgs /\ MaxMsgs \in Nat /\ notAcked \in Nat
        /\ notAcked <= sentId /\ id \in Ids /\ id > sentId /\ id # 0 /\ id <= MaxMsgs
    <3>1. sentId \in 0 .. MaxMsgs /\ MaxMsgs \in Nat /\ notAcked \in Nat
      BY <1>1, LapNumbers DEF TypeOK
    <3>2. notAcked <= sentId
      BY DEF KnownInv
    <3>3. sentId < MaxMsgs
      BY <2>1
    <3>4. QED BY <3>1, <3>2, <3>3 DEF Ids
  <2>3. /\ x \in Nat /\ y \in Nat /\ h \in Nat /\ h <= MaxHb /\ MaxHb \in Nat
        /\ x + F <= y /\ y + MaxHb <= IterMod
        /\ id * F = x + F
    <3>1. x \in Nat /\ y \in Nat /\ hbLeft \in 0 .. MaxHb /\ MaxHb \in Nat
      BY LapSoFar
    <3>2. id * F = x + F
      BY <2>2
    <3>3. id * F <= y
      <4>1. id \in 0 .. MaxMsgs
        BY <2>2
      <4> HIDE DEF id
      <4>2. QED BY <2>2, <4>1, LapBound
    <3>4. y + MaxHb <= IterMod
      BY DEF LapFits
    <3> HIDE DEF x, y, id
    <3>5. QED BY <3>1, <3>2, <3>3, <3>4
  <2>4. PICK i0 \in 0 .. x + h :
          ulIter = i0 % IterMod /\ \A i \in Ids : \A v \in frags[i] : v < i0
    BY DEF KnownInv, Counted
  <2> HIDE DEF x, y, h
  <2>5. i0 \in Nat /\ k \in Nat /\ i0 + k <= IterMod /\ i0 + k \in 0 .. (x + F) + h
    BY <2>3, <2>4
  <2>6. k > 0 => ulIter = i0
    BY <2>4, <2>5
  <2>7. ASSUME NEW j \in 0 .. k - 1 PROVE Wrap(ulIter + j) = i0 + j
    <3>1. ulIter + j = i0 + j /\ i0 + j \in Nat /\ i0 + j < IterMod
      BY <2>5, <2>6
    <3>2. QED BY <3>1 DEF Wrap
  <2>8. /\ frags[id] = {} /\ frags'[id] = {Wrap(ulIter + j) : j \in 0 .. k - 1}
        /\ \A i \in Ids : i # id => frags'[i] = frags[i]
        /\ \A i \in Ids : frags[i] \subseteq frags'[i]
    <3>1. frags[id] = {}
      BY <2>2 DEF KnownInv
    <3> HIDE DEF id
    <3>2. QED BY <1>1, <2>1, <2>2, <3>1 DEF TypeOK
  <2> HIDE DEF id
  <2>9. ASSUME NEW v \in frags'[id] PROVE \E j \in 0 .. k - 1 : v = i0 + j
    BY <2>7, <2>8
  <2>10. Counted(ulIter', (x + F) + h, frags')
    <3>1. ulIter' = (i0 + k) % IterMod
      <4>1. CASE k > 0
        BY <2>1, <2>6, <4>1 DEF Wrap
      <4>2. CASE k = 0
        <5>1. ulIter + k = ulIter /\ ulIter \in 0 .. IterMod - 1
          BY <1>1, <4>2 DEF TypeOK, Iters
        <5>2. Wrap(ulIter + k) = ulIter
          BY <5>1 DEF Wrap
        <5>3. i0 + k = i0
          BY <2>5, <4>2
        <5>4. QED BY <2>1, <2>4, <5>2, <5>3
      <4>3. QED BY <2>5, <4>1, <4>2
    <3>2. ASSUME NEW i \in Ids, NEW v \in frags'[i] PROVE v < i0 + k
      <4>1. CASE i = id
        <5>1. PICK j \in 0 .. k - 1 : v = i0 + j
          BY <2>9, <3>2, <4>1
        <5>2. QED BY <2>5, <5>1
      <4>2. CASE i # id
        <5>1. v \in frags[i]
          BY <2>8, <3>2, <4>2
        <5>2. v < i0 /\ v \in Iters
          BY <1>1, <2>4, <5>1 DEF TypeOK
        <5>3. QED BY <2>5, <5>2 DEF Iters
      <4>3. QED BY <4>1, <4>2
    <3>3. QED BY <2>5, <3>1, <3>2 DEF Counted
  <2>11. Apart(frags')
    <3>1. ASSUME NEW i \in Ids, i # id PROVE frags'[i] \cap frags'[id] = {}
      <4>1. ASSUME NEW v \in frags[i], v \in frags'[id] PROVE FALSE
        <5>1. PICK j \in 0 .. k - 1 : v = i0 + j
          BY <2>9, <4>1
        <5>2. v < i0
          BY <2>4, <4>1
        <5>3. QED BY <2>5, <5>1, <5>2
      <4>2. QED BY <2>8, <3>1, <4>1
    <3>2. ASSUME NEW i \in Ids, NEW l \in Ids, i # l PROVE frags'[i] \cap frags'[l] = {}
      <4>1. CASE i = id \/ l = id
        BY <3>1, <3>2, <4>1
      <4>2. CASE i # id /\ l # id
        <5>1. frags[i] \cap frags[l] = {}
          BY <3>2 DEF KnownInv, Apart
        <5>2. QED BY <2>8, <4>2, <5>1
      <4>3. QED BY <4>1, <4>2
    <3>3. QED BY <3>2 DEF Apart
  <2>12. \A i \in Ids : i > sentId' => frags'[i] = {}
    <3>1. ASSUME NEW i \in Ids, i > id PROVE frags'[i] = {}
      <4>1. i # id /\ i > sentId
        BY <2>2, <3>1 DEF Ids
      <4>2. QED BY <2>8, <4>1 DEF KnownInv
    <3>2. QED BY <2>1, <3>1
  <2>13. RingMarks(ring', active, oldState, frags', heard)
    <3>1. PICK r \in Ring :
             /\ StillRing(ring, r)
             /\ \A c \in Cells : \/ ring'.pkt[c] = r.pkt[c]
                                 \/ /\ c \in Slots
                                    /\ \E j \in 0 .. k - 1 :
                                         Cut(ring'.pkt[c], id, ulIter, j, m)
      BY <2>1
    <3>2. RingMarks(ring, active, oldState, frags, heard)
      BY DEF KnownInv
    <3>3. RingMarks(r, active, oldState, frags', heard)
      BY <1>1, <2>8, <3>1, <3>2, MarksStill, MarksMore
    <3>4. ASSUME NEW c \in Slots
          PROVE MarkPkt(ring'.pkt[c], Meant(ring'.pkt[c], c, active, oldState), frags', heard)
      <4>1. CASE ring'.pkt[c] = r.pkt[c]
        BY <3>3, <4>1 DEF RingMarks
      <4>2. ASSUME NEW j \in 0 .. k - 1, Cut(ring'.pkt[c], id, ulIter, j, m)
            PROVE MarkPkt(ring'.pkt[c], Meant(ring'.pkt[c], c, active, oldState), frags', heard)
        <5> DEFINE p == ring'.pkt[c]
        <5>1. Cut(p, id, ulIter, j, m)
          BY <4>2
        <5> HIDE DEF p
        <5>2. Meant(p, c, active, oldState) = "QUEUED"
          BY <5>1 DEF Meant, Cut
        <5>3. p.iter \in frags'[id]
          BY <2>8, <5>1 DEF Cut
        <5>4. m \in Int /\ 0 < m /\ m < 64
          BY <2>2 DEF LapFits
        <5>5. p.mack < 64 /\ (p.ack => p.mack > 0)
          BY <5>1, <5>4 DEF Cut
        <5>6. MarkPkt(p, "QUEUED", frags', heard)
          BY <2>2, <5>1, <5>3, <5>5 DEF MarkPkt, Cut
        <5>7. QED BY <5>2, <5>6 DEF p
      <4>3. QED BY <3>1, <4>1, <4>2, CellFacts
    <3>5. ring'.pkt[Idle] = r.pkt[Idle]
      BY <3>1, CellFacts
    <3>6. QED BY <3>3, <3>4, <3>5 DEF RingMarks
  <2>14. StationKnows(station', frags', heard)
    BY <1>1, <2>8, KnownMore DEF KnownInv, StationKnows
  <2>15. ReplyHolds'
    BY <1>1 DEF KnownInv, ReplyHolds
  <2>16. notAcked' <= sentId' /\ MaxHb - hbLeft' = h /\ sentId' * F = x + F
    <3>1. notAcked' \in Nat
      BY DEF TypeOK
    <3>2. id = sentId + 1
      BY DEF id
    <3>3. notAcked' <= sentId'
      BY <2>1, <2>2, <3>1, <3>2
    <3>4. QED BY <1>1, <2>1, <2>3, <3>3 DEF h
  <2>17. QED
    BY <1>1, <2>10, <2>11, <2>12, <2>13, <2>14, <2>15, <2>16 DEF KnownInv
<1>4. QED BY <1>2, <1>3

-----------------------------------------------------------------------------
LEMMA KnownNext ==
    ASSUME NEW F \in Nat, LapFits(F), KnownInv(F), [Next]_vars PROVE KnownInv(F)'
<1>0. TypeOK /\ TypeOK' /\ ring \in Ring
  BY TypeOKNext DEF KnownInv, TypeOK
<1>1. ASSUME KnownStep, SameMessages PROVE KnownInv(F)'
  BY <1>0, <1>1, KnownStepped
<1>2. ASSUME NEW r, r = ring \/ r = Restored(ring), StillRing(r, ring'), SameMessages,
             UNCHANGED <<active, oldState, station, heard>>
      PROVE KnownInv(F)'
  BY <1>1, <1>2, KnownQuiet
<1>3. ASSUME ring' = ring, SameMessages, UNCHANGED <<active, oldState, station, heard>>
      PROVE KnownInv(F)'
  BY <1>2, <1>3, StillRefl
<1>4. CASE UNCHANGED vars
  BY <1>3, <1>4 DEF vars, devVars, histVars, SameMessages
<1>5. ASSUME NEW len \in Lengths, NEW flags \in FlagSets, Send5(len, flags)
      PROVE KnownInv(F)'
  BY <1>0, <1>5, Send5Known
<1>6. CASE SendNext
  BY <1>1, <1>6, SendNextKnown DEF SendNext, SameMessages
<1>7. CASE ArmTimer
  BY <1>3, <1>7 DEF ArmTimer, histVars, SameMessages
<1>8. CASE ProcessOff
  BY <1>1, <1>8, KnownCleared DEF ProcessOff, histVars, SameMessages
<1>9. CASE TxFinished
  <2>1. StillRing(ring, ring')
    BY <1>0, <1>9, SweepStill, StillRefl DEF TxFinished
  <2>2. SameMessages /\ UNCHANGED <<active, oldState, station, heard>>
    BY <1>9 DEF TxFinished, histVars, SameMessages
  <2>3. QED BY <1>2, <2>1, <2>2
<1>10. CASE ReceiveTimeout
  BY <1>1, <1>10, ReceiveTimeoutKnown DEF ReceiveTimeout, histVars, SameMessages
<1>11. CASE RxAck
  BY <1>1, <1>11, RxAckKnown DEF RxAck, histVars, SameMessages
<1>12. ASSUME NEW answer \in BOOLEAN, NEW ack \in BOOLEAN, RxSystem(answer, ack)
       PROVE KnownInv(F)'
  <2>1. StillRing(Restored(ring), ring') /\ UNCHANGED <<active, oldState, station, heard>>
    BY <1>0, <1>12, RxSystemShape DEF histVars
  <2>2. SameMessages
    BY <1>12, Zenon DEF RxSystem, histVars, SameMessages
  <2>3. QED BY <1>2, <2>1, <2>2
<1>13. ASSUME NEW ack \in BOOLEAN, NEW multi \in BOOLEAN, NEW repeated \in BOOLEAN,
              RxMessage(ack, multi, repeated)
       PROVE KnownInv(F)'
  <2>1. SameMessages
    BY <1>13, Zenon DEF RxMessage, histVars, SameMessages
  <2>2. QED BY <1>0, <1>1, <1>13, <2>1, RxMessageKnown
<1>14. CASE WaitExtraTimeout
  <2> DEFINE r == Restored(ring)
  <2>1. r \in Ring /\ ring' = Sweep(r, active)
        /\ UNCHANGED <<active, oldState, station, heard>> /\ SameMessages
    BY <1>0, <1>14, RestoredType DEF WaitExtraTimeout, TypeOK, histVars, SameMessages
  <2>2. StillRing(r, ring')
    <3> HIDE DEF r
    <3> QED BY <2>1, SweepStill
  <2>3. QED BY <1>2, <2>1, <2>2
<1>15. CASE WaitClearTimeout
  BY <1>3, <1>15 DEF WaitClearTimeout, histVars, SameMessages
<1>16. CASE HeartBeat
  BY <1>0, <1>16, HeartBeatKnown
<1>17. CASE ReportStatus
  BY <1>3, <1>17 DEF ReportStatus, SameMessages
<1>18. CASE GoToSleep
  BY <1>1, <1>18, KnownCleared DEF GoToSleep, histVars, SameMessages
<1>19. CASE WakeUp
  <2>1. StillRing(ring, ring')
    BY <1>0, <1>19, WakeUpStill
  <2>2. QED BY <1>2, <1>19, <2>1 DEF WakeUp, histVars, SameMessages
<1>20. QED
  BY <1>4, <1>5, <1>6, <1>7, <1>8, <1>9, <1>10, <1>11, <1>12, <1>13, <1>14, <1>15,
     <1>16, <1>17, <1>18, <1>19 DEF Next

LEMMA KnownInit == ASSUME NEW F \in Nat, LapFits(F), Init PROVE KnownInv(F)
<1>1. TypeOK
  BY OwnerInit DEF OwnerInv
<1>2. /\ sentId = 0 /\ notAcked = 0 /\ hbLeft = MaxHb /\ ulIter = 0 /\ active = Idle
      /\ station = [holds |-> {}, reply |-> NoReply]
      /\ \A id \in Ids : frags[id] = {}
      /\ heard = {}
  BY DEF Init
<1>3. RingMarks(ring, active, oldState, frags, heard)
  <2>1. EmptyRing \in Ring /\ SendSync(EmptyRing, 0) \in Ring
    BY EmptyRingType, SendSyncType DEF Iters
  <2>2. StillRing(EmptyRing, ring)
    BY <2>1, SendSyncStill, SendClearStill, StillTrans, StillRefl DEF Init
  <2>3. RingMarks(EmptyRing, active, oldState, frags, heard)
    <3>1. \A c \in Cells : EmptyRing.pkt[c] = FreePkt
      BY DEF EmptyRing
    <3>2. FreePkt.id = 0 /\ FreePkt.mack = 0 /\ FreePkt.st = "FREE"
      BY DEF FreePkt
    <3>3. \A c \in Slots : Meant(FreePkt, c, active, oldState) = "FREE"
      BY <3>2 DEF Meant
    <3>4. QED BY <3>1, <3>2, <3>3, FreeMark, CellFacts DEF RingMarks
  <2>4. QED BY <2>1, <2>2, <2>3, MarksStill
<1>4. Counted(ulIter, sentId * F + (MaxHb - hbLeft), frags)
  <2>1. sentId * F + (MaxHb - hbLeft) = 0
    BY <1>2, BoundAssumption
  <2>2. 0 \in 0 .. sentId * F + (MaxHb - hbLeft) /\ 0 % IterMod = 0
    BY <2>1
  <2>3. QED BY <1>2, <2>2 DEF Counted
<1>5. ReplyHolds /\ StationKnows(station, frags, heard)
  BY <1>2 DEF ReplyHolds, StationKnows, Known, NoReply
<1>6. QED BY <1>1, <1>2, <1>3, <1>4, <1>5 DEF KnownInv, Apart

\* A packet the walk over an ACK marked DELIVERED was heard by the base
\* station, whatever message of a group it belongs to and however often it was
\* asked for again (NBFi_Resend_Pkt): the mask of the ACK and the window of the
\* packet that asked for it stay lined up.  It needs that no ITER is used
\* twice and that the window fits the bits kept of it.
THEOREM MarkedIsHeard ==
    ASSUME NEW F \in Nat, LapFits(F) PROVE Spec => []AckedIsHeard
<1>1. Init => KnownInv(F)
  BY KnownInit
<1>2. KnownInv(F) /\ [Next]_vars => KnownInv(F)'
  BY KnownNext
<1>3. KnownInv(F) => AckedIsHeard
  <2>1. SUFFICES ASSUME KnownInv(F), NEW s \in Slots, ring.pkt[s].st = "DELIVERED",
                        ring.pkt[s].kind \in AppKinds
                 PROVE <<ring.pkt[s].id, ring.pkt[s].iter>> \in heard
    BY DEF AckedIsHeard
  <2>2. MarkPkt(ring.pkt[s], "DELIVERED", frags, heard)
    BY <2>1 DEF KnownInv, RingMarks, Meant
  <2>3. QED BY <2>1, <2>2 DEF MarkPkt
<1>4. QED BY <1>1, <1>2, <1>3, PTL DEF Spec
-----------------------------------------------------------------------------
(***************************************************************************)
(* Part 7.  Order.  NBFi_GetQueuedTXPkt takes the oldest packet, a packet  *)
(* that waits for its ACK is never younger than one that is still to be    *)
(* sent (Part 3), and verdicts are given to packets that wait or go out.   *)
(* So whoever goes on the air or gets a verdict comes after messages of    *)
(* which no packet is left to be sent: with NoOrphan they have a verdict.  *)
(***************************************************************************)
Ordered(u) ==
    \A i, j \in Ids :
        i < j /\ u[j].st \in {"INPROCESS"} \cup Verdicts => u[i].st \in Verdicts

Accepted(u, n) == \A id \in Ids : id <= n => u[id].st # "NOTEXIST"

OrderInv == LinedInv /\ Accepted(ul, sentId) /\ Ordered(ul)

\* A message older than every packet that waits for its turn or its ACK has
\* its verdict.
LEMMA EarlierDecided ==
    ASSUME Singles, OrderInv, NoOrphan, NEW x \in Ids, x <= sentId,
           ring.pkt[active].st = "WAIT_FOR_EXTRA_PACKETS" => oldState \in Pending,
           \A c \in Slots :
               ring.pkt[c].id # 0 /\ Meant(ring.pkt[c], c, active, oldState) \in Pending
                   => x <= ring.pkt[c].id
    PROVE \A i \in Ids : i < x => ul[i].st \in Verdicts
<1>1. SUFFICES ASSUME NEW i \in Ids, i < x, ul[i].st \notin Verdicts PROVE FALSE
  OBVIOUS
<1>2. TypeOK /\ MaxMsgs < IdMod /\ RingLined(ring, active, oldState, ul, sentId)
  BY DEF OrderInv, LinedInv, Singles
<1>3. i % IdMod = i /\ i # 0 /\ i \in Int /\ x \in Int /\ sentId \in Int
  BY <1>2, SmallId DEF Ids, TypeOK
<1>4. ul[i].st \in UlStatuses /\ ul[i].st # "NOTEXIST"
  BY <1>1, <1>2, <1>3 DEF OrderInv, Accepted, TypeOK
<1>5. PICK s \in Slots :
        /\ ring.pkt[s].id = i
        /\ ring.pkt[s].st \in {"QUEUED", "QUEUED_AGAIN", "WAIT_ACK",
                               "WAIT_FOR_EXTRA_PACKETS"}
  BY <1>1, <1>3, <1>4 DEF NoOrphan, Undecided, UlStatuses, Verdicts
<1>6. Meant(ring.pkt[s], s, active, oldState) \in Pending \cup Done
  BY <1>2, <1>3, <1>5 DEF RingLined, PktLined
<1>7. Meant(ring.pkt[s], s, active, oldState) \in Pending
  BY <1>5, <1>6 DEF Meant, Pending, Done
<1>8. QED BY <1>1, <1>3, <1>5, <1>7

\* The status of a message whose predecessors all have their verdict changes.
LEMMA OrderTouched ==
    ASSUME NEW u, NEW n, Ordered(u), Accepted(u, n), NEW v, NEW x, Touches(u, v, x),
           x \in Ids => /\ u[x].st \in Open /\ v[x].st # "NOTEXIST"
                        /\ \A i \in Ids : i < x => u[i].st \in Verdicts
    PROVE Ordered(v) /\ Accepted(v, n)
<1>1. ASSUME NEW i \in Ids, NEW j \in Ids, i < j, v[j].st \in {"INPROCESS"} \cup Verdicts
      PROVE v[i].st \in Verdicts
  <2>1. i # j /\ i # x => v[i] = u[i]
    BY DEF Touches
  <2>2. CASE j = x
    <3>1. i # x /\ i # j
      BY <1>1, <2>2 DEF Ids
    <3>2. QED BY <1>1, <2>1, <2>2, <3>1
  <2>3. CASE j # x
    <3>1. u[i].st \in Verdicts
      BY <1>1, <2>3 DEF Ordered, Touches
    <3>2. i # x
      BY <3>1 DEF Open, Verdicts
    <3>3. QED BY <3>1, <3>2 DEF Touches
  <2>4. QED BY <2>2, <2>3
<1>2. ASSUME NEW id \in Ids, id <= n PROVE v[id].st # "NOTEXIST"
  BY <1>2 DEF Accepted, Touches
<1>3. QED BY <1>1, <1>2 DEF Ordered, Accepted

\* Looking for the next packet leaves every packet of the application with its
\* message, and waiting.
LEMMA SweepPending ==
    ASSUME NEW r \in Ring, NEW a, NEW c \in Slots, r.pkt[c].st \in Pending
    PROVE /\ Sweep(r, a).pkt[c].id = r.pkt[c].id
          /\ Sweep(r, a).pkt[c].st \in Pending
<1> DEFINE s == Queued(r, a)
           p == [r.pkt[s] EXCEPT !.st = "QUEUED_AGAIN"]
<1>1. CASE s \in Slots /\ r.pkt[s].st = "WAIT_ACK"
  <2>1. Sweep(r, a) = SetPkt(r, s, p)
    BY <1>1, CellFacts DEF Sweep, Requeue, SetSt, SetPkt, Ring
  <2>2. r.pkt[s] \in Packet
    BY <1>1, RingPkt, CellFacts
  <2>3. p.id = r.pkt[s].id /\ p.st \in Pending
    BY <2>2 DEF Packet, Pending
  <2> HIDE DEF p, s
  <2>4. \A d \in Slots : SetPkt(r, s, p).pkt[d] = IF d = s THEN p ELSE r.pkt[d]
    BY <1>1, CellFacts DEF SetPkt, Ring
  <2>5. QED BY <2>1, <2>3, <2>4
<1>2. CASE ~(s \in Slots /\ r.pkt[s].st = "WAIT_ACK")
  BY <1>2 DEF Sweep, Requeue
<1>3. QED BY <1>1, <1>2

LEMMA SendNextOrdered ==
    ASSUME Singles, OrderInv, NoOrphan, SendNext PROVE Ordered(ul') /\ Accepted(ul', sentId')
<1> DEFINE r  == Sweep(ring, active)
           s  == Queued(ring, active)
           p  == r.pkt[s]
           u1 == SetStatus(ul, sentId, p.id, "INPROCESS")
           u2 == SetStatus(u1, sentId, p.id, "DELIVERED")
<1>1. TypeOK /\ LinedInv /\ MaxMsgs < IdMod /\ sentId' = sentId /\ ring \in Ring
  BY DEF OrderInv, LinedInv, Singles, SendNext, TypeOK
<1>2. ul' = IF StateOnAir(p) = "SENT" THEN u2 ELSE u1
  BY <1>1, SendNextShape
<1>3. p.id # 0 => /\ p.id \in Ids /\ p.id <= sentId /\ ul[p.id].st \in Open
                  /\ \A c \in Slots : r.pkt[c].id # 0 /\ r.pkt[c].st \in Pending
                        => p.id <= r.pkt[c].id
  BY <1>1, SentPacket
<1>4. ring.pkt[active].st # "WAIT_FOR_EXTRA_PACKETS"
  BY DEF SendNext
<1>5. p.id # 0 => \A c \in Slots :
        ring.pkt[c].id # 0 /\ Meant(ring.pkt[c], c, active, oldState) \in Pending
            => p.id <= ring.pkt[c].id
  <2> HIDE DEF p
  <2>1. SUFFICES ASSUME p.id # 0, NEW c \in Slots, ring.pkt[c].id # 0,
                        Meant(ring.pkt[c], c, active, oldState) \in Pending
                 PROVE p.id <= ring.pkt[c].id
    OBVIOUS
  <2>2. ring.pkt[c].st \in Pending
    BY <1>4, <2>1 DEF Meant
  <2>3. r.pkt[c].id = ring.pkt[c].id /\ r.pkt[c].st \in Pending
    BY <1>1, <2>2, SweepPending
  <2> HIDE DEF r
  <2>4. QED BY <1>3, <2>1, <2>3
<1> HIDE DEF p
<1>6. p.id \in Ids => \A i \in Ids : i < p.id => ul[i].st \in Verdicts
  <2>1. p.id \in Ids => p.id # 0
    BY DEF Ids
  <2>2. QED BY <1>3, <1>4, <1>5, <2>1, EarlierDecided
<1>7. /\ Touches(ul, u1, p.id)
      /\ p.id \in Ids => \/ u1[p.id] = ul[p.id]
                         \/ u1[p.id] = [st |-> "INPROCESS", rep |-> FALSE]
  BY <1>1, SetStatusTouches
<1>8. /\ Touches(u1, u2, p.id)
      /\ p.id \in Ids => \/ u2[p.id] = u1[p.id]
                         \/ u2[p.id] = [st |-> "DELIVERED", rep |-> FALSE]
  <2> HIDE DEF u1
  <2> QED BY <1>1, SetStatusTouches
<1>9. p.id \in Ids => ul[p.id].st \in Open
  BY <1>3 DEF Ids
<1> HIDE DEF u1, u2
<1>10. \A v \in {u1, u2} : /\ Touches(ul, v, p.id)
                           /\ p.id \in Ids => v[p.id].st # "NOTEXIST"
  BY <1>7, <1>8, <1>9 DEF Touches, Open
<1>11. ul' \in {u1, u2}
  BY <1>2
<1>12. QED BY <1>1, <1>6, <1>9, <1>10, <1>11, OrderTouched DEF OrderInv

\* The packet that waits for its ACK comes before every other that waits.
LEMMA VerdictOrdered ==
    ASSUME Singles, OrderInv, NoOrphan,
           Meant(ring.pkt[active], active, active, oldState) = "WAIT_ACK"
    PROVE LET x == ring.pkt[active].id
          IN  x \in Ids => /\ ul[x].st \in Open
                           /\ \A i \in Ids : i < x => ul[i].st \in Verdicts
<1> DEFINE x == ring.pkt[active].id
<1>1. SUFFICES ASSUME x \in Ids
               PROVE ul[x].st \in Open /\ \A i \in Ids : i < x => ul[i].st \in Verdicts
  OBVIOUS
<1>2. TypeOK /\ RingLined(ring, active, oldState, ul, sentId)
  BY DEF OrderInv, LinedInv
<1>3. active \in Slots /\ x # 0
  BY <1>1, <1>2, CellFacts DEF RingLined, TypeOK, Ids
<1>4. x <= sentId /\ ul[x].st \in Open
  BY <1>2, <1>3 DEF RingLined, PktLined, Pending
<1>5. \A c \in Slots :
        ring.pkt[c].id # 0 /\ Meant(ring.pkt[c], c, active, oldState) \in Pending
            => x <= ring.pkt[c].id
  BY <1>2, <1>3 DEF RingLined, PairLined
<1>6. ring.pkt[active].st = "WAIT_FOR_EXTRA_PACKETS" => oldState \in Pending
  BY DEF Meant, Pending
<1> HIDE DEF x
<1>7. QED BY <1>1, <1>4, <1>5, <1>6, EarlierDecided

LEMMA ReceiveTimeoutOrdered ==
    ASSUME Singles, OrderInv, NoOrphan, ReceiveTimeout
    PROVE Ordered(ul') /\ Accepted(ul', sentId')
<1> DEFINE x == ring.pkt[active].id
<1>1. sentId' = sentId /\ MaxMsgs < IdMod
  BY DEF ReceiveTimeout, Singles
<1>2. CASE ul' = ul
  BY <1>1, <1>2 DEF OrderInv
<1>3. CASE ul' # ul
  <2>1. ring.pkt[active].st = "WAIT_ACK" /\ ul' = SetStatus(ul, sentId, x, "LOST")
    BY <1>3 DEF ReceiveTimeout, TimeoutRetry, TimeoutLost
  <2>2. Meant(ring.pkt[active], active, active, oldState) = "WAIT_ACK"
    BY <2>1 DEF Meant
  <2>3. x \in Ids => ul[x].st \in Open /\ \A i \in Ids : i < x => ul[i].st \in Verdicts
    BY <2>2, VerdictOrdered
  <2> HIDE DEF x
  <2>4. /\ Touches(ul, ul', x)
        /\ x \in Ids => ul'[x] = ul[x] \/ ul'[x] = [st |-> "LOST", rep |-> FALSE]
    BY <1>1, <2>1, SetStatusTouches
  <2>5. x \in Ids => ul'[x].st # "NOTEXIST"
    BY <2>3, <2>4 DEF Open
  <2>6. QED BY <1>1, <2>3, <2>4, <2>5, OrderTouched DEF OrderInv
<1>4. QED BY <1>2, <1>3

LEMMA RxAckOrdered ==
    ASSUME Singles, OrderInv, NoOrphan, RxAck
    PROVE Ordered(ul') /\ Accepted(ul', sentId')
<1> DEFINE r == Restored(ring)
           p == r.pkt[active]
           y == station.reply
<1>1. sentId' = sentId /\ MaxMsgs < IdMod /\ TypeOK /\ LinedInv /\ active \in Cells
  BY DEF RxAck, Singles, OrderInv, LinedInv, TypeOK
<1>2. CASE ul' = ul
  BY <1>1, <1>2 DEF OrderInv
<1>3. CASE ul' # ul
  <2>1. AckAccepted(r, y)
    BY <1>3 DEF RxAck
  <2>2. PICK policy \in LossPolicies : ul' = TakeAck(r, y, policy).ul
    BY <2>1 DEF RxAck
  <2>3. p.st = "WAIT_ACK"
    BY <2>1 DEF AckAccepted
  <2>4. r \in Ring /\ RingLined(r, active, oldState, ul, sentId)
    BY <1>1, LinedRestored
  <2>5. /\ Meant(ring.pkt[active], active, active, oldState) = "WAIT_ACK"
        /\ p.id = ring.pkt[active].id
    <3>1. /\ Meant(p, active, active, oldState)
               = Meant(ring.pkt[active], active, active, oldState)
          /\ Alike(ring.pkt[active], p)
      BY <1>1, RestoredAlike
    <3>2. Meant(p, active, active, oldState) = "WAIT_ACK"
      BY <2>3 DEF Meant
    <3>3. QED BY <3>1, <3>2 DEF Alike
  <2>6. /\ Touches(ul, ul', p.id)
        /\ p.id \in Ids => \/ ul'[p.id] = ul[p.id]
                           \/ y.type = "ACK" /\ ul'[p.id].st = "DELIVERED"
    <3> HIDE DEF r, y
    <3> QED BY <1>1, <2>2, <2>3, <2>4, TakeAckOne
  <2>7. p.id \in Ids => /\ ul[p.id].st \in Open
                        /\ \A i \in Ids : i < p.id => ul[i].st \in Verdicts
    BY <2>5, VerdictOrdered
  <2> HIDE DEF p
  <2>8. p.id \in Ids => ul'[p.id].st # "NOTEXIST"
    BY <2>6, <2>7 DEF Open
  <2>9. QED BY <1>1, <2>6, <2>7, <2>8, OrderTouched DEF OrderInv
<1>4. QED BY <1>2, <1>3

\* A message that is accepted comes after all others.
LEMMA Send5Ordered ==
    ASSUME OrderInv, NEW len, NEW flags, Send5(len, flags)
    PROVE Ordered(ul') /\ Accepted(ul', sentId')
<1>1. TypeOK /\ ToldLined(told, ul, sentId) /\ Ordered(ul) /\ Accepted(ul, sentId)
  BY DEF OrderInv, LinedInv
<1>2. sentId \in Nat /\ MaxMsgs \in Nat
  BY <1>1, StatAssumption DEF TypeOK
<1>3. CASE sentId' = sentId
  <2>1. ul' = ul
    BY <1>2, <1>3 DEF Send5
  <2>2. QED BY <1>1, <1>3, <2>1
<1>4. CASE sentId' # sentId
  <2> DEFINE x == sentId + 1
  <2>1. sentId' = x /\ x \in Ids /\ ul' = [ul EXCEPT ![x] = [st |-> "QUEUED", rep |-> FALSE]]
    BY <1>2, <1>4 DEF Send5, Ids
  <2>2. ul'[x].st = "QUEUED" /\ \A i \in Ids : i # x => ul'[i] = ul[i]
    BY <1>1, <2>1 DEF TypeOK
  <2>3. \A i \in Ids : i > sentId => ul[i].st = "NOTEXIST"
    BY <1>1 DEF ToldLined
  <2>4. ASSUME NEW i \in Ids, NEW j \in Ids, i < j,
               ul'[j].st \in {"INPROCESS"} \cup Verdicts
        PROVE ul'[i].st \in Verdicts
    <3>1. j # x /\ ul[j].st \in {"INPROCESS"} \cup Verdicts
      BY <2>2, <2>4 DEF Verdicts
    <3>2. j <= sentId
      BY <1>2, <2>3, <3>1 DEF Verdicts, Ids
    <3>3. i # x
      BY <1>2, <2>4, <3>2 DEF Ids
    <3>4. QED BY <1>1, <2>2, <2>4, <3>1, <3>3 DEF Ordered
  <2>5. ASSUME NEW i \in Ids, i <= x PROVE ul'[i].st # "NOTEXIST"
    <3>1. i = x \/ i <= sentId
      BY <1>2, <2>5 DEF Ids
    <3>2. QED BY <1>1, <2>2, <3>1 DEF Accepted
  <2> HIDE DEF x
  <2>6. QED BY <2>1, <2>4, <2>5 DEF Ordered, Accepted
<1>5. QED BY <1>3, <1>4

LEMMA OrderNext == ASSUME Singles, OrderInv, NoOrphan, [Next]_vars PROVE OrderInv'
<1>1. LinedInv /\ LinedInv' /\ Ordered(ul) /\ Accepted(ul, sentId)
  BY LinedNext DEF OrderInv
<1>2. SUFFICES Ordered(ul') /\ Accepted(ul', sentId')
  BY <1>1 DEF OrderInv
<1>3. ASSUME NEW len \in Lengths, NEW flags \in FlagSets, Send5(len, flags)
      PROVE Ordered(ul') /\ Accepted(ul', sentId')
  BY <1>3, Send5Ordered
<1>4. CASE SendNext
  BY <1>4, SendNextOrdered
<1>5. CASE ReceiveTimeout
  BY <1>5, ReceiveTimeoutOrdered
<1>6. CASE RxAck
  BY <1>6, RxAckOrdered
<1>7. CASE ReportStatus
  <2>1. PICK id \in Ids : ul' = [ul EXCEPT ![id].rep = TRUE] /\ sentId' = sentId
    BY <1>7 DEF ReportStatus
  <2>2. \A i \in Ids : ul'[i].st = ul[i].st
    BY <1>1, <2>1 DEF LinedInv, TypeOK
  <2>3. QED BY <1>1, <2>1, <2>2 DEF Ordered, Accepted
<1>8. CASE UNCHANGED <<ul, sentId>>
  BY <1>1, <1>8
<1>9. CASE \/ ArmTimer \/ ProcessOff \/ TxFinished \/ WaitExtraTimeout
           \/ WaitClearTimeout \/ HeartBeat \/ GoToSleep \/ WakeUp \/ UNCHANGED vars
  <2>1. UNCHANGED <<ul, sentId>>
    BY <1>9 DEF ArmTimer, ProcessOff, TxFinished, WaitExtraTimeout, WaitClearTimeout,
                HeartBeat, GoToSleep, WakeUp, vars, devVars
  <2>2. QED BY <1>8, <2>1
<1>10. ASSUME NEW answer \in BOOLEAN, NEW ack \in BOOLEAN, RxSystem(answer, ack)
       PROVE Ordered(ul') /\ Accepted(ul', sentId')
  BY <1>8, <1>10 DEF RxSystem
<1>11. ASSUME NEW ack \in BOOLEAN, NEW multi \in BOOLEAN, NEW repeated \in BOOLEAN,
              RxMessage(ack, multi, repeated)
       PROVE Ordered(ul') /\ Accepted(ul', sentId')
  BY <1>8, <1>11 DEF RxMessage
<1>12. QED BY <1>3, <1>4, <1>5, <1>6, <1>7, <1>9, <1>10, <1>11 DEF Next

\* Messages go on the air and get their verdicts in the order they were
\* accepted, through retries, ACKs, sleep and downlinks, as long as no message
\* is left without a packet (a message the ring has forgotten is overtaken).
THEOREM OrderKept == ASSUME Singles PROVE Spec /\ []NoOrphan => []InOrder
<1>1. Init => OrderInv
  <2>1. SUFFICES ASSUME Init PROVE OrderInv
    OBVIOUS
  <2>2. \A id \in Ids : ul[id].st = "NOTEXIST" /\ ~(id <= sentId)
    BY <2>1 DEF Init, Ids
  <2>3. QED BY <2>1, <2>2, LinedInit DEF OrderInv, Ordered, Accepted, Verdicts
<1>2. OrderInv /\ NoOrphan /\ [Next]_vars => OrderInv'
  BY OrderNext
<1>3. OrderInv => InOrder
  BY DEF OrderInv, Ordered, InOrder
<1>4. QED BY <1>1, <1>2, <1>3, PTL DEF Spec
-----------------------------------------------------------------------------
(***************************************************************************)
(* Part 8.  No message is forgotten.  The hard part is the CLEAR or SYNC   *)
(* that is queued in the step in which a packet gets its verdict: it takes *)
(* the slot at head, and if that slot were the one of the packet, the id   *)
(* read for the verdict would be the CLEAR's.  NBFi_Send5 leaves slots     *)
(* free between head and the packets that wait; each of the two calls that *)
(* may take one of them without the check of NBFi_Send5 is paid for: a     *)
(* verdict frees the slot of the oldest packet that waits, and no second   *)
(* heartbeat is queued before the first is done, which is after all older  *)
(* packets.                                                                *)
(***************************************************************************)
Undisturbed == Singles /\ MaxMsgs <= StatSize /\ MaxDl = 0 /\ MaxNaps = 0

Going == {"QUEUED", "QUEUED_AGAIN", "WAIT_ACK"}

App(r, c)  == r.pkt[c].id # 0 /\ r.pkt[c].st \in Going
Beat(r, c) == r.pkt[c].kind = "HEARTBEAT" /\ r.pkt[c].st \in Going

PlainPkt(p) ==
    /\ p.st \notin {"WAIT_FOR_EXTRA_PACKETS", "SENT_NOACKED"}
    /\ p.id # 0 => p.kind \in AppKinds /\ p.st # "NEED_TO_SEND_RIGHT_NOW"
    /\ p.id = 0 /\ p.st \in Going => p.kind = "HEARTBEAT" /\ (p.hs => p.ack)
    /\ p.st = "NEED_TO_SEND_RIGHT_NOW" => ~p.hs

\* The slots an allocation can take before it comes to slot c.
Spare(r, c) == {d \in Slots : ~Blocked(r.pkt[d]) /\ Ahead(r, d, c)}

\* A heartbeat younger than the packet in slot c is queued.
Follower(r, c) == \E d \in Slots : Beat(r, d) /\ Ahead(r, c, d)

\* An older heartbeat may still meet an ACK that is under way, which then costs
\* a slot (y: an ACK is under way).
Leader(r, y, c) ==
    \E d \in Slots : Beat(r, d) /\ Ahead(r, d, c) /\ (y \/ r.pkt[d].st = "QUEUED")

Need(r, y, c) == IF Follower(r, c) THEN 0 ELSE IF Leader(r, y, c) THEN 2 ELSE 1

HasRoom(r, y, m) ==
    \A c \in Slots : App(r, c) => Cardinality(Spare(r, c)) >= m + Need(r, y, c)

\* A heartbeat goes on the air after all older messages are done.
BeatFirst(r) ==
    \A c, d \in Slots :
        Beat(r, d) /\ r.pkt[d].st # "QUEUED" /\ App(r, c) => Ahead(r, d, c)

OneBeat(r) == \A c, d \in Slots : Beat(r, c) /\ Beat(r, d) => c = d

Roomy(r, y, m) == /\ r.pkt[Idle].st = "FREE"
                  /\ \A c \in Slots : PlainPkt(r.pkt[c])
                  /\ BeatFirst(r) /\ OneBeat(r)
                  /\ HasRoom(r, y, m)

\* Only the active packet waits for an ACK, so the searches change nothing.
OneWaits(r, a) == \A c \in Slots : r.pkt[c].st = "WAIT_ACK" => c = a

Carried(r, u) ==
    \A id \in Ids : u[id].st \in Open => \E s \in Slots : App(r, s) /\ r.pkt[s].id = id

CarryInv ==
    /\ LinedInv
    /\ Roomy(ring, station.reply.type = "ACK", 1)
    /\ Carried(ring, ul)
    /\ OneWaits(ring, active)
    /\ mode = Mode /\ dlLeft = 0 /\ napsLeft = 0

-----------------------------------------------------------------------------
\* The same packets, some of which have turned from waiting for their ACK to
\* retransmissions.
Turn(p, q) ==
    /\ q.id = p.id /\ q.kind = p.kind /\ q.hs = p.hs /\ q.ack = p.ack
    /\ q.st = p.st \/ (p.st = "WAIT_ACK" /\ q.st = "QUEUED_AGAIN")

Turned(r, q) ==
    /\ q.head = r.head /\ q.pkt[Idle].st = r.pkt[Idle].st
    /\ \A c \in Slots : Turn(r.pkt[c], q.pkt[c])

LEMMA SpareFinite ==
    ASSUME NEW r, NEW c
    PROVE IsFiniteSet(Spare(r, c)) /\ Cardinality(Spare(r, c)) \in Nat
<1>1. IsFiniteSet(Slots)
  BY FS_Interval DEF Slots
<1>2. Spare(r, c) \in SUBSET Slots
  BY DEF Spare
<1>3. IsFiniteSet(Spare(r, c))
  BY <1>1, <1>2, FS_Subset
<1>4. QED BY <1>3, FS_CardinalityType

LEMMA SpareMore ==
    ASSUME NEW r, NEW c, NEW q, NEW d, Spare(r, c) \subseteq Spare(q, d)
    PROVE Cardinality(Spare(r, c)) <= Cardinality(Spare(q, d))
<1>1. Spare(r, c) \in SUBSET Spare(q, d) /\ IsFiniteSet(Spare(q, d))
  BY SpareFinite
<1>2. QED BY <1>1, FS_Subset

\* One slot more, one slot less.
LEMMA SparePlus ==
    ASSUME NEW r, NEW c, NEW q, NEW d, NEW b, b \notin Spare(r, c), b \in Spare(q, d),
           Spare(r, c) \subseteq Spare(q, d)
    PROVE Cardinality(Spare(r, c)) + 1 <= Cardinality(Spare(q, d))
<1>1. IsFiniteSet(Spare(r, c)) /\ IsFiniteSet(Spare(q, d))
  BY SpareFinite
<1>2. Cardinality(Spare(r, c) \cup {b}) = Cardinality(Spare(r, c)) + 1
  BY <1>1, FS_AddElement
<1>3. Spare(r, c) \cup {b} \in SUBSET Spare(q, d)
  OBVIOUS
<1>4. Cardinality(Spare(r, c) \cup {b}) <= Cardinality(Spare(q, d))
  BY <1>1, <1>3, FS_Subset
<1>5. QED BY <1>2, <1>4

LEMMA SpareMinus ==
    ASSUME NEW r, NEW c, NEW q, NEW d, NEW b, Spare(r, c) \ {b} \subseteq Spare(q, d)
    PROVE Cardinality(Spare(r, c)) - 1 <= Cardinality(Spare(q, d))
<1>1. IsFiniteSet(Spare(r, c)) /\ IsFiniteSet(Spare(q, d)) /\ Cardinality(Spare(r, c)) \in Nat
  BY SpareFinite
<1>2. /\ Cardinality(Spare(r, c) \ {b}) = IF b \in Spare(r, c) THEN Cardinality(Spare(r, c)) - 1
                                          ELSE Cardinality(Spare(r, c))
  BY <1>1, FS_RemoveElement
<1>3. Spare(r, c) \ {b} \in SUBSET Spare(q, d)
  OBVIOUS
<1>4. Cardinality(Spare(r, c) \ {b}) <= Cardinality(Spare(q, d))
  BY <1>1, <1>3, FS_Subset
<1>5. Cardinality(Spare(q, d)) \in Nat
  BY SpareFinite
<1>6. QED BY <1>1, <1>2, <1>4, <1>5

LEMMA RestSame ==
    ASSUME NEW r \in Ring, NEW a, OneWaits(r, a)
    PROVE Sweep(r, a) = r /\ CountSweep(r, a) = r /\ LookAtQueue(r, a) = r
<1> DEFINE s == Queued(r, a)
           b == Oldest(r.head, Busy(r, a))
<1>1. ASSUME s \in Slots, r.pkt[s].st = "WAIT_ACK" PROVE FALSE
  <2>1. s # None /\ s = a
    BY <1>1, CellFacts DEF OneWaits
  <2>2. s \in Urgent(r) \cup Again(r) \cup Fresh(r, a)
    BY <2>1, OldestFacts DEF Queued
  <2>3. QED BY <1>1, <2>1, <2>2 DEF Urgent, Again, Fresh, InState
<1>2. Sweep(r, a) = r
  BY <1>1 DEF Sweep, Requeue
<1>3. CountSweep(r, a) = r
  <2>1. b # a => ~(b \in Slots /\ r.pkt[b].st = "WAIT_ACK")
    BY DEF OneWaits
  <2>2. b # a => Requeue(r, b) = r
    BY <2>1 DEF Requeue
  <2>3. QED BY <2>2 DEF CountSweep
<1>4. QED BY <1>2, <1>3 DEF LookAtQueue

LEMMA NeedLess ==
    ASSUME NEW r, NEW c, NEW y, NEW q, NEW d, NEW z,
           Follower(r, c) => Follower(q, d), Leader(q, z, d) => Leader(r, y, c)
    PROVE Need(r, y, c) \in Nat /\ Need(q, z, d) \in Nat /\ Need(q, z, d) <= Need(r, y, c)
BY DEF Need

LEMMA TurnedCell ==
    ASSUME NEW r, NEW q, Turned(r, q), NEW c \in Slots
    PROVE /\ App(q, c) <=> App(r, c)
          /\ Beat(q, c) <=> Beat(r, c)
          /\ Blocked(q.pkt[c]) <=> Blocked(r.pkt[c])
          /\ PlainPkt(r.pkt[c]) => PlainPkt(q.pkt[c])
          /\ q.pkt[c].id = r.pkt[c].id
<1>1. Turn(r.pkt[c], q.pkt[c])
  BY DEF Turned
<1> DEFINE p == r.pkt[c]
           t == q.pkt[c]
<1>2. /\ p.st \in Going <=> t.st \in Going
      /\ Blocked(p) <=> Blocked(t)
  BY <1>1 DEF Turn, Going, Blocked
<1>3. PlainPkt(p) => PlainPkt(t)
  BY <1>1, <1>2 DEF Turn, PlainPkt
<1>4. QED BY <1>1, <1>2, <1>3 DEF App, Beat, Turn

LEMMA TurnedRoomy ==
    ASSUME NEW r, NEW q, Turned(r, q), NEW y, NEW m \in Nat, Roomy(r, y, m)
    PROVE Roomy(q, y, m)
<1>1. \A c, d \in Slots : Ahead(q, c, d) <=> Ahead(r, c, d)
  BY DEF Turned, Ahead
<1>2. \A c \in Slots : PlainPkt(q.pkt[c])
  BY TurnedCell DEF Roomy
<1>3. BeatFirst(q)
  <2>1. SUFFICES ASSUME NEW c \in Slots, NEW d \in Slots, Beat(q, d),
                        q.pkt[d].st # "QUEUED", App(q, c)
                 PROVE Ahead(q, d, c)
    BY DEF BeatFirst
  <2>2. Beat(r, d) /\ App(r, c)
    BY <2>1, TurnedCell
  <2>3. r.pkt[d].st # "QUEUED"
    BY <2>1 DEF Turned, Turn
  <2>4. QED BY <1>1, <2>2, <2>3 DEF Roomy, BeatFirst
<1>4. HasRoom(q, y, m)
  <2>1. SUFFICES ASSUME NEW c \in Slots, App(q, c)
                 PROVE Cardinality(Spare(q, c)) >= m + Need(q, y, c)
    BY DEF HasRoom
  <2>2. Spare(q, c) = Spare(r, c)
    BY <1>1, TurnedCell DEF Spare
  <2>3. Follower(q, c) <=> Follower(r, c)
    BY <1>1, TurnedCell DEF Follower
  <2>4. Leader(q, y, c) => Leader(r, y, c)
    <3>1. \A d \in Slots : q.pkt[d].st = "QUEUED" => r.pkt[d].st = "QUEUED"
      BY DEF Turned, Turn
    <3>2. QED BY <1>1, <3>1, TurnedCell DEF Leader
  <2>5. App(r, c)
    BY <2>1, TurnedCell
  <2>6. Need(r, y, c) \in Nat /\ Need(q, y, c) \in Nat /\ Need(q, y, c) <= Need(r, y, c)
    BY <2>3, <2>4, NeedLess
  <2>7. Cardinality(Spare(r, c)) >= m + Need(r, y, c) /\ Cardinality(Spare(r, c)) \in Nat
    BY <2>5, SpareFinite DEF Roomy, HasRoom
  <2>8. QED BY <2>2, <2>6, <2>7
<1>5. OneBeat(q)
  BY TurnedCell DEF Roomy, OneBeat
<1>6. QED BY <1>2, <1>3, <1>4, <1>5 DEF Roomy, Turned

LEMMA TurnedCarried ==
    ASSUME NEW r, NEW q, Turned(r, q), NEW u, Carried(r, u) PROVE Carried(q, u)
BY TurnedCell DEF Carried

-----------------------------------------------------------------------------
\* A packet of the stack's own is queued: the slot at head is gone.
LEMMA AllocCells ==
    ASSUME NEW r \in Ring, CanAlloc(r), NEW p
    PROVE LET q == Alloc(r, p)
              h == r.head
          IN  /\ h \in Slots /\ ~Blocked(r.pkt[h]) /\ q.head \in Slots
              /\ q.pkt[h] = p /\ q.pkt[Idle] = r.pkt[Idle]
              /\ \A c \in Slots : c # h => q.pkt[c] = r.pkt[c]
              /\ \A c, d \in Slots : c # h /\ d # h => (Ahead(q, c, d) <=> Ahead(r, c, d))
              /\ \A c \in Slots : c # h => Ahead(q, c, h) /\ ~Ahead(q, h, c)
<1> DEFINE q == Alloc(r, p)
           h == r.head
<1>1. h \in Slots /\ h \in Cells
  BY CellFacts DEF Ring
<1>2. /\ q.head = (h + 1) % TxSize
      /\ \A c \in Cells : q.pkt[c] = IF c = h THEN p ELSE r.pkt[c]
  BY <1>1 DEF Alloc, Ring
<1>3. q.head \in Slots
  BY <1>1, <1>2, CellFacts
<1> HIDE DEF q
<1>4. \A c \in Slots : /\ Age(h, c) \in 0 .. TxSize - 1
                       /\ Age(q.head, c) = IF c = h THEN TxSize - 1 ELSE Age(h, c) - 1
  BY <1>1, <1>2, AgeFacts, AgeNext
<1>5. TxSize \in Nat
  OBVIOUS
<1> HIDE DEF h
<1>6. ASSUME NEW c \in Slots, NEW d \in Slots, c # h, d # h
      PROVE (Age(q.head, c) < Age(q.head, d)) <=> (Age(h, c) < Age(h, d))
  BY <1>4, <1>5, <1>6
<1>7. ASSUME NEW c \in Slots, c # h
      PROVE Age(q.head, c) < Age(q.head, h) /\ ~(Age(q.head, h) < Age(q.head, c))
  BY <1>1, <1>4, <1>5, <1>7
<1>8. ~Blocked(r.pkt[h])
  BY DEF CanAlloc, h
<1>9. \A c, d \in Slots : c # h /\ d # h => (Ahead(q, c, d) <=> Ahead(r, c, d))
  BY <1>6 DEF Ahead, h
<1>10. \A c \in Slots : c # h => Ahead(q, c, h) /\ ~Ahead(q, h, c)
  BY <1>7 DEF Ahead
<1>11. q.pkt[h] = p /\ q.pkt[Idle] = r.pkt[Idle] /\ \A c \in Slots : c # h => q.pkt[c] = r.pkt[c]
  BY <1>1, <1>2, CellFacts
<1>12. QED BY <1>1, <1>3, <1>8, <1>9, <1>10, <1>11 DEF q, h

LEMMA AllocCarried ==
    ASSUME NEW r \in Ring, NEW p, NEW u, Carried(r, u) PROVE Carried(Alloc(r, p), u)
<1>1. CASE CanAlloc(r)
  <2> DEFINE q == Alloc(r, p)
  <2>1. ~Blocked(r.pkt[r.head]) /\ \A c \in Slots : c # r.head => q.pkt[c] = r.pkt[c]
    BY <1>1, AllocCells
  <2> HIDE DEF q
  <2>2. \A c \in Slots : App(r, c) => App(q, c) /\ q.pkt[c].id = r.pkt[c].id
    BY <2>1 DEF App, Going, Blocked
  <2>3. Carried(q, u)
    BY <2>2 DEF Carried
  <2>4. QED BY <2>3 DEF q
<1>2. CASE ~CanAlloc(r)
  BY <1>2 DEF Alloc
<1>3. QED BY <1>1, <1>2

\* Less room is asked for.
LEMMA RoomyLess ==
    ASSUME NEW r, NEW y, NEW m \in Nat, Roomy(r, y, m + 1) PROVE Roomy(r, y, m)
<1>1. ASSUME NEW c \in Slots, App(r, c)
      PROVE Cardinality(Spare(r, c)) >= m + Need(r, y, c)
  <2>1. Cardinality(Spare(r, c)) >= m + 1 + Need(r, y, c)
    BY <1>1 DEF Roomy, HasRoom
  <2>2. Cardinality(Spare(r, c)) \in Nat /\ Need(r, y, c) \in Nat
    BY SpareFinite, NeedLess
  <2>3. QED BY <2>1, <2>2
<1>2. QED BY <1>1 DEF Roomy, HasRoom

\* An ACK under way is gone.
LEMMA RoomyReply ==
    ASSUME NEW r, NEW y, NEW m \in Nat, Roomy(r, y, m), NEW z, z => y
    PROVE Roomy(r, z, m)
<1>1. ASSUME NEW c \in Slots, App(r, c)
      PROVE Cardinality(Spare(r, c)) >= m + Need(r, z, c)
  <2>1. Leader(r, z, c) => Leader(r, y, c)
    BY DEF Leader
  <2>2. Need(r, y, c) \in Nat /\ Need(r, z, c) \in Nat /\ Need(r, z, c) <= Need(r, y, c)
    BY <2>1, NeedLess
  <2>3. Cardinality(Spare(r, c)) >= m + Need(r, y, c) /\ Cardinality(Spare(r, c)) \in Nat
    BY <1>1, SpareFinite DEF Roomy, HasRoom
  <2>4. QED BY <2>2, <2>3
<1>2. QED BY <1>1 DEF Roomy, HasRoom

\* A heartbeat that was not sent yet does not care for the ACK under way.
LEMMA RoomyFresh ==
    ASSUME NEW r, NEW y, NEW m \in Nat, Roomy(r, y, m), NEW z,
           \A d \in Slots : Beat(r, d) => r.pkt[d].st = "QUEUED"
    PROVE Roomy(r, z, m)
<1>1. ASSUME NEW c \in Slots PROVE Need(r, z, c) = Need(r, y, c)
  BY DEF Leader, Need
<1>2. QED BY <1>1 DEF Roomy, HasRoom

\* The ACK under way is spent on a heartbeat: its slot was kept.
LEMMA RoomySpent ==
    ASSUME NEW r \in Ring, NEW y, y, NEW z, ~z, NEW m \in Nat, Roomy(r, y, m),
           NEW b \in Slots, Beat(r, b), r.pkt[b].st # "QUEUED"
    PROVE Roomy(r, z, m + 1)
<1>1. ASSUME NEW c \in Slots, App(r, c)
      PROVE Cardinality(Spare(r, c)) >= m + 1 + Need(r, z, c)
  <2>1. Ahead(r, b, c) /\ \A d \in Slots : Beat(r, d) => d = b
    BY <1>1 DEF Roomy, BeatFirst, OneBeat
  <2>2. ~Ahead(r, c, b)
    <3>1. Age(r.head, b) < Age(r.head, c)
      BY <2>1 DEF Ahead
    <3>2. Age(r.head, b) \in Int /\ Age(r.head, c) \in Int
      BY AgeFacts DEF Ring
    <3>3. ~(Age(r.head, c) < Age(r.head, b))
      BY <3>1, <3>2
    <3>4. QED BY <3>3 DEF Ahead
  <2>3. ~Follower(r, c) /\ Leader(r, y, c) /\ ~Leader(r, z, c)
    BY <2>1, <2>2 DEF Follower, Leader
  <2> DEFINE k == Need(r, y, c)
             l == Need(r, z, c)
             n == Cardinality(Spare(r, c))
  <2>4. k = 2 /\ l = 1
    BY <2>3 DEF Need
  <2>5. n >= m + k /\ n \in Nat
    BY <1>1, SpareFinite DEF Roomy, HasRoom
  <2> HIDE DEF k, l, n
  <2>6. n >= m + 1 + l
    BY <2>4, <2>5
  <2>7. QED BY <2>6 DEF l, n
<1>2. QED BY <1>1 DEF Roomy, HasRoom

\* The queued packet does not wait for anything, or is the only heartbeat.
LEMMA AllocRoomy ==
    ASSUME NEW r \in Ring, NEW p, NEW y, NEW m \in Nat, PlainPkt(p), p.id = 0,
           \/ p.st \notin Going /\ Roomy(r, y, m + 1)
           \/ /\ p.kind = "HEARTBEAT" /\ p.st = "QUEUED" /\ Roomy(r, y, m)
              /\ \A c \in Slots : ~Beat(r, c)
    PROVE Roomy(Alloc(r, p), y, m)
<1> DEFINE q == Alloc(r, p)
           h == r.head
<1>0. \A k \in Nat : k + 1 >= k
  OBVIOUS
<1>1. CASE CanAlloc(r)
  <2>1. /\ h \in Slots /\ ~Blocked(r.pkt[h])
        /\ q.pkt[h] = p /\ q.pkt[Idle] = r.pkt[Idle]
        /\ \A c \in Slots : c # h => q.pkt[c] = r.pkt[c]
        /\ \A c, d \in Slots : c # h /\ d # h => (Ahead(q, c, d) <=> Ahead(r, c, d))
        /\ \A c \in Slots : c # h => Ahead(q, c, h) /\ ~Ahead(q, h, c)
    BY <1>1, AllocCells
  <2> HIDE DEF q, h
  <2>2. \A c \in Slots : App(q, c) => c # h /\ App(r, c)
    BY <2>1 DEF App
  <2>3. \A c \in Slots : Beat(r, c) => c # h /\ Beat(q, c)
    BY <2>1 DEF Beat, Going, Blocked
  <2>4. q.pkt[Idle].st = "FREE" /\ \A c \in Slots : PlainPkt(q.pkt[c])
    <3>1. r.pkt[Idle].st = "FREE" /\ \A c \in Slots : PlainPkt(r.pkt[c])
      BY DEF Roomy
    <3>2. QED BY <2>1, <3>1
  <2>5. BeatFirst(q)
    <3>1. SUFFICES ASSUME NEW c \in Slots, NEW d \in Slots, Beat(q, d),
                          q.pkt[d].st # "QUEUED", App(q, c)
                   PROVE Ahead(q, d, c)
      BY DEF BeatFirst
    <3>2. d # h
      BY <2>1, <3>1 DEF Beat
    <3>3. c # h /\ App(r, c) /\ Beat(r, d) /\ r.pkt[d].st # "QUEUED"
      BY <2>1, <2>2, <3>1, <3>2 DEF Beat
    <3>4. BeatFirst(r)
      BY DEF Roomy
    <3>5. QED BY <2>1, <3>2, <3>3, <3>4 DEF BeatFirst
  <2>6. HasRoom(q, y, m)
    <3>1. SUFFICES ASSUME NEW c \in Slots, App(q, c)
                   PROVE Cardinality(Spare(q, c)) >= m + Need(q, y, c)
      BY DEF HasRoom
    <3>2. c # h /\ App(r, c)
      BY <2>2, <3>1
    <3>3. Cardinality(Spare(r, c)) - 1 <= Cardinality(Spare(q, c))
      <4>1. Spare(r, c) \ {h} \subseteq Spare(q, c)
        BY <2>1, <3>2 DEF Spare
      <4>2. QED BY <4>1, SpareMinus
    <3>4. Cardinality(Spare(r, c)) \in Nat /\ Cardinality(Spare(q, c)) \in Nat
      BY SpareFinite
    <3>5. CASE p.st \notin Going /\ Roomy(r, y, m + 1)
      <4>1. Cardinality(Spare(r, c)) >= m + 1 + Need(r, y, c)
        BY <3>2, <3>5 DEF Roomy, HasRoom
      <4>2. Follower(r, c) => Follower(q, c)
        BY <2>1, <2>3, <3>2 DEF Follower
      <4>3. Leader(q, y, c) => Leader(r, y, c)
        <5>1. \A d \in Slots : Beat(q, d) => d # h /\ Beat(r, d) /\ q.pkt[d] = r.pkt[d]
          BY <2>1, <3>5 DEF Beat
        <5>2. QED BY <2>1, <3>2, <5>1 DEF Leader
      <4>4. Need(r, y, c) \in Nat /\ Need(q, y, c) \in Nat /\ Need(q, y, c) <= Need(r, y, c)
        BY <4>2, <4>3, NeedLess
      <4>5. QED BY <3>3, <3>4, <4>1, <4>4
    <3>6. CASE /\ p.kind = "HEARTBEAT" /\ p.st = "QUEUED" /\ Roomy(r, y, m)
               /\ \A d \in Slots : ~Beat(r, d)
      <4>1. Need(r, y, c) = 1
        BY <3>6 DEF Need, Follower, Leader
      <4>2. Cardinality(Spare(r, c)) >= m + Need(r, y, c)
        BY <3>2, <3>6 DEF Roomy, HasRoom
      <4>3. Need(q, y, c) = 0
        BY <2>1, <3>2, <3>6 DEF Need, Follower, Beat, Going
      <4>4. QED BY <3>3, <3>4, <4>1, <4>2, <4>3
    <3>7. QED BY <3>5, <3>6
  <2>7. OneBeat(q)
    <3>1. \A c \in Slots : Beat(q, c) /\ c # h => Beat(r, c)
      BY <2>1 DEF Beat
    <3>2. p.st \notin Going => ~Beat(q, h)
      BY <2>1 DEF Beat
    <3>3. QED BY <3>1, <3>2 DEF Roomy, OneBeat
  <2>8. QED BY <2>4, <2>5, <2>6, <2>7 DEF Roomy, q
<1>2. CASE ~CanAlloc(r)
  <2>1. q = r
    BY <1>2 DEF Alloc
  <2>2. Roomy(r, y, m)
    <3>1. CASE Roomy(r, y, m + 1)
      BY <3>1, RoomyLess
    <3>2. QED BY <3>1
  <2>3. QED BY <2>1, <2>2
<1>3. QED BY <1>1, <1>2

\* Slots that hold nothing that waits are emptied.
LEMMA FreedRoomy ==
    ASSUME NEW r, NEW q, q.head = r.head, q.pkt[Idle].st = r.pkt[Idle].st,
           \A c \in Slots : \/ q.pkt[c] = r.pkt[c]
                            \/ q.pkt[c] = FreePkt /\ r.pkt[c].st \notin Going,
           NEW y, NEW m \in Nat, Roomy(r, y, m)
    PROVE Roomy(q, y, m) /\ \A u : Carried(r, u) => Carried(q, u)
<1>1. \A c, d \in Slots : Ahead(q, c, d) <=> Ahead(r, c, d)
  BY DEF Ahead
<1>2. \A c \in Slots : /\ App(q, c) <=> App(r, c)
                       /\ Beat(q, c) <=> Beat(r, c)
                       /\ App(q, c) \/ Beat(q, c) => q.pkt[c] = r.pkt[c]
  BY DEF App, Beat, Going, FreePkt
<1>3. \A c \in Slots : ~Blocked(r.pkt[c]) => ~Blocked(q.pkt[c])
  BY DEF Blocked, FreePkt
<1>4. PlainPkt(FreePkt)
  BY DEF PlainPkt, FreePkt, Going
<1>5. \A c \in Slots : PlainPkt(q.pkt[c])
  BY <1>4 DEF Roomy
<1>6. BeatFirst(q)
  BY <1>1, <1>2 DEF Roomy, BeatFirst
<1>7. HasRoom(q, y, m)
  <2>1. SUFFICES ASSUME NEW c \in Slots, App(q, c)
                 PROVE Cardinality(Spare(q, c)) >= m + Need(q, y, c)
    BY DEF HasRoom
  <2>2. Spare(r, c) \subseteq Spare(q, c)
    BY <1>1, <1>3 DEF Spare
  <2>3. Cardinality(Spare(r, c)) <= Cardinality(Spare(q, c))
    BY <2>2, SpareMore
  <2>4. Follower(q, c) <=> Follower(r, c)
    BY <1>1, <1>2 DEF Follower
  <2>5. Cardinality(Spare(r, c)) \in Nat /\ Cardinality(Spare(q, c)) \in Nat
    BY SpareFinite
  <2>6. Cardinality(Spare(r, c)) >= m + Need(r, y, c)
    BY <1>2, <2>1 DEF Roomy, HasRoom
  <2>7. Leader(q, y, c) => Leader(r, y, c)
    BY <1>1, <1>2 DEF Leader
  <2>8. Need(r, y, c) \in Nat /\ Need(q, y, c) \in Nat /\ Need(q, y, c) <= Need(r, y, c)
    BY <2>4, <2>7, NeedLess
  <2>9. QED BY <2>3, <2>5, <2>6, <2>8
<1>8. \A u : Carried(r, u) => Carried(q, u)
  BY <1>2 DEF Carried
<1>9. OneBeat(q)
  BY <1>2 DEF Roomy, OneBeat
<1>10. QED BY <1>5, <1>6, <1>7, <1>8, <1>9 DEF Roomy

LEMMA UrgentPlain ==
    ASSUME NEW kind \in SysKinds, NEW i
    PROVE LET p == SysPkt(kind, "NEED_TO_SEND_RIGHT_NOW", i)
          IN  PlainPkt(p) /\ p.id = 0 /\ p.st \notin Going
BY DEF SysPkt, FreePkt, PlainPkt, Going

LEMMA SendClearRoomy ==
    ASSUME NEW r \in Ring, NEW i, NEW y, NEW m \in Nat, Roomy(r, y, m + 1)
    PROVE Roomy(SendClear(r, i), y, m) /\ \A u : Carried(r, u) => Carried(SendClear(r, i), u)
<1>1. "CLEAR_EXT" \in SysKinds
  BY DEF SysKinds
<1>2. Roomy(SendClear(r, i), y, m)
  BY <1>1, UrgentPlain, AllocRoomy DEF SendClear
<1>3. \A u : Carried(r, u) => Carried(SendClear(r, i), u)
  BY AllocCarried DEF SendClear
<1>4. QED BY <1>2, <1>3

LEMMA SendSyncRoomy ==
    ASSUME NEW r \in Ring, NEW i, NEW y, NEW m \in Nat, Roomy(r, y, m + 1)
    PROVE Roomy(SendSync(r, i), y, m) /\ \A u : Carried(r, u) => Carried(SendSync(r, i), u)
<1> DEFINE f == [c \in Cells |-> IF c \in SysQueued(r, "SYNC") THEN FreePkt ELSE r.pkt[c]]
           q == [r EXCEPT !.pkt = f]
<1>1. f \in [Cells -> Packet]
  BY RingPkt, FreePktType
<1>2. q \in Ring /\ q.pkt = f /\ q.head = r.head
  <2> HIDE DEF f
  <2> QED BY <1>1, PktsType DEF Ring
<1>3. /\ f[Idle] = r.pkt[Idle]
      /\ \A c \in Slots : f[c] = r.pkt[c] \/ (f[c] = FreePkt /\ r.pkt[c].kind = "SYNC")
  BY CellFacts DEF SysQueued
<1>4. \A c \in Slots : r.pkt[c].kind = "SYNC" => r.pkt[c].st \notin Going
  BY DEF Roomy, PlainPkt, AppKinds
<1> HIDE DEF f, q
<1>5. Roomy(q, y, m + 1) /\ \A u : Carried(r, u) => Carried(q, u)
  <2>1. \A c \in Slots : \/ q.pkt[c] = r.pkt[c]
                         \/ q.pkt[c] = FreePkt /\ r.pkt[c].st \notin Going
    BY <1>2, <1>3, <1>4
  <2>2. m + 1 \in Nat
    OBVIOUS
  <2>3. q.head = r.head /\ q.pkt[Idle].st = r.pkt[Idle].st
    BY <1>2, <1>3
  <2>4. QED BY <2>1, <2>2, <2>3, FreedRoomy
<1>6. SendSync(r, i) = Alloc(q, SysPkt("SYNC", "NEED_TO_SEND_RIGHT_NOW", i))
  BY DEF SendSync, q, f
<1>7. "SYNC" \in SysKinds
  BY DEF SysKinds
<1>8. Roomy(SendSync(r, i), y, m)
  BY <1>2, <1>5, <1>6, <1>7, UrgentPlain, AllocRoomy
<1>9. \A u : Carried(r, u) => Carried(SendSync(r, i), u)
  BY <1>2, <1>5, <1>6, AllocCarried
<1>10. QED BY <1>8, <1>9

LEMMA AfterLossRoomy ==
    ASSUME NEW r \in Ring, NEW policy, NEW y, NEW m \in Nat, Roomy(r, y, m + 1)
    PROVE /\ Roomy(AfterLoss(r, policy), y, m)
          /\ \A u : Carried(r, u) => Carried(AfterLoss(r, policy), u)
BY RoomyLess, SendSyncRoomy DEF AfterLoss

\* The oldest packet that waits is done: its slot is one more to take.
LEMMA DoneRoomy ==
    ASSUME NEW r \in Ring, NEW q, q.head = r.head, q.pkt[Idle].st = r.pkt[Idle].st,
           NEW b \in Slots, Blocked(r.pkt[b]), ~Blocked(q.pkt[b]), PlainPkt(q.pkt[b]),
           \A c \in Slots : c # b => Turn(r.pkt[c], q.pkt[c]),
           \A c \in Slots : c # b /\ App(r, c) => Ahead(r, b, c),
           NEW y, NEW m \in Nat, Roomy(r, y, m)
    PROVE Roomy(q, y, m + 1)
<1>1. \A c, d : Ahead(q, c, d) <=> Ahead(r, c, d)
  BY DEF Ahead
<1>2. \A c \in Slots : c # b =>
          /\ App(q, c) <=> App(r, c)
          /\ Beat(q, c) <=> Beat(r, c)
          /\ Blocked(q.pkt[c]) <=> Blocked(r.pkt[c])
          /\ PlainPkt(r.pkt[c]) => PlainPkt(q.pkt[c])
          /\ q.pkt[c].st = "QUEUED" <=> r.pkt[c].st = "QUEUED"
  BY DEF Turn, App, Beat, Going, Blocked, PlainPkt
<1>3. ~App(q, b) /\ ~Beat(q, b)
  BY DEF App, Beat, Going, Blocked
<1>4. \A c \in Slots : PlainPkt(q.pkt[c])
  BY <1>2 DEF Roomy
<1>5. BeatFirst(q)
  <2>1. SUFFICES ASSUME NEW c \in Slots, NEW d \in Slots, Beat(q, d),
                        q.pkt[d].st # "QUEUED", App(q, c)
                 PROVE Ahead(q, d, c)
    BY DEF BeatFirst
  <2>2. Beat(r, d) /\ App(r, c) /\ r.pkt[d].st # "QUEUED"
    BY <1>2, <1>3, <2>1
  <2>3. QED BY <1>1, <2>2 DEF Roomy, BeatFirst
<1>6. HasRoom(q, y, m + 1)
  <2>1. SUFFICES ASSUME NEW c \in Slots, App(q, c)
                 PROVE Cardinality(Spare(q, c)) >= m + 1 + Need(q, y, c)
    BY DEF HasRoom
  <2>2. c # b /\ App(r, c) /\ Ahead(r, b, c)
    BY <1>2, <1>3, <2>1
  <2>3. b \notin Spare(r, c) /\ b \in Spare(q, c) /\ Spare(r, c) \subseteq Spare(q, c)
    BY <1>1, <1>2, <2>2 DEF Spare
  <2>4. Cardinality(Spare(r, c)) + 1 <= Cardinality(Spare(q, c))
    BY <2>3, SparePlus
  <2>5. Follower(r, c) => Follower(q, c)
    <3>1. SUFFICES ASSUME NEW d \in Slots, Beat(r, d), Ahead(r, c, d) PROVE Follower(q, c)
      BY DEF Follower
    <3>2. CASE d # b
      BY <1>1, <1>2, <3>1, <3>2 DEF Follower
    <3>3. CASE d = b
      <4>1. Ahead(r, b, c) /\ Ahead(r, c, b)
        BY <2>2, <3>1, <3>3
      <4>2. Age(r.head, b) < Age(r.head, c) /\ Age(r.head, c) < Age(r.head, b)
        BY <4>1 DEF Ahead
      <4>3. Age(r.head, b) \in Int /\ Age(r.head, c) \in Int
        BY AgeFacts DEF Ring
      <4>4. QED BY <4>2, <4>3
    <3>4. QED BY <3>2, <3>3
  <2>6. Cardinality(Spare(r, c)) \in Nat /\ Cardinality(Spare(q, c)) \in Nat
    BY SpareFinite
  <2>7. Cardinality(Spare(r, c)) >= m + Need(r, y, c)
    BY <2>2 DEF Roomy, HasRoom
  <2>8. Leader(q, y, c) => Leader(r, y, c)
    BY <1>1, <1>2, <1>3 DEF Leader
  <2>9. Need(r, y, c) \in Nat /\ Need(q, y, c) \in Nat /\ Need(q, y, c) <= Need(r, y, c)
    BY <2>5, <2>8, NeedLess
  <2>10. QED BY <2>4, <2>6, <2>7, <2>9
<1>7. OneBeat(q)
  BY <1>2, <1>3 DEF Roomy, OneBeat
<1>8. QED BY <1>4, <1>5, <1>6, <1>7 DEF Roomy

LEMMA DoneCarried ==
    ASSUME NEW r, NEW q, NEW b \in Slots,
           \A c \in Slots : c # b => Turn(r.pkt[c], q.pkt[c]),
           NEW u, NEW v, Touches(u, v, r.pkt[b].id),
           r.pkt[b].id \in Ids => v[r.pkt[b].id].st \notin Open,
           Carried(r, u)
    PROVE Carried(q, v)
<1>1. SUFFICES ASSUME NEW id \in Ids, v[id].st \in Open
               PROVE \E s \in Slots : App(q, s) /\ q.pkt[s].id = id
  BY DEF Carried
<1>2. id # r.pkt[b].id /\ u[id].st \in Open
  BY <1>1 DEF Touches
<1>3. PICK s \in Slots : App(r, s) /\ r.pkt[s].id = id
  BY <1>2 DEF Carried
<1>4. s # b /\ Turn(r.pkt[s], q.pkt[s])
  BY <1>2, <1>3
<1>5. App(q, s) /\ q.pkt[s].id = id
  BY <1>3, <1>4 DEF Turn, App, Going
<1>6. QED BY <1>5

\* While the status ring holds all messages, a verdict reaches its message.
LEMMA StatusSet ==
    ASSUME MaxMsgs < IdMod, MaxMsgs <= StatSize, NEW u, NEW n \in 0 .. MaxMsgs,
           NEW x \in Ids, x <= n, NEW st
    PROVE SetStatus(u, n, x, st)[x] = [st |-> st, rep |-> FALSE]
<1>1. MaxMsgs \in Nat /\ StatSize \in Nat /\ IdMod \in Nat
  BY StatAssumption
<1>2. \A id \in Ids : id % IdMod = id
  BY SmallId
<1>3. x \in InRing(n)
  BY <1>1 DEF InRing, Ids
<1>4. Matching(n, x) = {x}
  BY <1>2, <1>3 DEF Matching, InRing
<1>5. x <= x
  BY DEF Ids
<1>6. QED BY <1>4, <1>5 DEF SetStatus

-----------------------------------------------------------------------------
\* NBFi_Packets_To_Send: every slot that is in use lies beyond the slots it
\* counts, as seen from head.
LEMMA OldestLeast ==
    ASSUME NEW h \in Slots, NEW S \in SUBSET Slots, S # {}
    PROVE Oldest(h, S) \in S /\ \A c \in S : Age(h, Oldest(h, S)) <= Age(h, c)
<1> DEFINE T == {Age(h, c) : c \in S}
           M == {s \in S : \A u \in S : Age(h, s) <= Age(h, u)}
<1>1. T \in SUBSET Nat /\ T # {}
  BY AgeFacts
<1>2. PICK n \in T : \A k \in T : n <= k
  <2> HIDE DEF T
  <2> QED BY <1>1, LeastOf
<1>3. PICK s \in S : n = Age(h, s)
  BY <1>2
<1>4. s \in M
  BY <1>2, <1>3
<1>5. AnyOf(M) \in M
  <2> HIDE DEF M
  <2> QED BY <1>4 DEF AnyOf
<1>6. Oldest(h, S) = AnyOf(M)
  BY DEF Oldest
<1>7. QED BY <1>5, <1>6

LEMMA FreeAhead ==
    ASSUME NEW r \in Ring, NEW a, NEW tx, NEW y, NEW m, Roomy(r, y, m)
    PROVE /\ \A c \in Slots : Blocked(r.pkt[c]) => FreeSlots(r, a, tx) <= Age(r.head, c)
          /\ FreeSlots(r, a, tx) \in 0 .. TxSize
<1> DEFINE B == Busy(r, a)
<1>1. r.head \in Slots /\ B \in SUBSET Slots /\ TxSize \in Nat /\ TxSize > 1
  BY DEF Ring, Busy
<1>2. \A c \in Slots : Blocked(r.pkt[c]) => c \in B
  BY DEF Roomy, PlainPkt, Blocked, Busy
<1> HIDE DEF B
<1>3. CASE B # {}
  <2>1. FreeSlots(r, a, tx) = Age(r.head, Oldest(r.head, B))
    BY <1>3 DEF FreeSlots, B
  <2>2. Oldest(r.head, B) \in B /\ \A c \in B : Age(r.head, Oldest(r.head, B)) <= Age(r.head, c)
    BY <1>1, <1>3, OldestLeast
  <2>3. Age(r.head, Oldest(r.head, B)) \in 0 .. TxSize - 1
    BY <1>1, <2>2, AgeFacts
  <2>4. QED BY <1>1, <1>2, <2>1, <2>2, <2>3
<1>4. CASE B = {}
  <2>1. FreeSlots(r, a, tx) = IF tx THEN TxSize - 1 ELSE TxSize
    BY <1>4 DEF FreeSlots, B
  <2>2. QED BY <1>1, <1>2, <1>4, <2>1
<1>5. QED BY <1>3, <1>4

LEMMA SlotBehind ==
    ASSUME NEW h \in Slots, NEW k \in 0 .. TxSize - 1 PROVE \E d \in Slots : Age(h, d) = k
<1>1. TxSize \in Nat /\ h \in Int /\ 0 <= h /\ h < TxSize
  BY DEF Slots
<1>2. CASE h + k < TxSize
  <2>1. h + k \in Slots /\ Age(h, h + k) = k
    BY <1>1, <1>2 DEF Slots, Age
  <2>2. QED BY <2>1
<1>3. CASE ~(h + k < TxSize)
  <2>1. h + k - TxSize \in Slots /\ Age(h, h + k - TxSize) = k
    BY <1>1, <1>3 DEF Slots, Age
  <2>2. QED BY <2>1
<1>4. QED BY <1>2, <1>3

LEMMA ThreeSpare ==
    ASSUME NEW r, NEW c, NEW d \in Spare(r, c), NEW e \in Spare(r, c),
           NEW f \in Spare(r, c), d # e, d # f, e # f
    PROVE Cardinality(Spare(r, c)) >= 3
<1> DEFINE A == {d}
           B == A \cup {e}
           C == B \cup {f}
<1>1. IsFiniteSet(Spare(r, c)) /\ Cardinality(Spare(r, c)) \in Nat
  BY SpareFinite
<1>2. IsFiniteSet(A) /\ Cardinality(A) = 1 /\ e \notin A
  BY FS_Singleton
<1>3. f \notin B /\ C \in SUBSET Spare(r, c)
  OBVIOUS
<1> HIDE DEF A
<1>4. IsFiniteSet(B) /\ Cardinality(B) = Cardinality(A) + 1
  BY <1>2, FS_AddElement
<1> HIDE DEF B
<1>5. IsFiniteSet(C) /\ Cardinality(C) = Cardinality(B) + 1
  BY <1>3, <1>4, FS_AddElement
<1> HIDE DEF C
<1>6. Cardinality(C) <= Cardinality(Spare(r, c))
  BY <1>1, <1>3, FS_Subset
<1>7. QED BY <1>1, <1>2, <1>4, <1>5, <1>6

\* A packet is queued after NBFi_Packets_To_Send counted four slots.
LEMMA QueueRoomy ==
    ASSUME NEW r \in Ring, NEW y, NEW p, p.st = "QUEUED", p.id # 0, p.kind \in AppKinds,
           TxSize > 3, Roomy(r, y, 1),
           \A c \in Slots : Blocked(r.pkt[c]) => Age(r.head, c) >= 4
    PROVE CanAlloc(r) /\ Roomy(Alloc(r, p), y, 1)
<1> DEFINE q == Alloc(r, p)
           h == r.head
<1>0. h \in Slots
  BY DEF Ring
<1>1. CanAlloc(r)
  <2>1. Age(h, h) = 0
    BY <1>0 DEF Age, Slots
  <2>2. QED BY <1>0, <2>1 DEF CanAlloc
<1>2. /\ h \in Slots /\ ~Blocked(r.pkt[h])
      /\ q.pkt[h] = p /\ q.pkt[Idle] = r.pkt[Idle]
      /\ \A c \in Slots : c # h => q.pkt[c] = r.pkt[c]
      /\ \A c, d \in Slots : c # h /\ d # h => (Ahead(q, c, d) <=> Ahead(r, c, d))
      /\ \A c \in Slots : c # h => Ahead(q, c, h) /\ ~Ahead(q, h, c)
  BY <1>1, AllocCells
<1>3. /\ \E x \in Slots : Age(h, x) = 1
      /\ \E x \in Slots : Age(h, x) = 2
      /\ \E x \in Slots : Age(h, x) = 3
  <2>1. 1 \in 0 .. TxSize - 1 /\ 2 \in 0 .. TxSize - 1 /\ 3 \in 0 .. TxSize - 1
    OBVIOUS
  <2> HIDE DEF h
  <2>2. QED BY <1>0, <2>1, SlotBehind
<1>31. PICK d \in Slots : Age(h, d) = 1
  BY <1>3
<1>32. PICK e \in Slots : Age(h, e) = 2
  BY <1>3
<1>33. PICK f \in Slots : Age(h, f) = 3
  BY <1>3
<1>34. Age(h, h) = 0
  BY <1>0 DEF Age, Slots
<1>4. /\ d # h /\ e # h /\ f # h /\ d # e /\ d # f /\ e # f
      /\ ~Blocked(r.pkt[d]) /\ ~Blocked(r.pkt[e]) /\ ~Blocked(r.pkt[f])
  BY <1>31, <1>32, <1>33, <1>34
<1>5. \A c \in Slots : Age(h, c) \in Int
  BY <1>0, AgeFacts
<1> HIDE DEF q, h
<1>6. q.pkt[Idle].st = "FREE" /\ \A c \in Slots : PlainPkt(q.pkt[c])
  <2>1. r.pkt[Idle].st = "FREE" /\ \A c \in Slots : PlainPkt(r.pkt[c])
    BY DEF Roomy
  <2>2. PlainPkt(p)
    BY DEF PlainPkt
  <2>3. QED BY <1>2, <2>1, <2>2
<1>7. BeatFirst(q)
  <2>1. SUFFICES ASSUME NEW c \in Slots, NEW b \in Slots, Beat(q, b),
                        q.pkt[b].st # "QUEUED", App(q, c)
                 PROVE Ahead(q, b, c)
    BY DEF BeatFirst
  <2>2. b # h /\ Beat(r, b) /\ r.pkt[b].st # "QUEUED"
    BY <1>2, <2>1 DEF Beat
  <2>3. CASE c = h
    BY <1>2, <2>2, <2>3
  <2>4. CASE c # h
    <3>1. App(r, c)
      BY <1>2, <2>1, <2>4 DEF App
    <3>2. Ahead(r, b, c)
      BY <2>2, <3>1 DEF Roomy, BeatFirst
    <3>3. QED BY <1>2, <2>2, <2>4, <3>2
  <2>5. QED BY <2>3, <2>4
<1>8. HasRoom(q, y, 1)
  <2>1. SUFFICES ASSUME NEW c \in Slots, App(q, c)
                 PROVE Cardinality(Spare(q, c)) >= 1 + Need(q, y, c)
    BY DEF HasRoom
  <2>2. Ahead(q, d, c) /\ Ahead(q, e, c) /\ Ahead(q, f, c)
    <3>1. CASE c = h
      BY <1>2, <1>4, <3>1
    <3>2. CASE c # h
      <4>1. Blocked(r.pkt[c])
        BY <1>2, <2>1, <3>2 DEF App, Going, Blocked
      <4>2. Age(h, c) >= 4
        BY <4>1 DEF h
      <4>3. Ahead(r, d, c) /\ Ahead(r, e, c) /\ Ahead(r, f, c)
        BY <1>31, <1>32, <1>33, <1>5, <4>2 DEF Ahead, h
      <4>4. QED BY <1>2, <1>4, <3>2, <4>3
    <3>3. QED BY <3>1, <3>2
  <2>3. d \in Spare(q, c) /\ e \in Spare(q, c) /\ f \in Spare(q, c)
    BY <1>2, <1>4, <2>2 DEF Spare
  <2>4. Cardinality(Spare(q, c)) >= 3
    BY <1>4, <2>3, ThreeSpare
  <2>5. Cardinality(Spare(q, c)) \in Nat /\ Need(q, y, c) \in 0 .. 2
    BY SpareFinite DEF Need
  <2>6. QED BY <2>4, <2>5
<1>9. OneBeat(q)
  <2>1. \A c \in Slots : Beat(q, c) => c # h /\ Beat(r, c)
    BY <1>2 DEF Beat, AppKinds
  <2>2. QED BY <2>1 DEF Roomy, OneBeat
<1>10. QED BY <1>1, <1>6, <1>7, <1>8, <1>9 DEF Roomy, q

\* A message that finds four free slots is queued, whole.
LEMMA Send5Alloc ==
    ASSUME Undisturbed, CarryInv, NEW len \in Lengths, NEW flags \in FlagSets,
           Send5(len, flags), sentId' # sentId
    PROVE \E p :
             /\ TxSize > 3 /\ \A c \in Slots : Blocked(ring.pkt[c]) => Age(ring.head, c) >= 4
             /\ ring' = Alloc(ring, p)
             /\ p.st = "QUEUED" /\ p.id = sentId + 1 /\ p.kind \in AppKinds
             /\ sentId + 1 \in Ids
             /\ ul' = [ul EXCEPT ![sentId + 1] = [st |-> "QUEUED", rep |-> FALSE]]
<1> DEFINE h     == ring.head
           id    == sentId + 1
           n     == Fragments(len)
           k     == Allocatable(ring, n)
           first == IF "SAME_TX_ITER" \in flags /\ k > 0 THEN lastIter ELSE ulIter
           free  == FreeSlots(ring, active, transmit)
           frag(c) == Fragment(id, len, flags, first, Age(h, c), n, notAcked, mode)
           p     == frag(h)
<1>1. /\ ring \in Ring /\ h \in Slots /\ sentId \in 0 .. MaxMsgs /\ MaxMsgs \in Nat
      /\ MaxMsgs < IdMod /\ TypeOK /\ len <= MaxPayload /\ Mack = 1
      /\ CountSweep(ring, active) = ring
  BY StatAssumption, RestSame DEF CarryInv, LinedInv, TypeOK, Ring, Undisturbed, Singles
<1>2. free >= Mack + 3 /\ sentId < MaxMsgs
  BY <1>1 DEF Send5
<1>3. /\ ul' = [ul EXCEPT ![id] = [st |-> "QUEUED", rep |-> FALSE]]
      /\ ring' = [pkt |-> [c \in Cells |-> IF c \in Slots /\ Age(h, c) < k
                                           THEN frag(c) ELSE ring.pkt[c]],
                  head |-> (h + k) % TxSize]
  <2>1. ~(sentId' = sentId)
    OBVIOUS
  <2>2. CountSweep(ring, active) = ring
    BY <1>1
  <2>3. QED BY <1>1, <1>2, <2>1, <2>2 DEF Send5
<1>4. TxSize > 3 /\ \A c \in Slots : Blocked(ring.pkt[c]) => Age(h, c) >= 4
  <2>1. /\ \A c \in Slots : Blocked(ring.pkt[c]) => free <= Age(h, c)
        /\ free \in 0 .. TxSize
    BY <1>1, FreeAhead DEF CarryInv
  <2>2. \A c \in Slots : Age(h, c) \in Int
    BY <1>1, AgeFacts
  <2> HIDE DEF free, h
  <2>3. free >= 4
    BY <1>1, <1>2, <2>1
  <2>4. QED BY <2>1, <2>2, <2>3
<1>5. \A c \in Slots : Age(h, c) \in Nat /\ (Age(h, c) < 1 <=> c = h)
  <2> HIDE DEF h
  <2> QED BY <1>1 DEF Age, Slots
<1>6. n = 1
  BY <1>1 DEF Fragments
<1>7. k = 1
  <2> DEFINE blocked(j) == Blocked(ring.pkt[(h + j) % TxSize])
             S == {i \in 0 .. n - 1 : blocked(i) /\ \A j \in 0 .. i - 1 : ~blocked(j)}
  <2>1. k = IF AnyOf(S) = None THEN n ELSE AnyOf(S)
    BY DEF Allocatable
  <2>2. (h + 0) % TxSize = h
    <3> HIDE DEF h
    <3> QED BY <1>1 DEF Slots
  <2>3. ~blocked(0)
    <3>1. ~Blocked(ring.pkt[h])
      BY <1>1, <1>4, <1>5
    <3>2. QED BY <2>2, <3>1
  <2> HIDE DEF blocked, n
  <2>4. S = {}
    BY <1>6, <2>3
  <2> HIDE DEF S, k
  <2>5. QED BY <1>6, <2>1, <2>4 DEF AnyOf
<1> HIDE DEF k, n
<1>8. ring' = Alloc(ring, p)
  <2>1. CanAlloc(ring)
    BY <1>1, <1>4, <1>5 DEF CanAlloc
  <2>2. Alloc(ring, p) = [pkt |-> [ring.pkt EXCEPT ![h] = p], head |-> (h + 1) % TxSize]
    BY <2>1 DEF Alloc
  <2>3. ring.pkt \in [Cells -> Packet] /\ h \in Cells
    BY <1>1, CellFacts DEF Ring
  <2>4. ring'.pkt = [c \in Cells |-> IF c = h THEN p ELSE ring.pkt[c]]
    <3> DEFINE f == [c \in Cells |-> IF c \in Slots /\ Age(h, c) < k
                                     THEN frag(c) ELSE ring.pkt[c]]
    <3>1. ring'.pkt = f
      BY <1>3
    <3>2. ASSUME NEW c \in Cells PROVE c \in Slots /\ Age(h, c) < k <=> c = h
      BY <1>1, <1>5, <1>7
    <3> HIDE DEF frag, h
    <3>3. \A c \in Cells : (IF c \in Slots /\ Age(h, c) < k THEN frag(c) ELSE ring.pkt[c])
                           = IF c = h THEN frag(h) ELSE ring.pkt[c]
      BY <3>2
    <3>4. QED BY <3>1, <3>3
  <2> HIDE DEF p
  <2>5. ring'.pkt = [ring.pkt EXCEPT ![h] = p]
    BY <2>3, <2>4
  <2>6. QED BY <1>3, <1>7, <2>2, <2>4, <2>5
<1>9. id \in Ids /\ id % IdMod = id
  <2>1. id \in Ids
    BY <1>1, <1>2 DEF Ids
  <2> HIDE DEF id
  <2>2. QED BY <1>1, <2>1, SmallId
<1>10. p.st = "QUEUED" /\ p.id = id % IdMod /\ p.kind \in AppKinds
  BY DEF Fragment, AppKinds
<1> HIDE DEF p, id
<1>11. QED BY <1>3, <1>4, <1>8, <1>9, <1>10 DEF id, h

CarryStep == /\ Roomy(ring', station'.reply.type = "ACK", 1)
             /\ Carried(ring', ul')
             /\ OneWaits(ring', active')

LEMMA Send5Carried ==
    ASSUME Undisturbed, CarryInv, NEW len \in Lengths, NEW flags \in FlagSets,
           Send5(len, flags)
    PROVE CarryStep
<1> DEFINE y == station.reply.type = "ACK"
<1>1. /\ ring \in Ring /\ Roomy(ring, y, 1) /\ Carried(ring, ul) /\ OneWaits(ring, active)
      /\ UNCHANGED <<active, station>>
      /\ ul \in [Ids -> [st : UlStatuses, rep : BOOLEAN]] /\ sentId \in Nat
  BY DEF CarryInv, LinedInv, TypeOK, Send5
<1> HIDE DEF y
<1>2. CASE sentId' = sentId
  <2>1. sentId # sentId + 1
    BY <1>1
  <2>2. ring' = CountSweep(ring, active) /\ ul' = ul
    BY <1>2, <2>1 DEF Send5
  <2>3. ring' = ring
    BY <1>1, <2>2, RestSame
  <2>4. QED BY <1>1, <2>2, <2>3 DEF CarryStep, y
<1>3. CASE sentId' # sentId
  <2> DEFINE id == sentId + 1
             h  == ring.head
  <2>1. PICK p :
             /\ TxSize > 3 /\ \A c \in Slots : Blocked(ring.pkt[c]) => Age(ring.head, c) >= 4
             /\ ring' = Alloc(ring, p)
             /\ p.st = "QUEUED" /\ p.id = id /\ p.kind \in AppKinds
             /\ id \in Ids
             /\ ul' = [ul EXCEPT ![id] = [st |-> "QUEUED", rep |-> FALSE]]
    BY <1>3, Send5Alloc
  <2>2. id # 0
    BY <1>1
  <2>3. CanAlloc(ring) /\ Roomy(ring', y, 1)
    <3> HIDE DEF id
    <3> QED BY <1>1, <2>1, <2>2, QueueRoomy
  <2>4. /\ h \in Slots /\ ring'.pkt[h] = p
        /\ \A c \in Slots : c # h => ring'.pkt[c] = ring.pkt[c]
    BY <1>1, <2>1, <2>3, AllocCells
  <2> HIDE DEF id, h
  <2>5. Carried(ring', ul')
    <3>1. SUFFICES ASSUME NEW i \in Ids, ul'[i].st \in Open
                   PROVE \E s \in Slots : App(ring', s) /\ ring'.pkt[s].id = i
      BY DEF Carried
    <3>2. CASE i = id
      <4>1. App(ring', h) /\ ring'.pkt[h].id = i
        BY <2>1, <2>2, <2>4, <3>2 DEF App, Going
      <4>2. QED BY <2>4, <4>1
    <3>3. CASE i # id
      <4>1. ul[i].st \in Open
        BY <1>1, <2>1, <3>1, <3>3
      <4>2. Carried(ring', ul)
        BY <1>1, <2>1, AllocCarried
      <4>3. QED BY <4>1, <4>2 DEF Carried
    <3>4. QED BY <3>2, <3>3
  <2>6. OneWaits(ring', active')
    <3>1. ASSUME NEW c \in Slots, ring'.pkt[c].st = "WAIT_ACK" PROVE c = active'
      <4>1. c # h
        BY <2>1, <2>4, <3>1
      <4>2. ring'.pkt[c] = ring.pkt[c]
        BY <2>4, <4>1
      <4>3. QED BY <1>1, <3>1, <4>2 DEF OneWaits
    <3>2. QED BY <3>1 DEF OneWaits
  <2>7. QED BY <1>1, <2>3, <2>5, <2>6 DEF CarryStep, y
<1>4. QED BY <1>2, <1>3

\* Handlers that leave the ring and the messages alone.
LEMMA CarryQuiet ==
    ASSUME CarryInv, ring' = ring, active' = active, station'.reply = station.reply,
           \A id \in Ids : ul'[id].st = ul[id].st
    PROVE CarryStep
<1>1. Carried(ring', ul')
  BY DEF CarryInv, Carried
<1>2. QED BY <1>1 DEF CarryStep, CarryInv

\* What the search picks: a heartbeat only before all older messages, and a
\* message only when no heartbeat is being tried.
LEMMA PickedFirst ==
    ASSUME NEW r \in Ring, NEW a, OneWaits(r, a), r.pkt[a].st # "WAIT_ACK",
           NEW y, NEW m, Roomy(r, y, m), Queued(r, a) # None
    PROVE LET s == Queued(r, a)
          IN  /\ s \in Slots /\ r.pkt[s].st \in {"NEED_TO_SEND_RIGHT_NOW", "QUEUED", "QUEUED_AGAIN"}
              /\ Beat(r, s) => \A c \in Slots : App(r, c) => Ahead(r, s, c)
              /\ App(r, s) => \A d \in Slots : Beat(r, d) => r.pkt[d].st = "QUEUED"
<1> DEFINE s == Queued(r, a)
<1>1. \A c \in Slots : r.pkt[c].st # "WAIT_ACK"
  BY DEF OneWaits
<1>2. \/ s \in Urgent(r)
      \/ s \in Again(r) /\ \A c \in Again(r) : Age(r.head, s) <= Age(r.head, c)
      \/ /\ Again(r) = {} /\ s \in Fresh(r, a)
         /\ \A c \in Fresh(r, a) : Age(r.head, s) <= Age(r.head, c)
  <2>1. CASE Urgent(r) # {}
    BY <2>1, OldestFacts DEF Queued
  <2>2. CASE Urgent(r) = {} /\ Again(r) # {}
    BY <2>2, OldestFacts DEF Queued
  <2>3. CASE Urgent(r) = {} /\ Again(r) = {}
    BY <2>3, OldestFacts DEF Queued
  <2>4. QED BY <2>1, <2>2, <2>3
<1> HIDE DEF s
<1>3. Again(r) = InState(r, "QUEUED_AGAIN") /\ Fresh(r, a) = InState(r, "QUEUED")
  BY <1>1 DEF Again, Fresh, InState
<1>4. s \in Slots /\ r.pkt[s].st \in {"NEED_TO_SEND_RIGHT_NOW", "QUEUED", "QUEUED_AGAIN"}
  BY <1>2, <1>3 DEF Urgent, InState
<1>5. r.head \in Slots /\ \A c \in Slots : Age(r.head, c) \in Int
  BY AgeFacts DEF Ring
<1>6. ASSUME Beat(r, s), NEW c \in Slots, App(r, c) PROVE Ahead(r, s, c)
  <2>1. CASE r.pkt[s].st # "QUEUED"
    BY <1>4, <1>6, <2>1 DEF Roomy, BeatFirst
  <2>2. CASE r.pkt[s].st = "QUEUED"
    <3>1. /\ Again(r) = {} /\ \A d \in Fresh(r, a) : Age(r.head, s) <= Age(r.head, d)
      BY <1>2, <1>3, <2>2 DEF Urgent, InState
    <3>2. c \in Fresh(r, a)
      BY <1>1, <1>3, <1>6, <3>1 DEF App, Going, InState
    <3>3. c # s
      BY <1>4, <1>6 DEF App, Beat, Roomy, PlainPkt, AppKinds
    <3>4. Age(r.head, s) < Age(r.head, c)
      BY <1>4, <1>5, <3>1, <3>2, <3>3, AgeFacts
    <3>5. QED BY <3>4 DEF Ahead
  <2>3. QED BY <2>1, <2>2
<1>7. ASSUME App(r, s), NEW d \in Slots, Beat(r, d), r.pkt[d].st # "QUEUED" PROVE FALSE
  <2>1. Ahead(r, d, s)
    BY <1>4, <1>7 DEF Roomy, BeatFirst
  <2>2. d \in Again(r)
    BY <1>1, <1>3, <1>7 DEF Beat, Going, InState
  <2>3. Age(r.head, s) <= Age(r.head, d)
    BY <1>2, <1>7, <2>2 DEF Urgent, InState, App, Going
  <2>4. QED BY <1>4, <1>5, <2>1, <2>3 DEF Ahead
<1>8. QED BY <1>4, <1>6, <1>7 DEF s

\* The packet goes on the air and waits for its ACK.
LEMMA AirRoomy ==
    ASSUME NEW r, NEW q, q.head = r.head, q.pkt[Idle].st = r.pkt[Idle].st,
           NEW b \in Slots, r.pkt[b].st \in Going, q.pkt[b].st = "WAIT_ACK",
           q.pkt[b].id = r.pkt[b].id, q.pkt[b].kind = r.pkt[b].kind,
           q.pkt[b].hs = r.pkt[b].hs, q.pkt[b].ack = r.pkt[b].ack,
           \A c \in Slots : c # b => q.pkt[c] = r.pkt[c],
           \A c \in Slots : Beat(r, b) /\ App(r, c) => Ahead(r, b, c),
           NEW y, NEW m \in Nat, Roomy(r, y, m)
    PROVE Roomy(q, y, m) /\ \A u : Carried(r, u) => Carried(q, u)
<1>1. \A c, d : Ahead(q, c, d) <=> Ahead(r, c, d)
  BY DEF Ahead
<1>2. \A c \in Slots :
          /\ App(q, c) <=> App(r, c)
          /\ Beat(q, c) <=> Beat(r, c)
          /\ Blocked(q.pkt[c]) <=> Blocked(r.pkt[c])
          /\ PlainPkt(r.pkt[c]) => PlainPkt(q.pkt[c])
          /\ q.pkt[c].st = "QUEUED" => r.pkt[c].st = "QUEUED"
          /\ q.pkt[c].id = r.pkt[c].id
  <2>1. ASSUME NEW c \in Slots, c # b PROVE q.pkt[c] = r.pkt[c]
    BY <2>1
  <2>2. /\ App(q, b) <=> App(r, b)
        /\ Beat(q, b) <=> Beat(r, b)
        /\ Blocked(q.pkt[b]) /\ Blocked(r.pkt[b])
    BY DEF App, Beat, Going, Blocked
  <2>3. PlainPkt(r.pkt[b]) => PlainPkt(q.pkt[b])
    BY DEF PlainPkt, Going
  <2>4. QED BY <2>1, <2>2, <2>3 DEF App, Beat
<1>3. \A c \in Slots : PlainPkt(q.pkt[c])
  BY <1>2 DEF Roomy
<1>4. BeatFirst(q)
  <2>1. SUFFICES ASSUME NEW c \in Slots, NEW d \in Slots, Beat(q, d),
                        q.pkt[d].st # "QUEUED", App(q, c)
                 PROVE Ahead(q, d, c)
    BY DEF BeatFirst
  <2>2. Beat(r, d) /\ App(r, c)
    BY <1>2, <2>1
  <2>3. CASE d = b
    BY <1>1, <2>2, <2>3
  <2>4. CASE d # b
    <3>1. r.pkt[d].st # "QUEUED"
      BY <2>1, <2>4
    <3>2. QED BY <1>1, <2>2, <3>1 DEF Roomy, BeatFirst
  <2>5. QED BY <2>3, <2>4
<1>5. HasRoom(q, y, m)
  <2>1. SUFFICES ASSUME NEW c \in Slots, App(q, c)
                 PROVE Cardinality(Spare(q, c)) >= m + Need(q, y, c)
    BY DEF HasRoom
  <2>2. Spare(q, c) = Spare(r, c)
    BY <1>1, <1>2 DEF Spare
  <2>3. Follower(r, c) => Follower(q, c)
    BY <1>1, <1>2 DEF Follower
  <2>4. Leader(q, y, c) => Leader(r, y, c)
    BY <1>1, <1>2 DEF Leader
  <2>5. Need(r, y, c) \in Nat /\ Need(q, y, c) \in Nat /\ Need(q, y, c) <= Need(r, y, c)
    BY <2>3, <2>4, NeedLess
  <2>6. Cardinality(Spare(r, c)) >= m + Need(r, y, c) /\ Cardinality(Spare(r, c)) \in Nat
    BY <1>2, <2>1, SpareFinite DEF Roomy, HasRoom
  <2>7. QED BY <2>2, <2>5, <2>6
<1>6. OneBeat(q)
  BY <1>2 DEF Roomy, OneBeat
<1>7. \A u : Carried(r, u) => Carried(q, u)
  BY <1>2 DEF Carried
<1>8. QED BY <1>3, <1>4, <1>5, <1>6, <1>7 DEF Roomy

LEMMA AirReply ==
    ASSUME NEW p, Air(p), p.kind \notin AppKinds
    PROVE station'.reply.type = "ACK" => station.reply.type = "ACK"
BY DEF Air, StationHears

\* The oldest packet of a message that waits stands before all others.
LEMMA LeastAhead ==
    ASSUME NEW r \in Ring, NEW a, NEW o, NEW u, NEW n, RingLined(r, a, o, u, n),
           NEW s \in Slots, r.pkt[s].id # 0,
           \A c \in Slots : r.pkt[c].id # 0 /\ r.pkt[c].st \in Pending
               => r.pkt[s].id <= r.pkt[c].id
    PROVE \A c \in Slots : c # s /\ App(r, c) => Ahead(r, s, c)
<1>1. SUFFICES ASSUME NEW c \in Slots, c # s, App(r, c) PROVE Ahead(r, s, c)
  OBVIOUS
<1>2. r.pkt[s].id <= r.pkt[c].id
  BY <1>1 DEF App, Going, Pending
<1>3. r.pkt[c].id \in Int /\ r.pkt[s].id \in Int
  BY RingPkt, CellFacts DEF Packet
<1>4. Ahead(r, c, s) => r.pkt[c].id < r.pkt[s].id
  BY <1>1 DEF RingLined, PairLined, App
<1>5. Ahead(r, c, s) \/ Ahead(r, s, c)
  <2>1. r.head \in Slots
    BY DEF Ring
  <2>2. Age(r.head, s) \in Int /\ Age(r.head, c) \in Int /\ Age(r.head, s) # Age(r.head, c)
    BY <1>1, <2>1, AgeFacts
  <2>3. QED BY <2>2 DEF Ahead
<1>6. QED BY <1>2, <1>3, <1>4, <1>5

\* The packet is done and freed, or it waits for its ACK.
LEMMA SendNextPlain ==
    ASSUME CarryInv, SendNext
    PROVE LET s == Queued(ring, active)
              p == ring.pkt[s]
              x == ring'.pkt[s]
          IN  /\ s \in Slots /\ p \in Packet /\ Sweep(ring, active) = ring
              /\ ring'.head = ring.head /\ ring'.pkt[Idle] = ring.pkt[Idle]
              /\ \A c \in Slots : c # s => ring'.pkt[c] = ring.pkt[c]
              /\ \/ StateOnAir(p) = "SENT" /\ x = FreePkt
                 \/ /\ StateOnAir(p) # "SENT" /\ x.st = "WAIT_ACK" /\ p.st \in Going
                    /\ x.id = p.id /\ x.kind = p.kind /\ x.hs = p.hs /\ x.ack = p.ack
              /\ OneWaits(ring', active')
<1> DEFINE s  == Queued(ring, active)
           p  == ring.pkt[s]
           r1 == SetPkt(ring, s, AfterAir(p))
           more == Queued(r1, s) # None
           looks == ~p.ack /\ IsSystem(p)
           r2 == IF looks THEN Sweep(r1, s) ELSE r1
<1>1. /\ TypeOK /\ ring \in Ring /\ OneWaits(ring, active) /\ mode = Mode
      /\ \A c \in Slots : PlainPkt(ring.pkt[c])
  BY DEF CarryInv, LinedInv, TypeOK, Roomy
<1>2. Sweep(ring, active) = ring
  BY <1>1, RestSame
<1>3. /\ s \in Slots /\ mode # "OFF" /\ ring.pkt[active].st # "WAIT_ACK"
      /\ r1 \in Ring
      /\ active' = IF StateOnAir(p) = "SENT" THEN Idle ELSE s
  BY <1>1, <1>2, SendNextShape
<1>4. p \in Packet /\ PktLined(p, Meant(p, s, active, oldState), ul, sentId)
  <2> HIDE DEF s
  <2> QED BY <1>1, <1>3, RingPkt, CellFacts DEF CarryInv, LinedInv, RingLined
<1>5. ring' = IF looks /\ StateOnAir(p) # "SENT" THEN [r2 EXCEPT !.pkt[s].multi = more] ELSE r2
  <2>1. Transmit(ring, s)
    BY <1>2 DEF SendNext
  <2>2. QED BY <2>1 DEF Transmit
<1> HIDE DEF s
<1>6. p.st \in Pending
  <2>1. RingLined(ring, Idle, oldState, ul, sentId)
    BY <1>1, LinedActive DEF CarryInv, LinedInv, SendNext
  <2>2. Queued(ring, active) # None
    BY DEF SendNext
  <2>3. QED BY <1>1, <1>3, <2>1, <2>2, QueuedOldest DEF s
<1>7. StateOnAir(p) # "SENT" => p.hs /\ p.ack /\ p.st \in Going
  <2>1. StateOnAir(p) # "SENT" => p.hs /\ Mode = "CRX"
    BY <1>1, ModeAssumption DEF StateOnAir, AckMode
  <2>2. PlainPkt(p)
    BY <1>1, <1>3
  <2>3. p.st \in Going \cup {"NEED_TO_SEND_RIGHT_NOW"}
    BY <1>6 DEF Pending, Going
  <2> HIDE DEF p
  <2>4. QED BY <1>4, <2>1, <2>2, <2>3 DEF PlainPkt, PktLined
<1>8. \/ StateOnAir(p) = "SENT" /\ AfterAir(p) = FreePkt
      \/ /\ StateOnAir(p) # "SENT" /\ AfterAir(p).st = "WAIT_ACK"
         /\ AfterAir(p).id = p.id /\ AfterAir(p).kind = p.kind
         /\ AfterAir(p).hs = p.hs /\ AfterAir(p).ack = p.ack
  <2> HIDE DEF p
  <2> QED BY <1>1, <1>3, <1>4, <1>7, AfterAirShape
<1>9. /\ r1.head = ring.head
      /\ \A c \in Cells : r1.pkt[c] = IF c = s THEN AfterAir(p) ELSE ring.pkt[c]
  <2> HIDE DEF p
  <2> QED BY <1>1, <1>3, CellFacts DEF SetPkt, Ring
<1>10. \A c \in Slots : r1.pkt[c].st = "WAIT_ACK" => c = s /\ StateOnAir(p) # "SENT"
  <2>1. FreePkt.st # "WAIT_ACK"
    BY DEF FreePkt
  <2> HIDE DEF p, r1
  <2>2. QED BY <1>1, <1>3, <1>8, <1>9, <2>1, CellFacts DEF OneWaits
<1>11. ring' = r1
  <2>1. OneWaits(r1, s)
    <3> HIDE DEF r1
    <3> QED BY <1>10 DEF OneWaits
  <2>2. Sweep(r1, s) = r1
    <3> HIDE DEF r1
    <3> QED BY <1>3, <2>1, RestSame
  <2> HIDE DEF r1, p, more
  <2>3. QED BY <1>5, <1>7, <2>2
<1>12. OneWaits(ring', active')
  <2> HIDE DEF r1, p
  <2> QED BY <1>3, <1>10, <1>11 DEF OneWaits
<1> HIDE DEF r1
<1>13. QED BY <1>2, <1>3, <1>4, <1>7, <1>8, <1>9, <1>11, <1>12, CellFacts DEF s

LEMMA FreePlain == PlainPkt(FreePkt) /\ ~Blocked(FreePkt)
BY DEF PlainPkt, FreePkt, Going, Blocked

LEMMA SendNextCarried == ASSUME Undisturbed, CarryInv, SendNext PROVE CarryStep
<1> DEFINE s == Queued(ring, active)
           p == ring.pkt[s]
           x == ring'.pkt[s]
           y == station.reply.type = "ACK"
           z == station'.reply.type = "ACK"
           u1 == SetStatus(ul, sentId, p.id, "INPROCESS")
           u2 == SetStatus(u1, sentId, p.id, "DELIVERED")
<1>1. /\ TypeOK /\ ring \in Ring /\ OneWaits(ring, active) /\ Roomy(ring, y, 1)
      /\ Carried(ring, ul) /\ LinedInv /\ MaxMsgs < IdMod /\ MaxMsgs <= StatSize
      /\ sentId \in 0 .. MaxMsgs
  BY DEF CarryInv, LinedInv, TypeOK, Undisturbed, Singles
<1>2. /\ s \in Slots /\ p \in Packet /\ Sweep(ring, active) = ring
      /\ ring'.head = ring.head /\ ring'.pkt[Idle] = ring.pkt[Idle]
      /\ \A c \in Slots : c # s => ring'.pkt[c] = ring.pkt[c]
      /\ \/ StateOnAir(p) = "SENT" /\ x = FreePkt
         \/ /\ StateOnAir(p) # "SENT" /\ x.st = "WAIT_ACK" /\ p.st \in Going
            /\ x.id = p.id /\ x.kind = p.kind /\ x.hs = p.hs /\ x.ack = p.ack
      /\ OneWaits(ring', active')
  BY SendNextPlain
<1>3. /\ ul' = IF StateOnAir(p) = "SENT" THEN u2 ELSE u1
      /\ Air(p)
  BY <1>1, <1>2, SendNextShape
<1>4. /\ RingLined(ring, Idle, oldState, ul, sentId)
      /\ p.st \in Pending
      /\ p.id # 0 =>
            /\ p.id \in Ids /\ p.id <= sentId /\ ul[p.id].st \in Open
            /\ \A c \in Slots : ring.pkt[c].id # 0 /\ ring.pkt[c].st \in Pending
                  => p.id <= ring.pkt[c].id
      /\ p.kind \in AppKinds => p.id # 0
  BY <1>1, <1>2, SentPacket
<1>5. /\ p.st \in {"NEED_TO_SEND_RIGHT_NOW", "QUEUED", "QUEUED_AGAIN"}
      /\ Beat(ring, s) => \A c \in Slots : App(ring, c) => Ahead(ring, s, c)
      /\ App(ring, s) => \A d \in Slots : Beat(ring, d) => ring.pkt[d].st = "QUEUED"
  <2>1. Queued(ring, active) # None /\ ring.pkt[active].st # "WAIT_ACK"
    BY DEF SendNext
  <2> HIDE DEF y
  <2>2. QED BY <1>1, <2>1, PickedFirst
<1> HIDE DEF s
<1>6. PlainPkt(p)
  BY <1>1, <1>2 DEF Roomy
<1>7. /\ Touches(ul, u1, p.id) /\ Touches(u1, u2, p.id)
      /\ p.id \in Ids => u1[p.id] = [st |-> "INPROCESS", rep |-> FALSE]
                         /\ u2[p.id] = [st |-> "DELIVERED", rep |-> FALSE]
  <2>1. p.id \in Ids => p.id <= sentId
    BY <1>4 DEF Ids
  <2> HIDE DEF p
  <2>2. Touches(ul, u1, p.id) /\ (p.id \in Ids => u1[p.id] = [st |-> "INPROCESS", rep |-> FALSE])
    BY <1>1, <2>1, SetStatusTouches, StatusSet
  <2> HIDE DEF u1
  <2>3. Touches(u1, u2, p.id) /\ (p.id \in Ids => u2[p.id] = [st |-> "DELIVERED", rep |-> FALSE])
    BY <1>1, <2>1, SetStatusTouches, StatusSet
  <2>4. QED BY <2>2, <2>3
<1> HIDE DEF u1, u2
<1>8. Touches(ul, ul', p.id)
  BY <1>3, <1>7 DEF Touches
<1>9. p.kind \notin AppKinds => (z => y)
  <2> HIDE DEF p
  <2> QED BY <1>3, AirReply
<1> HIDE DEF x, y, z
<1>10. CASE p.st = "NEED_TO_SEND_RIGHT_NOW"
  <2>1. p.id = 0 /\ StateOnAir(p) = "SENT" /\ x = FreePkt
    BY <1>2, <1>6, <1>10 DEF PlainPkt, StateOnAir
  <2>2. p.kind \notin AppKinds
    <3>1. PktLined(p, Meant(p, s, Idle, oldState), ul, sentId)
      BY <1>2, <1>4 DEF RingLined
    <3>2. Meant(p, s, Idle, oldState) = p.st
      BY <1>10 DEF Meant
    <3>3. QED BY <1>10, <2>1, <3>1, <3>2 DEF PktLined
  <2>3. \A c \in Slots : \/ ring'.pkt[c] = ring.pkt[c]
                         \/ ring'.pkt[c] = FreePkt /\ ring.pkt[c].st \notin Going
    BY <1>2, <1>10, <2>1 DEF x, Going
  <2>4. Roomy(ring', y, 1) /\ Carried(ring', ul)
    BY <1>1, <1>2, <2>3, FreedRoomy
  <2>5. Roomy(ring', z, 1)
    BY <1>9, <2>2, <2>4, RoomyReply
  <2>6. Carried(ring', ul')
    <3>1. \A id \in Ids : ul'[id] = ul[id]
      BY <1>8, <2>1 DEF Touches, Ids
    <3>2. QED BY <2>4, <3>1 DEF Carried
  <2>7. QED BY <1>2, <2>5, <2>6 DEF CarryStep, z
<1>11. CASE p.st \in Going /\ StateOnAir(p) = "SENT"
  <2>1. x = FreePkt
    BY <1>2, <1>11
  <2>2. Blocked(p) /\ \A c \in Slots : c # s /\ App(ring, c) => Ahead(ring, s, c)
    <3>1. Blocked(p)
      BY <1>11 DEF Going, Blocked
    <3>2. CASE p.id = 0
      BY <1>5, <1>6, <1>11, <3>1, <3>2 DEF PlainPkt, Beat
    <3>3. CASE p.id # 0
      BY <1>1, <1>2, <1>4, <3>1, <3>3, LeastAhead
    <3>4. QED BY <3>2, <3>3
  <2>3. \A c \in Slots : c # s => Turn(ring.pkt[c], ring'.pkt[c])
    BY <1>2 DEF Turn
  <2>4. Roomy(ring', y, 1 + 1)
    BY <1>1, <1>2, <2>1, <2>2, <2>3, FreePlain, DoneRoomy DEF x
  <2>5. Roomy(ring', y, 1)
    BY <2>4, RoomyLess
  <2>6. Roomy(ring', z, 1)
    <3>1. CASE p.kind \notin AppKinds
      BY <1>9, <2>5, <3>1, RoomyReply
    <3>2. CASE p.kind \in AppKinds
      <4>1. App(ring, s)
        BY <1>4, <1>11, <3>2 DEF App
      <4>2. \A d \in Slots : Beat(ring', d) => ring'.pkt[d].st = "QUEUED"
        BY <1>2, <1>5, <2>1, <4>1 DEF x, Beat, FreePkt
      <4>3. QED BY <2>5, <4>2, RoomyFresh
    <3>3. QED BY <3>1, <3>2
  <2>7. Carried(ring', ul')
    <3>1. p.id \in Ids => ul'[p.id].st \notin Open
      BY <1>3, <1>7, <1>11 DEF Open
    <3>2. QED BY <1>1, <1>2, <1>8, <2>3, <3>1, DoneCarried
  <2>8. QED BY <1>2, <2>6, <2>7 DEF CarryStep, z
<1>12. CASE StateOnAir(p) # "SENT"
  <2>1. /\ x.st = "WAIT_ACK" /\ p.st \in Going
        /\ x.id = p.id /\ x.kind = p.kind /\ x.hs = p.hs /\ x.ack = p.ack
    BY <1>2, <1>12
  <2>2. Roomy(ring', y, 1) /\ Carried(ring', ul)
    BY <1>1, <1>2, <1>5, <2>1, AirRoomy DEF x
  <2>3. Roomy(ring', z, 1)
    <3>1. CASE p.kind \notin AppKinds
      BY <1>9, <2>2, <3>1, RoomyReply
    <3>2. CASE p.kind \in AppKinds
      <4>1. App(ring, s) /\ ~Beat(ring', s)
        BY <1>4, <2>1, <3>2 DEF App, Beat, x, AppKinds
      <4>2. \A d \in Slots : Beat(ring', d) => ring'.pkt[d].st = "QUEUED"
        BY <1>2, <1>5, <4>1 DEF Beat
      <4>3. QED BY <2>2, <4>2, RoomyFresh
    <3>3. QED BY <3>1, <3>2
  <2>4. Carried(ring', ul')
    <3>1. SUFFICES ASSUME NEW id \in Ids, ul'[id].st \in Open
                   PROVE \E c \in Slots : App(ring', c) /\ ring'.pkt[c].id = id
      BY DEF Carried
    <3>2. ul[id].st \in Open
      <4>1. CASE id = p.id
        BY <1>4, <3>1, <4>1 DEF Ids
      <4>2. CASE id # p.id
        BY <1>8, <3>1, <4>2 DEF Touches
      <4>3. QED BY <4>1, <4>2
    <3>3. QED BY <2>2, <3>2 DEF Carried
  <2>5. QED BY <1>2, <2>3, <2>4 DEF CarryStep, z
<1>13. QED
  <2>1. p.st \in Going \cup {"NEED_TO_SEND_RIGHT_NOW"}
    BY <1>5 DEF Going
  <2> HIDE DEF p
  <2>2. QED BY <1>10, <1>11, <1>12, <2>1

\* What the stack queues on its own account waits for no ACK.
LEMMA AllocWaits ==
    ASSUME NEW r \in Ring, NEW p, p.st # "WAIT_ACK", NEW a, OneWaits(r, a)
    PROVE OneWaits(Alloc(r, p), a)
<1>1. CASE CanAlloc(r)
  <2> DEFINE q == Alloc(r, p)
  <2>1. q.pkt[r.head] = p /\ \A c \in Slots : c # r.head => q.pkt[c] = r.pkt[c]
    BY <1>1, AllocCells
  <2> HIDE DEF q
  <2>2. OneWaits(q, a)
    BY <2>1 DEF OneWaits
  <2>3. QED BY <2>2 DEF q
<1>2. CASE ~CanAlloc(r)
  BY <1>2 DEF Alloc
<1>3. QED BY <1>1, <1>2

LEMMA SendClearWaits ==
    ASSUME NEW r \in Ring, NEW i, NEW a, OneWaits(r, a) PROVE OneWaits(SendClear(r, i), a)
BY AllocWaits DEF SendClear, SysPkt, FreePkt

LEMMA SendSyncWaits ==
    ASSUME NEW r \in Ring, NEW i, NEW a, OneWaits(r, a) PROVE OneWaits(SendSync(r, i), a)
<1> DEFINE f == [c \in Cells |-> IF c \in SysQueued(r, "SYNC") THEN FreePkt ELSE r.pkt[c]]
           q == [r EXCEPT !.pkt = f]
<1>1. f \in [Cells -> Packet]
  BY RingPkt, FreePktType
<1>2. q \in Ring /\ q.pkt = f
  <2> HIDE DEF f
  <2> QED BY <1>1, PktsType DEF Ring
<1>3. \A c \in Slots : f[c] = r.pkt[c] \/ f[c] = FreePkt
  BY CellFacts
<1>4. SendSync(r, i) = Alloc(q, SysPkt("SYNC", "NEED_TO_SEND_RIGHT_NOW", i))
  BY DEF SendSync
<1> HIDE DEF f, q
<1>5. OneWaits(q, a)
  BY <1>2, <1>3 DEF OneWaits, FreePkt
<1>6. SysPkt("SYNC", "NEED_TO_SEND_RIGHT_NOW", i).st # "WAIT_ACK"
  BY DEF SysPkt, FreePkt
<1>7. QED BY <1>2, <1>4, <1>5, <1>6, AllocWaits

LEMMA AfterLossWaits ==
    ASSUME NEW r \in Ring, NEW policy, NEW a, OneWaits(r, a)
    PROVE OneWaits(AfterLoss(r, policy), a)
BY SendSyncWaits DEF AfterLoss

\* The packet that waits is the oldest that does.
LEMMA WaitsFirst ==
    ASSUME CarryInv, active \in Slots, ring.pkt[active].st = "WAIT_ACK"
    PROVE /\ App(ring, active) \/ Beat(ring, active)
          /\ \A c \in Slots : c # active /\ App(ring, c) => Ahead(ring, active, c)
<1> DEFINE p == ring.pkt[active]
<1>1. /\ TypeOK /\ ring \in Ring /\ RingLined(ring, active, oldState, ul, sentId)
      /\ PlainPkt(p) /\ BeatFirst(ring)
  BY DEF CarryInv, LinedInv, TypeOK, Roomy
<1>2. CASE p.id = 0
  <2>1. Beat(ring, active)
    BY <1>1, <1>2 DEF PlainPkt, Beat, Going
  <2>2. QED BY <1>1, <2>1 DEF BeatFirst
<1>3. CASE p.id # 0
  <2>1. ASSUME NEW c \in Slots, ring.pkt[c].id # 0, ring.pkt[c].st \in Pending
        PROVE p.id <= ring.pkt[c].id
    <3>1. /\ Meant(ring.pkt[c], c, active, oldState) = ring.pkt[c].st
          /\ Meant(p, active, active, oldState) = "WAIT_ACK"
      BY <2>1 DEF Meant, Pending
    <3>2. PairLined(ring, c, active, Meant(ring.pkt[c], c, active, oldState),
                    Meant(p, active, active, oldState))
      BY <1>1 DEF RingLined
    <3>3. QED BY <1>3, <2>1, <3>1, <3>2 DEF PairLined
  <2>2. App(ring, active)
    BY <1>3 DEF App, Going
  <2>3. QED BY <1>1, <1>3, <2>1, <2>2, LeastAhead
<1>4. QED BY <1>2, <1>3

LEMMA ReceiveTimeoutCarried ==
    ASSUME Undisturbed, CarryInv, ReceiveTimeout PROVE CarryStep
<1> DEFINE p  == ring.pkt[active]
           p1 == [p EXCEPT !.retry = p.retry + 1]
           R  == [ring EXCEPT !.pkt[active].retry = @ + 1]
           y  == station.reply.type = "ACK"
<1>0. UNCHANGED <<active, sentId, station>>
  BY DEF ReceiveTimeout
<1>1. /\ TypeOK /\ active \in Cells /\ ring \in Ring /\ sentId \in 0 .. MaxMsgs
      /\ RingLined(ring, active, oldState, ul, sentId)
      /\ OneWaits(ring, active) /\ Roomy(ring, y, 1) /\ Carried(ring, ul)
      /\ MaxMsgs < IdMod /\ MaxMsgs <= StatSize /\ "requeue" \notin LossPolicies
  BY DEF CarryInv, LinedInv, TypeOK, Undisturbed, Singles
<1>2. p \in Packet /\ p.retry \in Nat /\ p.retry + 1 \in Nat
  BY <1>1, RingPkt DEF Packet
<1> HIDE DEF y
<1>3. CASE p.st # "WAIT_ACK"
  BY <1>0, <1>3, CarryQuiet DEF ReceiveTimeout
<1>4. ASSUME p.st = "WAIT_ACK" PROVE active \in Slots
  BY <1>1, <1>4, CellFacts DEF Roomy
<1>5. ASSUME p.st = "WAIT_ACK", TimeoutRetry PROVE CarryStep
  <2> DEFINE p2 == [p1 EXCEPT !.st = "QUEUED_AGAIN"]
  <2>0. ul' = ul
    BY <1>5 DEF TimeoutRetry
  <2>1. ring' = SetPkt(ring, active, p2)
    BY <1>1, <1>2, <1>5 DEF TimeoutRetry, SetPkt, Ring, Packet
  <2>2. /\ p2.id = p.id /\ p2.st = "QUEUED_AGAIN" /\ p2.kind = p.kind
        /\ p2.hs = p.hs /\ p2.ack = p.ack
    BY <1>2 DEF Packet
  <2>3. /\ ring'.head = ring.head
        /\ \A c \in Cells : ring'.pkt[c] = IF c = active THEN p2 ELSE ring.pkt[c]
    <3> HIDE DEF p2
    <3> QED BY <1>1, <2>1 DEF SetPkt, Ring
  <2> HIDE DEF p2
  <2>4. Turned(ring, ring')
    BY <1>4, <1>5, <2>2, <2>3, CellFacts DEF Turned, Turn
  <2>5. Roomy(ring', y, 1) /\ Carried(ring', ul')
    BY <1>1, <2>0, <2>4, TurnedRoomy, TurnedCarried
  <2>6. OneWaits(ring', active')
    BY <1>0, <1>1, <2>2, <2>3, CellFacts DEF OneWaits
  <2>7. QED BY <1>0, <2>5, <2>6 DEF CarryStep, y
<1>6. ASSUME p.st = "WAIT_ACK", NEW policy \in LossPolicies, TimeoutLost(policy)
      PROVE CarryStep
  <2> DEFINE r1 == CloseActive(R, active)
  <2>0. active \in Slots
    BY <1>4, <1>6
  <2>1. /\ ul' = SetStatus(ul, sentId, p.id, "LOST")
        /\ ring' = AfterLoss(r1, policy)
    BY <1>1, <1>6 DEF TimeoutLost
  <2>2. R = SetPkt(ring, active, p1) /\ R \in Ring
    <3>1. p1 \in Packet
      BY <1>2, PktRetryType
    <3>2. R = SetPkt(ring, active, p1)
      BY <1>1 DEF SetPkt, Ring
    <3> HIDE DEF R, p1
    <3>3. QED BY <1>1, <3>1, <3>2, SetPktType
  <2>3. /\ p1.id = p.id /\ p1.kind = p.kind /\ p1.hs = p.hs /\ p1.ack = p.ack
        /\ p1.st = p.st /\ p1 \in Packet
    <3>1. p1 \in Packet
      BY <1>2, PktRetryType
    <3>2. QED BY <1>2, <3>1 DEF Packet
  <2>4. R.head = ring.head /\ \A c \in Cells : R.pkt[c] = IF c = active THEN p1 ELSE ring.pkt[c]
    <3> HIDE DEF p1
    <3> QED BY <1>1, <2>2 DEF SetPkt, Ring
  <2> HIDE DEF R
  <2>5. /\ r1 \in Ring /\ r1.head = ring.head
        /\ \A c \in Cells : r1.pkt[c] = IF c = active THEN [p1 EXCEPT !.st = "LOST"]
                                        ELSE ring.pkt[c]
    <3>1. r1 \in Ring
      BY <1>1, <2>2, CloseActiveType
    <3>2. /\ r1.head = R.head
          /\ \A c \in Cells : r1.pkt[c] =
                IF c = active \/ (c \in Slots /\ R.pkt[c].st = "SENT_NOACKED")
                THEN [R.pkt[c] EXCEPT !.st = "LOST"] ELSE R.pkt[c]
      BY <2>2, CloseActiveShape
    <3>3. \A c \in Slots : c # active => R.pkt[c].st # "SENT_NOACKED"
      BY <1>1, <2>4, CellFacts DEF Roomy, PlainPkt
    <3> HIDE DEF r1, p1
    <3>4. QED BY <2>4, <3>1, <3>2, <3>3
  <2> HIDE DEF r1
  <2>6. LET q == [p1 EXCEPT !.st = "LOST"]
        IN  q.id = p.id /\ q.kind = p.kind /\ q.st = "LOST"
    BY <2>3 DEF Packet
  <2> DEFINE q == [p1 EXCEPT !.st = "LOST"]
  <2>7. q.id = p.id /\ q.kind = p.kind /\ q.st = "LOST"
    BY <2>6
  <2> HIDE DEF q, p1
  <2>8. PlainPkt(q) /\ ~Blocked(q)
    <3>1. PlainPkt(p)
      BY <1>1, <2>0 DEF Roomy
    <3>2. QED BY <2>7, <3>1 DEF PlainPkt, Blocked, Going
  <2>9. \A c \in Slots : c # active => Turn(ring.pkt[c], r1.pkt[c])
    BY <2>5, CellFacts DEF Turn
  <2>10. r1.pkt[active] = q /\ r1.pkt[Idle] = ring.pkt[Idle]
    BY <2>0, <2>5, CellFacts DEF q
  <2>11. Roomy(r1, y, 1 + 1)
    <3>1. Blocked(p) /\ \A c \in Slots : c # active /\ App(ring, c) => Ahead(ring, active, c)
      BY <1>6, <2>0, WaitsFirst DEF Blocked
    <3>2. QED BY <1>1, <2>0, <2>5, <2>8, <2>9, <2>10, <3>1, DoneRoomy
  <2>12. Carried(r1, ul')
    <3> DEFINE x == p.id
    <3>1. x \in Ids => x <= sentId
      <4>1. x # 0 => x <= sentId
        BY <1>1, <1>6, WaitsOpen
      <4>2. QED BY <4>1 DEF Ids
    <3> HIDE DEF x
    <3>2. /\ Touches(ul, SetStatus(ul, sentId, x, "LOST"), x)
          /\ x \in Ids => SetStatus(ul, sentId, x, "LOST")[x] = [st |-> "LOST", rep |-> FALSE]
      BY <1>1, <3>1, SetStatusTouches, StatusSet
    <3>3. Touches(ul, ul', x) /\ (x \in Ids => ul'[x].st \notin Open)
      BY <2>1, <3>2 DEF x, Open
    <3>4. QED BY <1>1, <2>0, <2>9, <3>3, DoneCarried DEF x
  <2>13. Roomy(ring', y, 1) /\ Carried(ring', ul')
    BY <2>1, <2>5, <2>11, <2>12, AfterLossRoomy
  <2>14. OneWaits(ring', active')
    <3>1. OneWaits(r1, active)
      BY <1>1, <2>5, CellFacts DEF OneWaits
    <3>2. QED BY <1>0, <2>1, <2>5, <3>1, AfterLossWaits
  <2>15. QED BY <1>0, <2>13, <2>14 DEF CarryStep, y
<1>7. QED BY <1>3, <1>5, <1>6 DEF ReceiveTimeout

\* A packet of a message that waits for its ACK is not at head.
LEMMA AppBehindHead ==
    ASSUME NEW r \in Ring, NEW y, Roomy(r, y, 1), NEW c \in Slots, App(r, c)
    PROVE c # r.head
<1>1. Cardinality(Spare(r, c)) >= 1 + Need(r, y, c)
  BY DEF Roomy, HasRoom
<1>2. Need(r, y, c) \in Nat /\ Cardinality(Spare(r, c)) \in Nat
  BY NeedLess, SpareFinite
<1>3. Cardinality(Spare(r, c)) # 0
  BY <1>1, <1>2
<1>4. Spare(r, c) # {}
  BY <1>3, FS_EmptySet
<1>5. PICK d \in Slots : Age(r.head, d) < Age(r.head, c)
  BY <1>4 DEF Spare, Ahead
<1>6. r.head \in Slots
  BY DEF Ring
<1>7. Age(r.head, d) \in Nat /\ Age(r.head, r.head) = 0
  BY <1>6 DEF Age, Slots
<1>8. QED BY <1>5, <1>7

\* The ACK of the packet that waits.
LEMMA TakeAckCarried ==
    ASSUME Undisturbed, CarryInv, active \in Slots, ring.pkt[active].st = "WAIT_ACK",
           station.reply.type = "ACK", NEW policy \in LossPolicies
    PROVE LET m == Resend(ring, active, station.reply.has, policy)
          IN  /\ Roomy(m.ring, FALSE, 1) /\ Carried(m.ring, m.ul)
              /\ OneWaits(m.ring, active) /\ m.ring \in Ring
<1> DEFINE p   == ring.pkt[active]
           x   == p.id
           has == station.reply.has
           mk  == Marked(ring, active, has)
           m   == Resend(ring, active, has, policy)
           e   == [p EXCEPT !.st = "DELIVERED"]
<1>1. /\ TypeOK /\ active \in Cells /\ ring \in Ring /\ sentId \in 0 .. MaxMsgs
      /\ RingLined(ring, active, oldState, ul, sentId)
      /\ OneWaits(ring, active) /\ Roomy(ring, TRUE, 1) /\ Carried(ring, ul)
      /\ MaxMsgs < IdMod /\ MaxMsgs <= StatSize
  BY DEF CarryInv, LinedInv, TypeOK, Undisturbed, Singles
<1>2. p \in Packet /\ PlainPkt(p) /\ active # Idle
  BY <1>1, RingPkt, CellFacts DEF Roomy
<1>3. /\ mk \in Ring /\ mk.head = ring.head
      /\ \A c \in Cells : mk.pkt[c] = IF c = active /\ x # 0
                                      THEN [ring.pkt[c] EXCEPT !.st = "DELIVERED"]
                                      ELSE ring.pkt[c]
      /\ m.ring = mk \/ m.ring = SendClear(mk, mk.pkt[active].iter)
      /\ m.ul = SetStatus(ul, sentId, m.ring.pkt[active].id, "DELIVERED")
  <2> HIDE DEF e, has
  <2>1. ring.pkt[active].st = "WAIT_ACK"
    OBVIOUS
  <2>2. QED BY ONLY <1>1, <2>1, ResendOfOne DEF p, x, mk, m
<1>4. e.id = x /\ e.kind = p.kind /\ e.st = "DELIVERED"
  BY <1>2 DEF Packet
<1>5. mk.pkt[active] = IF x # 0 THEN e ELSE p
  BY <1>1, <1>3
<1>6. /\ App(ring, active) \/ Beat(ring, active)
      /\ \A c \in Slots : c # active /\ App(ring, c) => Ahead(ring, active, c)
  BY WaitsFirst
<1>7. m.ring \in Ring
  <2>1. mk.pkt[active].iter \in Iters
    BY <1>1, <1>3, RingPkt DEF Packet
  <2>2. SendClear(mk, mk.pkt[active].iter) \in Ring
    BY <1>3, <2>1, SendClearType
  <2>3. QED BY <1>3, <2>2
<1> HIDE DEF mk, m, e
<1>8. Roomy(mk, FALSE, 1 + 1)
  <2>1. CASE x # 0
    <3>1. PlainPkt(e) /\ ~Blocked(e) /\ Blocked(p)
      BY <1>2, <1>4, <2>1 DEF PlainPkt, Blocked, Going
    <3>2. \A c \in Slots : c # active => Turn(ring.pkt[c], mk.pkt[c])
      BY <1>3, CellFacts DEF Turn
    <3>3. mk.pkt[Idle].st = ring.pkt[Idle].st
      BY <1>2, <1>3, CellFacts
    <3> HIDE DEF p
    <3>4. Roomy(mk, TRUE, 1 + 1)
      BY <1>1, <1>3, <1>5, <1>6, <2>1, <3>1, <3>2, <3>3, DoneRoomy DEF p
    <3>5. 1 + 1 \in Nat
      OBVIOUS
    <3>6. QED BY <3>4, <3>5, RoomyReply
  <2>2. CASE x = 0
    <3>1. \A c \in Cells : mk.pkt[c] = ring.pkt[c]
      BY <1>3, <2>2
    <3>2. mk.pkt = ring.pkt
      BY <1>1, <1>3, <3>1 DEF Ring
    <3>3. mk = ring
      BY <1>1, <1>3, <3>2 DEF Ring
    <3>4. Beat(ring, active)
      BY <1>6, <2>2 DEF App
    <3>5. QED BY <1>1, <3>3, <3>4, RoomySpent
  <2>3. QED BY <2>1, <2>2
<1>9. m.ring.pkt[active].id = x
  <2>1. mk.pkt[active].id = x
    BY <1>4, <1>5
  <2>2. CASE m.ring = mk
    BY <2>1, <2>2
  <2>3. CASE m.ring = SendClear(mk, mk.pkt[active].iter) /\ CanAlloc(mk)
    <3> DEFINE t == SysPkt("CLEAR_EXT", "NEED_TO_SEND_RIGHT_NOW", mk.pkt[active].iter)
    <3>1. t.id = 0
      BY DEF SysPkt, FreePkt
    <3> HIDE DEF t
    <3>2. m.ring = Alloc(mk, t)
      BY <2>3 DEF SendClear, t
    <3>3. /\ m.ring.pkt[mk.head] = t
          /\ \A c \in Slots : c # mk.head => m.ring.pkt[c] = mk.pkt[c]
      BY <1>3, <2>3, <3>2, AllocCells
    <3>4. x # 0 => active # mk.head
      BY <1>1, <1>3, <1>6, <1>2, AppBehindHead DEF Beat, PlainPkt, AppKinds
    <3>5. QED BY <2>1, <3>1, <3>3, <3>4
  <2>4. CASE m.ring = SendClear(mk, mk.pkt[active].iter) /\ ~CanAlloc(mk)
    BY <2>1, <2>4 DEF SendClear, Alloc
  <2>5. QED BY <1>3, <2>2, <2>3, <2>4
<1>10. Carried(mk, m.ul)
  <2>1. x \in Ids => x <= sentId
    <3>1. x # 0 => x <= sentId
      BY <1>1, WaitsOpen
    <3>2. QED BY <3>1 DEF Ids
  <2> HIDE DEF x
  <2>2. /\ Touches(ul, SetStatus(ul, sentId, x, "DELIVERED"), x)
        /\ x \in Ids => SetStatus(ul, sentId, x, "DELIVERED")[x]
                          = [st |-> "DELIVERED", rep |-> FALSE]
    BY <1>1, <2>1, SetStatusTouches, StatusSet
  <2>3. Touches(ul, m.ul, x) /\ (x \in Ids => m.ul[x].st \notin Open)
    BY <1>3, <1>9, <2>2 DEF Open
  <2>4. \A c \in Slots : c # active => Turn(ring.pkt[c], mk.pkt[c])
    BY <1>3, CellFacts DEF Turn
  <2>5. QED BY <1>1, <2>3, <2>4, DoneCarried DEF x
<1>11. OneWaits(mk, active)
  BY <1>1, <1>3, CellFacts DEF OneWaits
<1>12. CASE m.ring = mk
  <2>1. Roomy(mk, FALSE, 1)
    BY <1>8, RoomyLess
  <2>2. QED BY <1>7, <1>10, <1>11, <1>12, <2>1 DEF m
<1>13. CASE m.ring = SendClear(mk, mk.pkt[active].iter)
  <2>1. Roomy(m.ring, FALSE, 1) /\ Carried(m.ring, m.ul)
    BY <1>3, <1>8, <1>10, <1>13, SendClearRoomy
  <2>2. OneWaits(m.ring, active)
    BY <1>3, <1>11, <1>13, SendClearWaits
  <2>3. QED BY <1>7, <2>1, <2>2 DEF m
<1>14. QED BY <1>3, <1>12, <1>13

LEMMA RxAckCarried == ASSUME Undisturbed, CarryInv, RxAck PROVE CarryStep
<1> DEFINE p == ring.pkt[active]
           y == station.reply.type = "ACK"
<1>1. /\ TypeOK /\ active \in Cells /\ ring \in Ring /\ sentId \in 0 .. MaxMsgs
      /\ RingLined(ring, active, oldState, ul, sentId)
      /\ OneWaits(ring, active) /\ Roomy(ring, y, 1) /\ Carried(ring, ul)
  BY DEF CarryInv, LinedInv, TypeOK
<1>2. active' = active /\ ~(station'.reply.type = "ACK")
  BY DEF RxAck, NoReply
<1>3. Restored(ring) = ring
  <2>1. p.st # "WAIT_FOR_EXTRA_PACKETS"
    <3>1. CASE active = Idle
      BY <1>1, <3>1 DEF Roomy
    <3>2. CASE active # Idle
      BY <1>1, <3>2, CellFacts DEF Roomy, PlainPkt
    <3>3. QED BY <3>1, <3>2
  <2>2. QED BY <2>1 DEF Restored
<1>4. Roomy(ring, FALSE, 1)
  BY <1>1, RoomyReply
<1> HIDE DEF y
<1>5. SUFFICES \E q, v : /\ ring' = LookAtQueue(q, active) /\ ul' = v
                         /\ Roomy(q, FALSE, 1) /\ Carried(q, v)
                         /\ OneWaits(q, active) /\ q \in Ring
  <2>1. PICK q, v : /\ ring' = LookAtQueue(q, active) /\ ul' = v
                    /\ Roomy(q, FALSE, 1) /\ Carried(q, v)
                    /\ OneWaits(q, active) /\ q \in Ring
    BY <1>5
  <2>2. ring' = q
    BY <2>1, RestSame
  <2>3. (station'.reply.type = "ACK") = FALSE
    BY <1>2
  <2>4. QED BY <1>2, <2>1, <2>2, <2>3 DEF CarryStep
<1>6. CASE ~AckAccepted(ring, station.reply)
  BY <1>1, <1>3, <1>4, <1>6 DEF RxAck
<1>7. CASE AckAccepted(ring, station.reply)
  <2>1. PICK policy \in LossPolicies :
          /\ ring' = LookAtQueue(TakeAck(ring, station.reply, policy).ring, active)
          /\ ul' = TakeAck(ring, station.reply, policy).ul
    BY <1>3, <1>7 DEF RxAck
  <2>2. p.st = "WAIT_ACK"
    BY <1>7 DEF AckAccepted
  <2>3. active \in Slots
    BY <1>1, <2>2, CellFacts DEF Roomy
  <2> DEFINE t == TakeAck(ring, station.reply, policy)
  <2>4. Roomy(t.ring, FALSE, 1) /\ Carried(t.ring, t.ul) /\ OneWaits(t.ring, active)
        /\ t.ring \in Ring
    <3>1. CASE station.reply.type = "ACK" /\ p.mack # 0
      <4> DEFINE m == Resend(ring, active, station.reply.has, policy)
      <4>1. t = m
        BY <3>1 DEF TakeAck
      <4>2. /\ Roomy(m.ring, FALSE, 1) /\ Carried(m.ring, m.ul)
            /\ OneWaits(m.ring, active) /\ m.ring \in Ring
        BY <2>2, <2>3, <3>1, TakeAckCarried
      <4> HIDE DEF t, m
      <4>3. QED BY <4>1, <4>2
    <3>2. CASE p.mack = 0
      <4> HIDE DEF t
      <4>1. PICK d \in Packet, q \in Ring :
              /\ AsDelivered(d, p)
              /\ q = SetPkt(ring, active, d) /\ q.head = ring.head
              /\ \A c \in Cells : q.pkt[c] = IF c = active THEN d ELSE ring.pkt[c]
              /\ t.ring = q \/ t.ring = SendClear(q, d.iter)
              /\ \/ t.ul = ul
                 \/ t.ul = SetStatus(ul, sentId, t.ring.pkt[active].id, "DELIVERED")
        BY <1>1, <3>2, TakeAckEmpty DEF t
      <4>2. p \in Packet /\ PlainPkt(p) /\ active # Idle
        BY <1>1, <2>3, RingPkt, CellFacts DEF Roomy
      <4>3. d.id = p.id /\ d.kind = p.kind /\ d.st = "DELIVERED"
        BY <4>1 DEF AsDelivered
      <4>4. p.id = 0
        BY <1>1, <2>2, <3>2, WaitsOpen
      <4>5. PlainPkt(d) /\ ~Blocked(d) /\ Blocked(p)
        BY <2>2, <4>2, <4>3 DEF PlainPkt, Blocked, Going
      <4>6. \A c \in Slots : c # active => Turn(ring.pkt[c], q.pkt[c])
        BY <4>1, CellFacts DEF Turn
      <4>7. q.pkt[active] = d /\ q.pkt[Idle].st = ring.pkt[Idle].st
        BY <1>1, <4>1, <4>2, CellFacts
      <4>8. \A c \in Slots : c # active /\ App(ring, c) => Ahead(ring, active, c)
        BY <2>2, <2>3, WaitsFirst
      <4>9. Roomy(q, FALSE, 1 + 1)
        BY <1>1, <1>4, <2>3, <4>1, <4>5, <4>6, <4>7, <4>8, DoneRoomy
      <4>10. OneWaits(q, active)
        BY <1>1, <4>1, CellFacts DEF OneWaits
      <4>11. t.ring.pkt[active].id = 0
        <5>1. StillRing(q, t.ring)
          BY <4>1, SendClearStill, StillRefl
        <5>2. Still(q.pkt[active], t.ring.pkt[active])
          BY <2>3, <5>1 DEF StillRing
        <5>3. QED BY <4>3, <4>4, <4>7, <5>2 DEF Still, Own, Alike
      <4> HIDE DEF p
      <4>12. Touches(ul, t.ul, 0)
        <5>1. Touches(ul, SetStatus(ul, sentId, 0, "DELIVERED"), 0)
          BY <1>1, SetStatusTouches DEF Undisturbed, Singles
        <5>2. t.ul = ul \/ t.ul = SetStatus(ul, sentId, 0, "DELIVERED")
          BY <4>1, <4>11
        <5>3. QED BY <5>1, <5>2 DEF Touches
      <4>13. Carried(q, t.ul)
        <5>1. ring.pkt[active].id = 0 /\ 0 \notin Ids
          BY <4>4 DEF p, Ids
        <5>2. QED BY <1>1, <2>3, <4>6, <4>12, <5>1, DoneCarried
      <4>14. CASE t.ring = q
        <5>1. Roomy(q, FALSE, 1)
          BY <4>9, RoomyLess
        <5>2. QED BY <4>10, <4>13, <4>14, <5>1
      <4>15. CASE t.ring = SendClear(q, d.iter)
        <5>1. Roomy(t.ring, FALSE, 1) /\ Carried(t.ring, t.ul)
          BY <4>9, <4>13, <4>15, SendClearRoomy
        <5>2. OneWaits(t.ring, active)
          BY <4>10, <4>15, SendClearWaits
        <5>3. d.iter \in Iters
          BY <4>1 DEF Packet
        <5>4. t.ring \in Ring
          BY <1>1, <4>15, <5>3, SendClearType
        <5>5. QED BY <5>1, <5>2, <5>4
      <4>16. QED BY <4>1, <4>14, <4>15
    <3>3. CASE station.reply.type # "ACK" /\ p.mack # 0
      <4>1. t = [ring |-> ring, ul |-> ul]
        BY <3>3 DEF TakeAck
      <4> HIDE DEF t
      <4>2. QED BY <1>1, <1>4, <4>1
    <3>4. QED BY <3>1, <3>2, <3>3
  <2> HIDE DEF t
  <2>5. ring' = LookAtQueue(t.ring, active) /\ ul' = t.ul
    BY <2>1 DEF t
  <2>6. QED BY <2>4, <2>5
<1>8. QED BY <1>6, <1>7

LEMMA HeartBeatCarried == ASSUME CarryInv, HeartBeat PROVE CarryStep
<1> DEFINE t == SysPkt("HEARTBEAT", "QUEUED", ulIter)
           p == [t EXCEPT !.hs = Handshake /\ AckMode(mode),
                          !.ack = Handshake /\ AckMode(mode)]
           y == station.reply.type = "ACK"
           goes == SysQueued(ring, "HEARTBEAT") = {} /\ CanAlloc(ring)
<1>1. /\ UNCHANGED <<active, station, ul>>
      /\ ring' = IF goes THEN Alloc(ring, p) ELSE ring
  BY DEF HeartBeat
<1>2. ring \in Ring /\ Roomy(ring, y, 1) /\ Carried(ring, ul) /\ OneWaits(ring, active)
  BY DEF CarryInv, LinedInv, TypeOK
<1>3. p.st = "QUEUED" /\ p.kind = "HEARTBEAT" /\ p.id = 0 /\ (p.hs => p.ack)
  BY DEF SysPkt, FreePkt
<1> HIDE DEF p, y
<1>4. PlainPkt(p)
  BY <1>3 DEF PlainPkt
<1>5. CASE goes
  <2>1. \A c \in Slots : ~Beat(ring, c)
    BY <1>5 DEF SysQueued, Beat, Going, Blocked
  <2>2. Roomy(Alloc(ring, p), y, 1)
    BY <1>2, <1>3, <1>4, <2>1, AllocRoomy
  <2>3. Carried(Alloc(ring, p), ul)
    BY <1>2, AllocCarried
  <2>4. OneWaits(Alloc(ring, p), active)
    BY <1>2, <1>3, AllocWaits
  <2>5. ring' = Alloc(ring, p)
    BY <1>1, <1>5
  <2>6. QED BY <1>1, <2>2, <2>3, <2>4, <2>5 DEF CarryStep, y
<1>6. CASE ~goes
  <2>1. ring' = ring
    BY <1>1, <1>6
  <2>2. QED BY <1>1, <2>1, CarryQuiet
<1>7. QED BY <1>5, <1>6

LEMMA CarryNext == ASSUME Undisturbed, CarryInv, [Next]_vars PROVE CarryInv'
<1>1. /\ ring \in Ring /\ OneWaits(ring, active) /\ mode # "OFF" /\ LinedInv'
      /\ mode = Mode /\ dlLeft = 0 /\ napsLeft = 0 /\ TypeOK
  <2>1. LinedInv'
    BY LinedNext DEF CarryInv, Undisturbed
  <2>2. QED BY <2>1, ModeAssumption DEF CarryInv, LinedInv, TypeOK
<1>2. /\ Sweep(ring, active) = ring
      /\ Restored(ring) = ring
  <2>1. ring.pkt[active].st # "WAIT_FOR_EXTRA_PACKETS"
    <3>1. CASE active = Idle
      BY <3>1 DEF CarryInv, Roomy
    <3>2. CASE active # Idle
      BY <1>1, <3>2, CellFacts DEF CarryInv, Roomy, PlainPkt, TypeOK
    <3>3. QED BY <3>1, <3>2
  <2>2. QED BY <1>1, <2>1, RestSame DEF Restored
<1>3. ~GoToSleep /\ ~WakeUp /\ ~ProcessOff
  BY <1>1 DEF GoToSleep, WakeUp, ProcessOff
<1>4. ASSUME NEW answer \in BOOLEAN, NEW ack \in BOOLEAN, RxSystem(answer, ack)
      PROVE FALSE
  <2>1. dlLeft > 0
    BY <1>4 DEF RxSystem
  <2>2. QED BY <1>1, <2>1
<1>5. ASSUME NEW ack \in BOOLEAN, NEW multi \in BOOLEAN, NEW repeated \in BOOLEAN,
             RxMessage(ack, multi, repeated)
      PROVE FALSE
  <2>1. dlLeft > 0
    BY <1>5 DEF RxMessage
  <2>2. QED BY <1>1, <2>1
<1>6. ASSUME NEW len \in Lengths, NEW flags \in FlagSets, Send5(len, flags)
      PROVE CarryStep /\ UNCHANGED <<mode, dlLeft, napsLeft>>
  BY <1>6, Send5Carried DEF Send5
<1>7. ASSUME SendNext PROVE CarryStep /\ UNCHANGED <<mode, dlLeft, napsLeft>>
  BY <1>7, SendNextCarried DEF SendNext
<1>8. ASSUME ReceiveTimeout PROVE CarryStep /\ UNCHANGED <<mode, dlLeft, napsLeft>>
  BY <1>8, ReceiveTimeoutCarried DEF ReceiveTimeout
<1>9. ASSUME RxAck PROVE CarryStep /\ UNCHANGED <<mode, dlLeft, napsLeft>>
  BY <1>9, RxAckCarried DEF RxAck
<1>10. ASSUME HeartBeat PROVE CarryStep /\ UNCHANGED <<mode, dlLeft, napsLeft>>
  BY <1>10, HeartBeatCarried DEF HeartBeat
<1>11. ASSUME ReportStatus PROVE CarryStep /\ UNCHANGED <<mode, dlLeft, napsLeft>>
  <2>1. PICK id \in Ids : ul' = [ul EXCEPT ![id].rep = TRUE]
    BY <1>11 DEF ReportStatus
  <2>2. \A i \in Ids : ul'[i].st = ul[i].st
    BY <1>1, <2>1 DEF TypeOK
  <2>3. UNCHANGED <<ring, active, station, mode, dlLeft, napsLeft>>
    BY <1>11 DEF ReportStatus
  <2>4. QED BY <2>2, <2>3, CarryQuiet
<1>12. ASSUME ArmTimer \/ TxFinished \/ WaitExtraTimeout \/ WaitClearTimeout
              \/ UNCHANGED vars
       PROVE CarryStep /\ UNCHANGED <<mode, dlLeft, napsLeft>>
  <2>1. UNCHANGED <<active, station, ul, mode, dlLeft, napsLeft>>
    BY <1>12 DEF ArmTimer, TxFinished, WaitExtraTimeout, WaitClearTimeout, vars, devVars
  <2>2. ring' = ring
    BY <1>2, <1>12 DEF ArmTimer, TxFinished, WaitExtraTimeout, WaitClearTimeout,
                       vars, devVars
  <2>3. QED BY <2>1, <2>2, CarryQuiet
<1>13. CarryStep /\ UNCHANGED <<mode, dlLeft, napsLeft>>
  BY <1>3, <1>4, <1>5, <1>6, <1>7, <1>8, <1>9, <1>10, <1>11, <1>12 DEF Next
<1>14. QED BY <1>1, <1>13 DEF CarryInv, CarryStep

LEMMA CarryInit == ASSUME Undisturbed, Init PROVE CarryInv
<1> DEFINE y == station.reply.type = "ACK"
<1>1. LinedInv
  BY LinedInit
<1>2. EmptyRing \in Ring /\ \A c \in Cells : EmptyRing.pkt[c] = FreePkt
  BY EmptyRingType DEF EmptyRing
<1>3. ASSUME NEW m \in Nat PROVE Roomy(EmptyRing, y, m)
  <2>1. \A c \in Slots : ~App(EmptyRing, c) /\ ~Beat(EmptyRing, c)
    BY <1>2, CellFacts DEF App, Beat, FreePkt
  <2>2. EmptyRing.pkt[Idle].st = "FREE" /\ \A c \in Slots : PlainPkt(EmptyRing.pkt[c])
    BY <1>2, CellFacts, FreePlain DEF FreePkt
  <2>3. QED BY <2>1, <2>2 DEF Roomy, BeatFirst, OneBeat, HasRoom
<1>4. OneWaits(EmptyRing, Idle)
  BY <1>2, CellFacts DEF OneWaits, FreePkt
<1> HIDE DEF y
<1>5. Roomy(ring, y, 1) /\ OneWaits(ring, Idle)
  <2> DEFINE r == SendSync(EmptyRing, 0)
             q == SendClear(r, 0)
  <2>1. r \in Ring
    BY SendSyncType, EmptyRingType DEF Iters
  <2>2. Roomy(r, y, 1 + 1) /\ OneWaits(r, Idle)
    <3>1. Roomy(EmptyRing, y, 2 + 1)
      BY <1>3
    <3>2. Roomy(r, y, 2)
      BY <1>2, <3>1, SendSyncRoomy
    <3>3. QED BY <1>2, <1>4, <3>2, SendSyncWaits
  <2> HIDE DEF r
  <2>3. Roomy(q, y, 1) /\ OneWaits(q, Idle)
    BY <2>1, <2>2, SendClearRoomy, SendClearWaits
  <2>4. Roomy(EmptyRing, y, 1)
    BY <1>3
  <2>5. QED BY <1>4, <2>3, <2>4 DEF Init, r
<1>6. Carried(ring, ul)
  BY DEF Init, Carried, Open
<1>7. active = Idle /\ mode = Mode /\ dlLeft = 0 /\ napsLeft = 0
  BY DEF Init, Undisturbed
<1>8. QED BY <1>1, <1>5, <1>6, <1>7 DEF CarryInv, y

LEMMA CarryGivesNoOrphan == ASSUME Undisturbed, CarryInv PROVE NoOrphan
<1>1. SUFFICES ASSUME NEW id \in Ids, Undecided(id)
      PROVE \E s \in Slots : /\ ring.pkt[s].kind \in AppKinds
                             /\ ring.pkt[s].id = id % IdMod
                             /\ ring.pkt[s].st \in {"QUEUED", "QUEUED_AGAIN",
                                    "WAIT_ACK", "WAIT_FOR_EXTRA_PACKETS"}
  BY DEF NoOrphan
<1>2. id % IdMod = id
  BY SmallId DEF Undisturbed, Singles
<1>3. PICK s \in Slots : App(ring, s) /\ ring.pkt[s].id = id
  BY <1>1 DEF CarryInv, Carried, Undecided, Open
<1>4. PlainPkt(ring.pkt[s])
  BY DEF CarryInv, Roomy
<1>5. QED BY <1>2, <1>3, <1>4 DEF App, PlainPkt, Going

\* With an ACK for every message, and no downlink messages or naps in between,
\* every message without a verdict has a packet that is queued or waits: no
\* CLEAR or SYNC ever takes the slot of a packet before its verdict is read
\* from it, and no slot of a packet that waits is allocated again.
THEOREM NoneForgotten == ASSUME Undisturbed PROVE Spec => []NoOrphan
<1>1. Init => CarryInv
  BY CarryInit
<1>2. CarryInv /\ [Next]_vars => CarryInv'
  BY CarryNext
<1>3. CarryInv => NoOrphan
  BY CarryGivesNoOrphan
<1>4. QED BY <1>1, <1>2, <1>3, PTL DEF Spec

\* So there the order of the messages is kept without a further condition.
THEOREM OrderAlwaysKept == ASSUME Undisturbed PROVE Spec => []InOrder
<1>1. Spec => []NoOrphan
  BY NoneForgotten
<1>2. Spec /\ []NoOrphan => []InOrder
  BY OrderKept DEF Undisturbed
<1>3. QED BY <1>1, <1>2, PTL
=============================================================================
