----------------------------- MODULE NbfiRxProofs -----------------------------
(***************************************************************************)
(* For every number of ITERs, every queue and every base station: the      *)
(* downlink half of the transport layer keeps its types and the newest     *)
(* payloads for the application, and, with mack_mode 1, hands each message *)
(* over once, implements the service of DlService, completes groups with   *)
(* packets of one message only, whether they have a CRC or not, and        *)
(* confirms what it handed over.                                           *)
(***************************************************************************)
EXTENDS NbfiRx, NbfiLemmas, SequenceTheorems

USE RxAssumption

-----------------------------------------------------------------------------
(***************************************************************************)
(* Frames and rings as the base station and the parser make them.          *)
(***************************************************************************)
Cell == [st : States, f : Frame, old : BOOLEAN]

WellFormed(f) ==
    /\ f \in Frame
    /\ f.msg \in Msgs
    /\ f.kind \in {"SHORT", "DATA", Start}
    /\ f.multi => f.kind # "SHORT"
    /\ IsStart(f) => f.multi /\ f.n > 1
    /\ IsStart(f) \/ ~f.multi => f.part = 0

\* A ring whose written slots hold frames of the first m messages.
RingOK(b, m) ==
    /\ b \in [Slots -> Cell]
    /\ \A s \in Slots : b[s].st # "FREE" =>
         b[s].f.iter = s /\ WellFormed(b[s].f) /\ b[s].f.msg <= m

\* The same frames, fewer of them still to be handed over.
Shrinks(b, c) ==
    \A s \in Slots : /\ c[s].f = b[s].f
                     /\ c[s].st = "FREE" <=> b[s].st = "FREE"
                     /\ Received(c, s) => Received(b, s)

\* The only complete payload is that of the packet in slot d.
Fresh(b, d) ==
    \A s \in Complete(b) : \/ IsGroup(b, s) /\ d \in GroupFrom(s, b[s].f.n)
                           \/ ~IsGroup(b, s) /\ s = d

LEMMA AtType == ASSUME NEW i \in Int PROVE At(i) \in Slots
BY DivMod DEF At, Slots

LEMMA AtSelf == ASSUME NEW s \in Slots PROVE At(s) = s
BY DEF At, Slots

\* Two numbers less than a lap apart have different slots.
LEMMA AtApart ==
    ASSUME NEW i \in Int, NEW k \in 1 .. IterMod - 1
    PROVE At(i + k) # At(i)
<1>1. IterMod \in Nat \ {0}
  OBVIOUS
<1> QED BY <1>1, ModApart DEF At

LEMMA ShrinkRing ==
    ASSUME NEW b, NEW m, RingOK(b, m), NEW c \in [Slots -> Cell], Shrinks(b, c)
    PROVE RingOK(c, m)
BY DEF RingOK, Shrinks

LEMMA ShrinkTrans ==
    ASSUME NEW b, NEW c, NEW e, Shrinks(b, c), Shrinks(c, e)
    PROVE Shrinks(b, e)
BY DEF Shrinks

LEMMA GroupSlots ==
    ASSUME NEW s \in Slots, NEW n \in Nat
    PROVE /\ GroupFrom(s, n) \subseteq Slots
          /\ n > 0 => s \in GroupFrom(s, n)
          /\ n > 1 => At(s + 1) \in GroupFrom(s, n) /\ At(s + 1) # s
<1>1. s \in Int
  BY DEF Slots
<1>2. \A j \in 0 .. n - 1 : At(s + j) \in Slots
  BY <1>1, AtType
<1>3. At(s + 0) = s
  BY <1>1, AtSelf
<1>4. At(s + 1) # s
  <2>1. At(s + 1) # At(s)
    BY <1>1, AtApart
  <2> QED BY <2>1, AtSelf
<1> QED BY <1>2, <1>3, <1>4 DEF GroupFrom

LEMMA ShrinkComplete ==
    ASSUME NEW b, NEW m, RingOK(b, m), NEW c, Shrinks(b, c)
    PROVE /\ \A s \in Slots : IsGroup(c, s) => IsGroup(b, s)
          /\ \A s \in Slots : IsSingle(c, s) <=> IsSingle(b, s)
          /\ Complete(c) \subseteq Complete(b)
<1>1. \A s \in Slots : c[s].f = b[s].f /\ (Received(c, s) => Received(b, s))
  BY DEF Shrinks
<1>2. \A s \in Slots : b[s].f.n \in Nat
  BY DEF RingOK, Cell, Frame, Slots
<1>3. ASSUME NEW s \in Slots, IsGroup(c, s) PROVE IsGroup(b, s)
  <2>1. GroupFrom(s, b[s].f.n) \subseteq Slots
    BY <1>2, GroupSlots
  <2> QED BY <1>1, <1>3, <2>1 DEF IsGroup
<1>4. \A s \in Slots : IsSingle(c, s) <=> IsSingle(b, s)
  BY <1>1 DEF IsSingle
<1> QED BY <1>1, <1>3, <1>4 DEF Complete

-----------------------------------------------------------------------------
(***************************************************************************)
(* Clearing.                                                               *)
(***************************************************************************)
LEMMA ClearType ==
    ASSUME NEW b \in [Slots -> Cell], NEW besides, NEW oldOnly \in BOOLEAN
    PROVE Clear(b, besides, oldOnly) \in [Slots -> Cell]
<1> SUFFICES ASSUME NEW s \in Slots
             PROVE (IF b[s].st = "FREE" THEN b[s]
                    ELSE IF b[s].f.iter = besides
                    THEN [b[s] EXCEPT !.st = "RECEIVED"]
                    ELSE IF oldOnly => b[s].old THEN [b[s] EXCEPT !.st = "CLEARED"]
                    ELSE b[s]) \in Cell
  BY DEF Clear
<1>1. b[s] \in Cell
  OBVIOUS
<1>2. [b[s] EXCEPT !.st = "RECEIVED"] \in Cell /\ [b[s] EXCEPT !.st = "CLEARED"] \in Cell
  BY <1>1 DEF Cell, States
<1> QED BY <1>1, <1>2

\* Nothing besides: slots are only taken out.
LEMMA ClearShrinks ==
    ASSUME NEW b, NEW m, RingOK(b, m), NEW oldOnly \in BOOLEAN
    PROVE /\ Shrinks(b, Clear(b, None, oldOnly))
          /\ RingOK(Clear(b, None, oldOnly), m)
<1> DEFINE c == Clear(b, None, oldOnly)
<1>1. ASSUME NEW s \in Slots
      PROVE /\ c[s].f = b[s].f
            /\ c[s].st = "FREE" <=> b[s].st = "FREE"
            /\ Received(c, s) => Received(b, s)
  <2>1. b[s] \in Cell /\ (b[s].st # "FREE" => b[s].f.iter # None)
    BY DEF RingOK, None, Slots
  <2>2. c[s] = IF b[s].st # "FREE" /\ (oldOnly => b[s].old)
               THEN [b[s] EXCEPT !.st = "CLEARED"] ELSE b[s]
    BY <2>1 DEF Clear
  <2> HIDE DEF c
  <2>3. CASE b[s].st # "FREE" /\ (oldOnly => b[s].old)
    <3>1. c[s] = [b[s] EXCEPT !.st = "CLEARED"]
      BY <2>2, <2>3
    <3> QED BY <2>1, <2>3, <3>1 DEF Cell, Received
  <2>4. CASE ~(b[s].st # "FREE" /\ (oldOnly => b[s].old))
    <3>1. c[s] = b[s]
      BY <2>2, <2>4
    <3> QED BY <3>1 DEF Received
  <2> QED BY <2>3, <2>4
<1>2. Shrinks(b, c)
  BY <1>1 DEF Shrinks
<1>3. c \in [Slots -> Cell]
  BY ClearType DEF RingOK
<1> QED BY <1>2, <1>3, ShrinkRing

\* All but d: d alone is waiting afterwards.
LEMMA ClearBesides ==
    ASSUME NEW b, NEW m, RingOK(b, m), NEW d \in Slots
    PROVE /\ \A s \in Slots : /\ Clear(b, d, FALSE)[s].f = b[s].f
                              /\ Clear(b, d, FALSE)[s].st = "FREE" <=> b[s].st = "FREE"
                              /\ Received(Clear(b, d, FALSE), s) => s = d
          /\ RingOK(Clear(b, d, FALSE), m)
<1> DEFINE c == Clear(b, d, FALSE)
<1>1. ASSUME NEW s \in Slots
      PROVE /\ c[s].f = b[s].f
            /\ c[s].st = "FREE" <=> b[s].st = "FREE"
            /\ Received(c, s) => s = d
  <2>1. b[s] \in Cell /\ (b[s].st # "FREE" => b[s].f.iter = s)
    BY DEF RingOK
  <2>2. c[s] = IF b[s].st = "FREE" THEN b[s]
               ELSE IF s = d THEN [b[s] EXCEPT !.st = "RECEIVED"]
               ELSE [b[s] EXCEPT !.st = "CLEARED"]
    BY <2>1 DEF Clear
  <2> HIDE DEF c
  <2> QED BY <2>1, <2>2 DEF Cell, Received
<1>2. c \in [Slots -> Cell]
  BY ClearType DEF RingOK
<1>3. RingOK(c, m)
  BY <1>1, <1>2 DEF RingOK
<1> QED BY <1>1, <1>3

-----------------------------------------------------------------------------
(***************************************************************************)
(* One turn of NBFi_ProcessRxPackets, and all of them.                     *)
(***************************************************************************)
LEMMA CompleteOne ==
    ASSUME NEW b, NEW m, RingOK(b, m), NEW s \in Complete(b)
    PROVE /\ s \in Slots /\ Received(b, s) /\ WellFormed(b[s].f) /\ b[s].f.msg \in 1 .. m
          /\ IsGroup(b, s) =>
                /\ b[s].f.kind # "SHORT" /\ b[s].f.n \in 2 .. IterMod - 1
                /\ GroupFrom(s, b[s].f.n) \subseteq Slots
                /\ \A u \in GroupFrom(s, b[s].f.n) : Received(b, u) /\ b[u].f.multi
          /\ ~IsGroup(b, s) => IsSingle(b, s) /\ ~b[s].f.multi
<1>1. s \in Slots /\ Received(b, s) /\ (IsGroup(b, s) \/ IsSingle(b, s))
  BY DEF Complete
<1>2. WellFormed(b[s].f) /\ b[s].f.msg <= m /\ b[s] \in Cell
  BY <1>1 DEF RingOK, Received
<1>3. b[s].f.n \in Slots /\ b[s].f.msg \in 1 .. m
  BY <1>2 DEF WellFormed, Frame, Msgs
<1>4. ASSUME IsGroup(b, s)
      PROVE /\ b[s].f.kind # "SHORT" /\ b[s].f.n \in 2 .. IterMod - 1
            /\ GroupFrom(s, b[s].f.n) \subseteq Slots
            /\ \A u \in GroupFrom(s, b[s].f.n) : Received(b, u) /\ b[u].f.multi
  <2>1. b[s].f.n > 1 /\ b[s].f.kind # "SHORT"
    BY <1>2, <1>4 DEF IsGroup, WellFormed
  <2>2. b[s].f.n \in 2 .. IterMod - 1
    BY <1>3, <2>1 DEF Slots
  <2> QED BY <1>1, <1>4, <2>1, <2>2, GroupSlots DEF IsGroup
<1>5. ASSUME ~IsGroup(b, s) PROVE IsSingle(b, s) /\ ~b[s].f.multi
  <2>1. IsSingle(b, s)
    BY <1>1, <1>5
  <2>2. b[s].f.multi => IsStart(b[s].f) \/ ~IsSystem(b[s].f)
    BY <1>2 DEF WellFormed, IsStart, IsSystem
  <2> QED BY <2>1, <2>2 DEF IsSingle
<1> QED BY <1>1, <1>2, <1>3, <1>4, <1>5

LEMMA TakenType ==
    ASSUME NEW b, NEW m, RingOK(b, m), NEW s \in Complete(b)
    PROVE Taken(b, s) \in [Slots -> Cell]
<1>0. b \in [Slots -> Cell] /\ s \in Slots
  BY DEF RingOK, Complete
<1>1. \A u \in Slots : \A t \in States : [b[u] EXCEPT !.st = t] \in Cell
  BY <1>0 DEF Cell
<1>2. "PROCESSED" \in States /\ "PROCESSING" \in States /\ "CLEARED" \in States
  BY DEF States
<1>3. CASE b[s].f.kind = "SHORT"
  <2>1. Taken(b, s) =
          [b EXCEPT ![s] = [b[s] EXCEPT !.st = IF Mack < 2 THEN "PROCESSED" ELSE "PROCESSING"]]
    BY <1>3 DEF Taken
  <2> QED BY <1>0, <1>1, <1>2, <2>1
<1>4. CASE b[s].f.kind # "SHORT"
  <2> DEFINE group == IF IsGroup(b, s) THEN GroupFrom(s, b[s].f.n) ELSE {s}
             keep(u) == ~b[u].f.ack \/ (Mack < 2 /\ ~IsGroup(b, s))
             val(u) == IF u \in group
                       THEN [b[u] EXCEPT !.st = IF keep(u) THEN "PROCESSED" ELSE "CLEARED"]
                       ELSE b[u]
  <2>1. Taken(b, s) = [u \in Slots |-> val(u)]
    BY <1>4 DEF Taken
  <2>2. \A u \in Slots : val(u) \in Cell
    BY <1>0, <1>1, <1>2
  <2> QED BY <2>1, <2>2
<1> QED BY <1>3, <1>4

\* What taking a payload does to the ring, slot by slot.
LEMMA TakenSlots ==
    ASSUME NEW b, NEW m, RingOK(b, m), NEW s \in Complete(b), NEW u \in Slots
    PROVE /\ Taken(b, s)[u].f = b[u].f
          /\ Taken(b, s)[u].st = "FREE" <=> b[u].st = "FREE"
          /\ Received(Taken(b, s), u) => Received(b, u)
          /\ u = s \/ (IsGroup(b, s) /\ u \in GroupFrom(s, b[s].f.n))
                => ~Received(Taken(b, s), u)
<1>0. b \in [Slots -> Cell] /\ s \in Slots /\ b[u] \in Cell /\ Received(b, s)
  BY DEF RingOK, Complete
<1>1. IsGroup(b, s) => /\ b[s].f.kind # "SHORT" /\ s \in GroupFrom(s, b[s].f.n)
                       /\ \A v \in GroupFrom(s, b[s].f.n) : Received(b, v)
  <2>1. IsGroup(b, s) => /\ b[s].f.kind # "SHORT" /\ b[s].f.n \in 2 .. IterMod - 1
                         /\ \A v \in GroupFrom(s, b[s].f.n) : Received(b, v)
    BY CompleteOne
  <2> QED BY <1>0, <2>1, GroupSlots
<1>2. CASE b[s].f.kind = "SHORT"
  <2>1. Taken(b, s) =
          [b EXCEPT ![s] = [b[s] EXCEPT !.st = IF Mack < 2 THEN "PROCESSED" ELSE "PROCESSING"]]
    BY <1>2 DEF Taken
  <2>2. CASE u = s
    <3>1. Taken(b, s)[u] = [b[s] EXCEPT !.st = IF Mack < 2 THEN "PROCESSED" ELSE "PROCESSING"]
      BY <1>0, <2>1, <2>2
    <3>2. Taken(b, s)[u].f = b[u].f /\ Taken(b, s)[u].st \in {"PROCESSED", "PROCESSING"}
      BY <1>0, <2>2, <3>1 DEF Cell
    <3> QED BY <1>0, <2>2, <3>2 DEF Received
  <2>3. CASE u # s
    <3>1. Taken(b, s)[u] = b[u]
      BY <1>0, <2>1, <2>3
    <3> QED BY <1>1, <1>2, <2>3, <3>1 DEF Received
  <2> QED BY <2>2, <2>3
<1>3. CASE b[s].f.kind # "SHORT"
  <2> DEFINE group == IF IsGroup(b, s) THEN GroupFrom(s, b[s].f.n) ELSE {s}
             keep(v) == ~b[v].f.ack \/ (Mack < 2 /\ ~IsGroup(b, s))
             val(v) == IF v \in group
                       THEN [b[v] EXCEPT !.st = IF keep(v) THEN "PROCESSED" ELSE "CLEARED"]
                       ELSE b[v]
  <2>1. Taken(b, s)[u] = val(u)
    BY <1>3 DEF Taken
  <2>2. CASE u \in group
    <3>1. Taken(b, s)[u].f = b[u].f /\ Taken(b, s)[u].st \in {"PROCESSED", "CLEARED"}
      BY <1>0, <2>1, <2>2 DEF Cell
    <3>2. Received(b, u)
      BY <1>0, <1>1, <2>2
    <3> QED BY <3>1, <3>2 DEF Received
  <2>3. CASE u \notin group
    <3>1. Taken(b, s)[u] = b[u]
      BY <2>1, <2>3
    <3>2. ~(u = s \/ (IsGroup(b, s) /\ u \in GroupFrom(s, b[s].f.n)))
      BY <1>1, <2>3
    <3> QED BY <3>1, <3>2 DEF Received
  <2> QED BY <2>2, <2>3
<1> QED BY <1>2, <1>3

\* With one payload complete, taking it leaves none.
LEMMA TakenDrains ==
    ASSUME NEW b, NEW m, RingOK(b, m), NEW d \in Slots, Fresh(b, d), NEW s \in Complete(b)
    PROVE /\ Shrinks(b, Taken(b, s)) /\ RingOK(Taken(b, s), m)
          /\ ~Received(Taken(b, s), d)
          /\ Complete(Taken(b, s)) = {}
<1> DEFINE c == Taken(b, s)
<1>1. Shrinks(b, c)
  BY TakenSlots DEF Shrinks
<1>2. RingOK(c, m)
  BY <1>1, TakenType, ShrinkRing
<1>3. ~Received(c, d)
  BY TakenSlots DEF Fresh
<1>4. ASSUME NEW u \in Complete(c) PROVE FALSE
  <2>1. u \in Complete(b) /\ u \in Slots /\ Received(c, u)
    BY <1>1, <1>4, ShrinkComplete DEF Complete
  <2> HIDE DEF c
  <2>2. CASE IsGroup(b, u)
    <3>1. d \in GroupFrom(u, b[u].f.n) /\ c[u].f = b[u].f
      BY <1>1, <2>1, <2>2 DEF Fresh, Shrinks
    <3>2. ~IsSingle(b, u)
      BY <2>2 DEF IsGroup, IsSingle
    <3>3. IsGroup(c, u)
      BY <1>1, <2>1, <3>2, ShrinkComplete DEF Complete
    <3> QED BY <1>3, <3>1, <3>3 DEF IsGroup
  <2>3. CASE ~IsGroup(b, u)
    BY <1>3, <2>1, <2>3 DEF Fresh
  <2> QED BY <2>2, <2>3
<1> QED BY <1>1, <1>2, <1>3, <1>4

\* A CRC that does not match empties the ring but for the newest packet, which
\* is part of a group and so not complete by itself.
LEMMA BadDrains ==
    ASSUME NEW b, NEW m, RingOK(b, m), NEW d \in Slots, Fresh(b, d), NEW s \in Complete(b),
           BadCrc(b, s)
    PROVE /\ Shrinks(b, Clear(Taken(b, s), d, FALSE))
          /\ RingOK(Clear(Taken(b, s), d, FALSE), m)
          /\ Complete(Clear(Taken(b, s), d, FALSE)) = {}
<1> DEFINE a == Taken(b, s)
           c == Clear(a, d, FALSE)
<1>1. RingOK(a, m) /\ Shrinks(b, a)
  BY TakenDrains
<1>2. IsGroup(b, s)
  <2>1. b[s].f.kind = "GROUP_START" /\ WellFormed(b[s].f)
    BY CompleteOne DEF BadCrc
  <2> QED BY <2>1, CompleteOne DEF WellFormed, IsStart
<1>3. Received(b, d) /\ b[d].f.multi
  BY <1>2, CompleteOne DEF Fresh
<1> HIDE DEF a
<1>4. /\ \A u \in Slots : /\ c[u].f = a[u].f
                          /\ c[u].st = "FREE" <=> a[u].st = "FREE"
                          /\ Received(c, u) => u = d
      /\ RingOK(c, m)
  BY <1>1, ClearBesides
<1> HIDE DEF c
<1>5. Shrinks(b, c)
  BY <1>1, <1>3, <1>4 DEF Shrinks
<1>6. ASSUME NEW u \in Complete(c) PROVE FALSE
  <2>1. u \in Slots /\ u = d /\ c[u].f = b[d].f /\ c[u].f.multi
    BY <1>3, <1>4, <1>5, <1>6 DEF Complete, Shrinks
  <2>2. IsGroup(c, u)
    BY <1>4, <1>6, <2>1, CompleteOne
  <2>3. /\ c[u].f.n \in 2 .. IterMod - 1
        /\ \A v \in GroupFrom(u, c[u].f.n) : Received(c, v)
        /\ GroupFrom(u, c[u].f.n) \subseteq Slots
    BY <1>4, <1>6, <2>2, CompleteOne
  <2>4. At(u + 1) \in GroupFrom(u, c[u].f.n) /\ At(u + 1) # u
    BY <2>1, <2>3, GroupSlots
  <2> QED BY <1>4, <2>1, <2>3, <2>4
<1> QED BY <1>4, <1>5, <1>6 DEF a, c

\* Without a complete payload a turn changes nothing.
LEMMA HandUpNone ==
    ASSUME NEW b, NEW d, Complete(b) = {}
    PROVE HandUp(b, d) = [buf |-> b, out |-> <<>>, go |-> FALSE]
BY DEF HandUp, QueuedRx

LEMMA Queued ==
    ASSUME NEW b, NEW d \in Slots, Complete(b) # {}
    PROVE QueuedRx(b, d) \in Complete(b) /\ QueuedRx(b, d) # None
<1>1. \A s \in Slots : Dist(d, s) \in Nat
  <2>1. ASSUME NEW s \in Slots PROVE Dist(d, s) \in Nat
    <3>1. s - d - 1 + IterMod \in Int
      BY DEF Slots
    <3> QED BY <3>1, AtType DEF Dist, Slots
  <2> QED BY <2>1
<1> DEFINE T == {Dist(d, s) : s \in Complete(b)}
<1>2. T \in SUBSET Nat /\ T # {}
  BY <1>1 DEF Complete
<1>3. PICK n \in T : \A k \in T : n <= k
  <2> HIDE DEF T
  <2> QED BY <1>2, LeastOf
<1>4. PICK s \in Complete(b) : \A u \in Complete(b) : Dist(d, s) <= Dist(d, u)
  BY <1>3
<1>5. QueuedRx(b, d) = CHOOSE x \in Complete(b) : \A u \in Complete(b) : Dist(d, x) <= Dist(d, u)
  BY DEF QueuedRx
<1>6. QueuedRx(b, d) \in Complete(b)
  BY <1>4, <1>5
<1> QED BY <1>6 DEF Complete, Slots, None

\* What a frame that was just stored may complete: one payload, or a group
\* whose CRC does not match, or nothing; nothing is complete afterwards.
Handed1(b, d, x) ==
    \/ /\ x.out = <<>> /\ x.buf = b /\ Complete(b) = {}
    \/ /\ x.out = <<>>
       /\ \E s \in Complete(b) : BadCrc(b, s) /\ x.buf = Clear(Taken(b, s), d, FALSE)
    \/ \E s \in Complete(b) : /\ ~BadCrc(b, s)
                              /\ x.buf = Taken(b, s)
                              /\ x.out = <<Payload(b, s)>>

LEMMA EmptyCat == <<>> \o <<>> = <<>>
OBVIOUS

LEMMA OneCat == ASSUME NEW p PROVE <<>> \o <<p>> = <<p>> /\ <<p>> \o <<>> = <<p>>
<1>1. <<p>> \in Seq({p})
  OBVIOUS
<1> QED BY <1>1, ConcatEmptySeq, Zenon

LEMMA DrainIs ==
    ASSUME NEW b, NEW m, RingOK(b, m), NEW d \in Slots, Fresh(b, d)
    PROVE Handed1(b, d, Drain(b, d))
<1> DEFINE first == [buf |-> b, out |-> <<>>, go |-> TRUE]
           then(x) == IF x.go THEN [HandUp(x.buf, d) EXCEPT !.out = x.out \o @] ELSE x
           turn[k \in 0 .. IterMod] ==
              IF k = 0 THEN [buf |-> b, out |-> <<>>, go |-> TRUE]
              ELSE LET x == turn[k - 1]
                       y == HandUp(x.buf, d)
                   IN  IF x.go THEN [y EXCEPT !.out = x.out \o @] ELSE x
           one == then(first)
           two == then(one)
<1>1. Drain(b, d) = turn[IterMod]
  BY DEF Drain
<1>0. one = [HandUp(b, d) EXCEPT !.out = <<>> \o @]
  OBVIOUS
\* After two turns nothing goes on.
<1>2. two.go = FALSE /\ Handed1(b, d, two)
  <2>1. CASE Complete(b) = {}
    <3>1. one = [buf |-> b, out |-> <<>>, go |-> FALSE]
      <4>1. HandUp(b, d) = [buf |-> b, out |-> <<>>, go |-> FALSE]
        BY <2>1, HandUpNone
      <4> HIDE DEF first, then, turn, one, two
      <4>2. PICK h : h = HandUp(b, d)
        OBVIOUS
      <4>3. h = [buf |-> b, out |-> <<>>, go |-> FALSE]
        BY <4>1, <4>2, Zenon
      <4>4. h.out = <<>>
        BY <4>3
      <4>5. <<>> \o h.out = <<>>
        BY <4>4, EmptyCat, Zenon
      <4>6. one = [h EXCEPT !.out = <<>>]
        BY <1>0, <4>2, <4>5, Zenon
      <4> QED BY <4>3, <4>6
    <3>2. two = one
      BY <3>1
    <3> HIDE DEF one, two
    <3> QED BY <2>1, <3>1, <3>2 DEF Handed1
  <2>2. CASE Complete(b) # {}
    <3> DEFINE s == QueuedRx(b, d)
    <3>1. s \in Complete(b) /\ s # None
      BY <2>2, Queued
    <3>2. CASE BadCrc(b, s)
      <4>1. HandUp(b, d) = [buf |-> Clear(Taken(b, s), d, FALSE), out |-> <<>>, go |-> FALSE]
        BY <3>1, <3>2 DEF HandUp
      <4>2. one = [buf |-> Clear(Taken(b, s), d, FALSE), out |-> <<>>, go |-> FALSE]
        <5> HIDE DEF first, then, turn, one, two, s
        <5>2. PICK h : h = HandUp(b, d)
          OBVIOUS
        <5>3. h = [buf |-> Clear(Taken(b, s), d, FALSE), out |-> <<>>, go |-> FALSE]
          BY <4>1, <5>2, Zenon
        <5>4. h.out = <<>>
          BY <5>3
        <5>5. <<>> \o h.out = <<>>
          BY <5>4, EmptyCat, Zenon
        <5>6. one = [h EXCEPT !.out = <<>>]
          BY <1>0, <5>2, <5>5, Zenon
        <5> QED BY <5>3, <5>6
      <4>3. two = one
        BY <4>2
      <4> HIDE DEF one, two, s
      <4> QED BY <3>1, <3>2, <4>2, <4>3 DEF Handed1
    <3>3. CASE ~BadCrc(b, s)
      <4>1. HandUp(b, d) = [buf |-> Taken(b, s), out |-> <<Payload(b, s)>>, go |-> TRUE]
        BY <3>1, <3>3 DEF HandUp
      <4>2. one = [buf |-> Taken(b, s), out |-> <<Payload(b, s)>>, go |-> TRUE]
        <5> HIDE DEF first, then, turn, one, two, s
        <5>2. PICK h : h = HandUp(b, d)
          OBVIOUS
        <5>3. h = [buf |-> Taken(b, s), out |-> <<Payload(b, s)>>, go |-> TRUE]
          BY <4>1, <5>2, Zenon
        <5>4. h.out = <<Payload(b, s)>>
          BY <5>3
        <5>5. <<>> \o h.out = <<Payload(b, s)>>
          BY <5>4, OneCat, Zenon
        <5>6. one = [h EXCEPT !.out = <<Payload(b, s)>>]
          BY <1>0, <5>2, <5>5, Zenon
        <5> QED BY <5>3, <5>6
      <4>3. Complete(Taken(b, s)) = {}
        BY <3>1, TakenDrains
      <4>4. HandUp(Taken(b, s), d) = [buf |-> Taken(b, s), out |-> <<>>, go |-> FALSE]
        BY <4>3, HandUpNone
      <4> HIDE DEF one, s
      <4>5. two = [buf |-> Taken(b, s), out |-> <<Payload(b, s)>>, go |-> FALSE]
        <5>1. two = [HandUp(Taken(b, s), d) EXCEPT !.out = <<Payload(b, s)>> \o @]
          BY <4>2
        <5> HIDE DEF first, then, turn, two
        <5>2. PICK h : h = HandUp(Taken(b, s), d)
          OBVIOUS
        <5>3. h = [buf |-> Taken(b, s), out |-> <<>>, go |-> FALSE]
          BY <4>4, <5>2, Zenon
        <5>4. h.out = <<>>
          BY <5>3
        <5>5. <<Payload(b, s)>> \o h.out = <<Payload(b, s)>>
          BY <5>4, OneCat, Zenon
        <5>6. two = [h EXCEPT !.out = <<Payload(b, s)>>]
          BY <5>1, <5>2, <5>5, Zenon
        <5> QED BY <5>3, <5>6
      <4> HIDE DEF two
      <4> QED BY <3>1, <3>3, <4>5 DEF Handed1
    <3> QED BY <3>2, <3>3
  <2> QED BY <2>1, <2>2
\* The turns exist, and obey their equation.
<1> DEFINE next(g) == [k \in 0 .. IterMod |->
                         IF k = 0 THEN [buf |-> b, out |-> <<>>, go |-> TRUE]
                         ELSE LET x == g[k - 1]
                                  y == HandUp(x.buf, d)
                              IN  IF x.go THEN [y EXCEPT !.out = x.out \o @] ELSE x]
           wit == [k \in 0 .. IterMod |->
                     IF k = 0 THEN first ELSE IF k = 1 THEN one ELSE two]
<1>3. wit = next(wit)
  <2>1. ASSUME NEW k \in 0 .. IterMod PROVE wit[k] = next(wit)[k]
    <3> HIDE DEF two
    <3>1. CASE k = 0
      BY <3>1
    <3>2. CASE k = 1
      <4>1. wit[0] = first /\ wit[1] = one
        BY <3>2
      <4> QED BY <3>2, <4>1
    <3>3. CASE k = 2
      <4>1. wit[1] = one /\ wit[2] = two /\ next(wit)[2] = then(wit[1])
        BY <3>3
      <4> QED BY <3>3, <4>1 DEF two
    <3>4. CASE k > 2
      <4>1. wit[k - 1] = two /\ wit[k] = two /\ next(wit)[k] = then(wit[k - 1])
        BY <3>4
      <4>2. then(two) = two
        BY <1>2
      <4> QED BY <4>1, <4>2
    <3> QED BY <3>1, <3>2, <3>3, <3>4
  <2>2. wit = [k \in 0 .. IterMod |-> wit[k]] /\ next(wit) = [k \in 0 .. IterMod |-> next(wit)[k]]
    OBVIOUS
  <2> HIDE DEF wit, next
  <2> QED BY <2>1, <2>2
<1>4. turn = next(turn)
  <2>1. turn = CHOOSE g : g = next(g)
    OBVIOUS
  <2> HIDE DEF turn, wit, next
  <2> QED BY <1>3, <2>1
<1>5. /\ turn[0] = first
      /\ \A k \in 1 .. IterMod : turn[k] = then(turn[k - 1])
  <2> HIDE DEF turn
  <2>1. \A k \in 0 .. IterMod : turn[k] = next(turn)[k]
    BY <1>4
  <2>2. next(turn)[0] = first
    OBVIOUS
  <2>3. \A k \in 1 .. IterMod : next(turn)[k] = then(turn[k - 1])
    OBVIOUS
  <2> HIDE DEF next, then, first
  <2> QED BY <2>1, <2>2, <2>3
<1> HIDE DEF turn, first
<1>6. turn[2] = two
  <2>1. turn[1] = then(turn[0])
    <3>1. 1 \in 1 .. IterMod /\ 1 - 1 = 0
      OBVIOUS
    <3> HIDE DEF then
    <3> QED BY <1>5, <3>1
  <2>2. turn[2] = then(turn[1])
    <3>1. 2 \in 1 .. IterMod /\ 2 - 1 = 1
      OBVIOUS
    <3> HIDE DEF then
    <3> QED BY <1>5, <3>1
  <2> QED BY <1>5, <2>1, <2>2
<1> HIDE DEF two
<1>7. {k \in 2 .. IterMod : turn[k] # two} = {}
  <2> DEFINE T == {k \in 2 .. IterMod : turn[k] # two}
  <2> SUFFICES ASSUME T # {} PROVE FALSE
    OBVIOUS
  <2>1. T \in SUBSET Nat
    OBVIOUS
  <2>2. PICK k \in T : \A j \in T : k <= j
    <3> HIDE DEF T
    <3> QED BY <2>1, LeastOf
  <2>3. k \in 3 .. IterMod /\ k - 1 \in 2 .. IterMod /\ k \in 1 .. IterMod /\ ~(k <= k - 1)
    BY <1>6
  <2>4. turn[k - 1] = two
    BY <2>2, <2>3
  <2>5. turn[k] = then(turn[k - 1])
    BY <1>5, <2>3
  <2>6. then(two) = two
    BY <1>2
  <2> QED BY <2>2, <2>4, <2>5, <2>6
<1>8. turn[IterMod] = two
  BY <1>7
<1> QED BY <1>1, <1>2, <1>8

\* What a reception hands over, and the ring after it.
LEMMA DrainRing ==
    ASSUME NEW b, NEW m \in 0 .. MaxMsgs, RingOK(b, m), NEW d \in Slots, Fresh(b, d),
           NEW x, Handed1(b, d, x)
    PROVE /\ Shrinks(b, x.buf) /\ RingOK(x.buf, m) /\ Complete(x.buf) = {}
          /\ x.out = <<>> \/ \E p \in (1 .. m) \cup {Mixed} : x.out = <<p>>
<1>1. CASE x.out = <<>> /\ x.buf = b /\ Complete(b) = {}
  <2>1. Shrinks(b, b)
    BY DEF Shrinks
  <2> QED BY <1>1, <2>1
<1>2. ASSUME NEW s \in Complete(b), x.out = <<>>, BadCrc(b, s),
             x.buf = Clear(Taken(b, s), d, FALSE)
      PROVE /\ Shrinks(b, x.buf) /\ RingOK(x.buf, m) /\ Complete(x.buf) = {}
            /\ x.out = <<>> \/ \E p \in (1 .. m) \cup {Mixed} : x.out = <<p>>
  BY <1>2, BadDrains
<1>3. ASSUME NEW s \in Complete(b), ~BadCrc(b, s),
             x.buf = Taken(b, s), x.out = <<Payload(b, s)>>
      PROVE /\ Shrinks(b, x.buf) /\ RingOK(x.buf, m) /\ Complete(x.buf) = {}
            /\ x.out = <<>> \/ \E p \in (1 .. m) \cup {Mixed} : x.out = <<p>>
  <2>1. Payload(b, s) \in (1 .. m) \cup {Mixed}
    BY CompleteOne DEF Payload
  <2> QED BY <1>3, <2>1, TakenDrains
<1> QED BY <1>1, <1>2, <1>3 DEF Handed1

-----------------------------------------------------------------------------
(***************************************************************************)
(* The invariant behind the types: the frames of the base station are well *)
(* formed, the ring holds frames it has offered, and nothing complete is   *)
(* left in the ring between two receptions, so that a reception hands over *)
(* one payload at most.                                                    *)
(***************************************************************************)
StationOK ==
    /\ station \in [offered : 0 .. MaxMsgs, iter : Slots, win : Seq(Frame),
                    todo : SUBSET Nat, wait : Nat, tries : Nat, clear : BOOLEAN]
    /\ \A j \in DOMAIN station.win :
          WellFormed(station.win[j]) /\ station.win[j].msg <= station.offered
    /\ station.todo \subseteq DOMAIN station.win
    /\ station.wait \in {0} \cup DOMAIN station.win

\* The frame that asks for an ACK is the last of those being sent.
Asks ==
    /\ station.wait # 0 => station.todo = {} /\ station.win[station.wait].ack
    /\ \A i \in DOMAIN station.win : station.win[i].ack =>
          /\ station.wait # 0 \/ station.todo # {}
          /\ station.wait <= i /\ \A t \in station.todo : t <= i
    /\ \A t \in station.todo :
          station.win[t].ack \/ t = Len(station.win) \/ \E u \in station.todo : u > t

RxInv ==
    /\ TypeOK
    /\ StationOK
    /\ Asks
    /\ RingOK(buf, station.offered)
    /\ Complete(buf) = {}

LEMMA KeptIs ==
    ASSUME RxInv, NEW f
    PROVE /\ Shrinks(buf, Kept(f)) /\ RingOK(Kept(f), station.offered)
          /\ Complete(Kept(f)) = {}
<1>1. Shrinks(buf, buf)
  BY DEF Shrinks
<1>2. Shrinks(buf, Kept(f)) /\ RingOK(Kept(f), station.offered)
  BY <1>1, ClearShrinks DEF Kept, RxInv
<1> QED BY <1>2, ShrinkComplete DEF RxInv

LEMMA WrittenIs ==
    ASSUME RxInv, NEW f, WellFormed(f), f.msg <= station.offered
    PROVE /\ Again(f) => dlIter = f.iter
          /\ RingOK(Written(f), station.offered)
          /\ Written(f)[f.iter].f = f /\ Written(f)[f.iter].st # "FREE"
          /\ \A s \in Slots \ {f.iter} :
                /\ Written(f)[s].f = buf[s].f
                /\ Written(f)[s].st = "FREE" <=> buf[s].st = "FREE"
                /\ Received(Written(f), s) => Received(buf, s)
          /\ Fresh(Written(f), f.iter)
          /\ Again(f) => Complete(Written(f)) = {}
<1> DEFINE b == Kept(f)
           m == station.offered
           d == f.iter
<1>0. /\ f \in Frame /\ d \in Slots /\ dlIter \in Slots
      /\ RingOK(b, m) /\ Shrinks(buf, b) /\ Complete(b) = {} /\ b \in [Slots -> Cell]
  BY KeptIs DEF WellFormed, Frame, RxInv, TypeOK, RingOK
<1> HIDE DEF b
<1>1. CASE Again(f)
  <2>1. b[dlIter].st # "FREE" /\ b[dlIter].f = f
    BY <1>1 DEF Again, Duplicate, b
  <2>2. dlIter = d
    BY <1>0, <2>1 DEF RingOK
  <2>3. Written(f) = b
    BY <1>1 DEF Written, b
  <2>4. Fresh(b, d)
    BY <1>0 DEF Fresh
  <2> QED BY <1>0, <2>1, <2>2, <2>3, <2>4 DEF Shrinks
<1>2. CASE ~Again(f)
  <2> DEFINE c == Written(f)
  <2>1. c = [b EXCEPT ![d] = [st |-> "RECEIVED", f |-> f, old |-> FALSE]]
    BY <1>2 DEF Written, b, Store
  <2> HIDE DEF c
  <2>2. [st |-> "RECEIVED", f |-> f, old |-> FALSE] \in Cell
    BY <1>0 DEF Cell, States
  <2>3. c \in [Slots -> Cell]
    BY <1>0, <2>1, <2>2
  <2>4. c[d].f = f /\ c[d].st # "FREE" /\ Received(c, d)
    BY <1>0, <2>1 DEF Received
  <2>5. \A s \in Slots \ {d} : c[s] = b[s]
    BY <1>0, <2>1
  <2>6. RingOK(c, m)
    BY <1>0, <2>3, <2>4, <2>5 DEF RingOK
  <2>7. ASSUME NEW s \in Complete(c)
        PROVE \/ IsGroup(c, s) /\ d \in GroupFrom(s, c[s].f.n)
              \/ ~IsGroup(c, s) /\ s = d
    <3>1. s \in Slots /\ Received(c, s) /\ (IsGroup(c, s) \/ IsSingle(c, s))
      BY DEF Complete
    <3>2. CASE s = d
      <4>1. IsGroup(c, s) => c[s].f.n \in 2 .. IterMod - 1
        BY <2>6, CompleteOne
      <4> QED BY <3>1, <3>2, <4>1, GroupSlots
    <3>3. CASE s # d
      <4>1. c[s] = b[s] /\ Received(b, s) /\ s \notin Complete(b)
        BY <1>0, <2>5, <3>1, <3>3 DEF Received
      <4>2. ~IsGroup(b, s) /\ ~IsSingle(b, s)
        BY <3>1, <4>1 DEF Complete
      <4>3. IsGroup(c, s)
        BY <3>1, <4>1, <4>2 DEF IsSingle
      <4>4. GroupFrom(s, c[s].f.n) \subseteq Slots
        BY <2>6, <4>3, CompleteOne
      <4>5. ASSUME d \notin GroupFrom(s, c[s].f.n) PROVE FALSE
        <5>1. \A u \in GroupFrom(s, c[s].f.n) : c[u] = b[u]
          BY <2>5, <4>4, <4>5
        <5>2. IsGroup(b, s)
          BY <4>1, <4>3, <5>1 DEF IsGroup, Received
        <5> QED BY <4>2, <5>2
      <4> QED BY <4>3, <4>5
    <3> QED BY <3>2, <3>3
  <2>8. Fresh(c, d)
    BY <2>7 DEF Fresh
  <2>9. \A s \in Slots \ {d} : /\ c[s].f = buf[s].f
                               /\ c[s].st = "FREE" <=> buf[s].st = "FREE"
                               /\ Received(c, s) => Received(buf, s)
    BY <1>0, <2>5 DEF Shrinks, Received
  <2> QED BY <1>2, <2>4, <2>6, <2>8, <2>9 DEF c
<1> QED BY <1>1, <1>2

LEMMA ReceiveIs ==
    ASSUME RxInv, NEW f, WellFormed(f), f.msg <= station.offered, Receive(f)
    PROVE /\ dlIter' = f.iter
          /\ notCleared' = (notCleared \/ IsStart(f))
          /\ \E x : /\ Handed1(Written(f), f.iter, x)
                    /\ buf' = x.buf /\ HandOver(x.out)
                    /\ ackPkt' = IF f.ack /\ ackPkt = NoAck
                                 THEN [iter |-> f.iter, has |-> AckMask(x.buf, f.iter)]
                                 ELSE ackPkt
<1>1. f.iter \in Slots
  BY DEF WellFormed, Frame
<1>2. /\ Again(f) => dlIter = f.iter
      /\ Handed1(Written(f), f.iter, Drain(Written(f), f.iter))
  BY <1>1, WrittenIs, DrainIs
<1> DEFINE d == IF Again(f) THEN dlIter ELSE f.iter
<1>3. d = f.iter
  BY <1>2
<1>4. LET x == Drain(Written(f), d)
      IN  /\ buf' = x.buf
          /\ dlIter' = d
          /\ notCleared' = (notCleared \/ IsStart(f))
          /\ HandOver(x.out)
          /\ ackPkt' = IF f.ack /\ ackPkt = NoAck
                       THEN [iter |-> d, has |-> AckMask(x.buf, d)]
                       ELSE ackPkt
  BY DEF Receive, Kept, Again, Written
<1> HIDE DEF d
<1> QED BY <1>2, <1>3, <1>4

-----------------------------------------------------------------------------
(***************************************************************************)
(* The queue towards the application.                                      *)
(***************************************************************************)
Positions == 0 .. QueueSize - 1

LEMMA EnqueueIs ==
    ASSUME NEW q \in [Positions -> [ready : BOOLEAN, pos : Nat]],
           NEW h \in Positions, NEW at \in Nat
    PROVE /\ Enqueue(q, h, at, 0) = q
          /\ Enqueue(q, h, at, 1) = [q EXCEPT ![h] = [ready |-> TRUE, pos |-> at + 1]]
<1>1. DOMAIN q = Positions
  OBVIOUS
<1>2. Enqueue(q, h, at, 0) = q
  <2>1. \A i \in DOMAIN q : {k \in 1 .. 0 : (h + k - 1) % QueueSize = i} = {}
    OBVIOUS
  <2>2. Enqueue(q, h, at, 0) = [i \in DOMAIN q |-> q[i]]
    BY <2>1, Zenon DEF Enqueue
  <2> QED BY <2>2
<1>3. Enqueue(q, h, at, 1) = [q EXCEPT ![h] = [ready |-> TRUE, pos |-> at + 1]]
  <2> DEFINE mine(i) == {k \in 1 .. 1 : (h + k - 1) % QueueSize = i}
             val(i) == IF mine(i) = {} THEN q[i]
                       ELSE [ready |-> TRUE,
                             pos |-> at + CHOOSE k \in mine(i) : \A j \in mine(i) : k >= j]
  <2>1. h % QueueSize = h /\ h + 1 - 1 = h
    <3>1. QueueSize \in Nat \ {0} /\ h \in 0 .. QueueSize - 1
      BY DEF Positions
    <3>2. h % QueueSize = h
      BY <3>1, ModSmall
    <3> QED BY <3>1, <3>2
  <2>2. mine(h) = {1}
    BY <2>1
  <2>3. \A i \in Positions \ {h} : mine(i) = {}
    BY <2>1
  <2>4. (CHOOSE k \in {1} : \A j \in {1} : k >= j) = 1
    OBVIOUS
  <2>5. val(h) = [ready |-> TRUE, pos |-> at + 1]
    <3> HIDE DEF mine
    <3> QED BY <2>2, <2>4
  <2>6. \A i \in Positions \ {h} : val(i) = q[i]
    <3> HIDE DEF mine
    <3> QED BY <2>3
  <2>7. Enqueue(q, h, at, 1) = [i \in Positions |-> val(i)]
    BY <1>1, Zenon DEF Enqueue
  <2> HIDE DEF val
  <2> QED BY <2>5, <2>6, <2>7
<1> QED BY <1>2, <1>3

LEMMA HandOverIs ==
    ASSUME TypeOK, NEW out, HandOver(out)
    PROVE /\ out = <<>> => queue' = queue /\ head' = head /\ log' = log
          /\ \A p : out = <<p>> =>
               /\ queue' = [queue EXCEPT ![head] = [ready |-> TRUE, pos |-> Len(log) + 1]]
               /\ head' = (head + 1) % QueueSize
               /\ log' = Append(log, p)
<1>1. /\ queue \in [Positions -> [ready : BOOLEAN, pos : Nat]]
      /\ head \in Positions /\ Len(log) \in Nat /\ log \in Seq(Msgs \cup {Mixed})
  BY DEF TypeOK, Positions
<1>2. /\ queue' = Enqueue(queue, head, Len(log), Len(out))
      /\ head' = (head + Len(out)) % QueueSize
      /\ log' = log \o out
  BY DEF HandOver
<1>3. ASSUME out = <<>> PROVE queue' = queue /\ head' = head /\ log' = log
  <2>1. Len(out) = 0 /\ log \o out = log
    BY <1>1, <1>3, ConcatEmptySeq
  <2>2. head + 0 = head /\ head % QueueSize = head
    <3>1. QueueSize \in Nat \ {0} /\ head \in 0 .. QueueSize - 1
      BY <1>1 DEF Positions
    <3>2. head % QueueSize = head
      BY <3>1, ModSmall
    <3> QED BY <3>1, <3>2
  <2> QED BY <1>1, <1>2, <2>1, <2>2, EnqueueIs
<1>4. ASSUME NEW p, out = <<p>>
      PROVE /\ queue' = [queue EXCEPT ![head] = [ready |-> TRUE, pos |-> Len(log) + 1]]
            /\ head' = (head + 1) % QueueSize
            /\ log' = Append(log, p)
  <2>1. Len(out) = 1
    BY <1>4
  <2>2. log \o <<p>> = Append(log, p)
    <3>1. log \in Seq(Msgs \cup {Mixed, p}) /\ p \in Msgs \cup {Mixed, p}
      BY <1>1
    <3> QED BY <3>1, AppendIsConcat
  <2> QED BY <1>1, <1>2, <1>4, <2>1, <2>2, EnqueueIs
<1> QED BY <1>3, <1>4

-----------------------------------------------------------------------------
(***************************************************************************)
(* The window of the base station.                                         *)
(***************************************************************************)
Packets(size) == IF size = 0 THEN 1 ELSE size

\* The frames of the message the base station offers next.
Offered(size, j) ==
    [kind  |-> IF size = 0 THEN "SHORT"
               ELSE IF Packets(size) > 1 /\ j = 0 THEN Start ELSE "DATA",
     ack   |-> j = Packets(size) - 1 /\ (Packets(size) > 1 \/ station.iter % Mack = 0),
     multi |-> Packets(size) > 1,
     iter  |-> At(station.iter + j),
     msg   |-> station.offered + 1,
     part  |-> j,
     n     |-> IF Packets(size) > 1 /\ j = 0 THEN Packets(size) ELSE 0]

LEMMA OfferedType ==
    ASSUME StationOK, station.offered < MaxMsgs, NEW size \in Sizes,
           NEW j \in 0 .. Packets(size) - 1
    PROVE Packets(size) \in 1 .. IterMod - 1 /\ WellFormed(Offered(size, j))
<1>1. /\ station.iter \in Slots /\ station.offered \in 0 .. MaxMsgs
      /\ Packets(size) \in 1 .. IterMod - 1 /\ j \in Slots /\ Packets(size) \in Slots
      /\ 0 \in Slots /\ (size = 0 => Packets(size) = 1)
  BY DEF StationOK, Packets, Slots
<1>2. At(station.iter + j) \in Slots /\ station.offered + 1 \in Msgs
  <2>1. station.iter + j \in Int
    BY <1>1 DEF Slots
  <2> QED BY <1>1, <2>1, AtType DEF Msgs
<1> DEFINE p == Packets(size)
           a == j = p - 1 /\ (p > 1 \/ station.iter % Mack = 0)
           k == IF size = 0 THEN "SHORT" ELSE IF p > 1 /\ j = 0 THEN Start ELSE "DATA"
           c == IF p > 1 /\ j = 0 THEN p ELSE 0
<1> HIDE DEF p
<1>3. p \in Nat /\ j \in Nat
  BY <1>1 DEF p, Slots
<1>4. /\ k \in Kinds /\ k \in {"SHORT", "DATA", Start} /\ c \in Slots
      /\ k = "SHORT" => p = 1
      /\ k \in {"GROUP_START", "GROUP_START_OLD"} => p > 1 /\ c > 1 /\ j = 0
  BY <1>1, <1>3 DEF p, Kinds
<1>5. p = 1 => j = 0
  BY <1>1 DEF p
<1> DEFINE f == Offered(size, j)
<1>6. f = [kind |-> k, ack |-> a, multi |-> p > 1, iter |-> At(station.iter + j),
           msg |-> station.offered + 1, part |-> j, n |-> c]
  BY DEF Offered, p
<1> HIDE DEF f, k, c, a
<1>7. a \in BOOLEAN /\ (p > 1) \in BOOLEAN
  BY DEF a
<1>8. f \in Frame
  BY <1>1, <1>2, <1>4, <1>6, <1>7, Zenon DEF Frame
<1>9. f.kind = k /\ f.msg = station.offered + 1 /\ f.part = j /\ f.n = c
  BY <1>6
<1>10. f.multi <=> p > 1
  BY <1>6
<1> QED
  <2>1. p # 1 /\ p >= 1 => p > 1
    BY <1>3
  <2>2. p >= 1
    BY <1>1 DEF p
  <2>3. f.multi => f.kind # "SHORT"
    BY <1>4, <1>9, <1>10, <1>3
  <2>4. IsStart(f) => f.multi /\ f.n > 1 /\ f.part = 0
    BY <1>4, <1>9, <1>10 DEF IsStart
  <2>5. ~f.multi => f.part = 0
    BY <1>5, <1>9, <1>10, <2>1, <2>2
  <2> QED BY <1>1, <1>2, <1>4, <1>8, <1>9, <2>3, <2>4, <2>5 DEF WellFormed, f

\* A function on 1 .. n is a sequence.
LEMMA AsSeq ==
    ASSUME NEW S, NEW n \in Nat, NEW g \in [1 .. n -> S]
    PROVE g \in Seq(S) /\ Len(g) = n
<1>1. g \in Seq(S)
  BY SeqDef
<1>2. DOMAIN g = 1 .. n /\ DOMAIN g = 1 .. Len(g) /\ Len(g) \in Nat
  BY <1>1, LenProperties
<1> QED BY <1>1, <1>2

\* The window of k frames grows by the n packets of a message.
Grows(size, k, n) ==
    /\ n \in 1 .. IterMod - 1 /\ k + n < IterMod
    /\ station' = [station EXCEPT !.offered = station.offered + 1,
                                  !.iter = At(station.iter + n),
                                  !.win = station'.win,
                                  !.todo = k + 1 .. k + n]
    /\ station'.win \in Seq(Frame) /\ Len(station'.win) = k + n
    /\ \A i \in 1 .. k : station'.win[i] = station.win[i]
    /\ \A i \in k + 1 .. k + n : station'.win[i] = Offered(size, i - k - 1)

LEMMA OffersIs ==
    ASSUME StationOK, Offers
    PROVE /\ station.wait = 0 /\ station.todo = {} /\ ~station.clear
          /\ station.offered < MaxMsgs
          /\ \E size \in Sizes :
               /\ Grows(size, Len(station.win), Packets(size))
               /\ sinceClear' = IF sinceClear + Packets(size) > IterMod THEN IterMod + 1
                                ELSE sinceClear + Packets(size)
<1>1. /\ station.wait = 0 /\ station.todo = {} /\ ~station.clear
      /\ station.offered < MaxMsgs
  BY DEF Offers
<1> DEFINE k == Len(station.win)
           m == station.offered + 1
           n(size) == IF size = 0 THEN 1 ELSE size
           asks(size, j) == j = n(size) - 1 /\ (n(size) > 1 \/ station.iter % Mack = 0)
           frame(size, j) == [kind  |-> IF size = 0 THEN "SHORT"
                                   ELSE IF n(size) > 1 /\ j = 0 THEN Start ELSE "DATA",
                         ack   |-> asks(size, j),
                         multi |-> n(size) > 1,
                         iter  |-> At(station.iter + j),
                         msg   |-> m,
                         part  |-> j,
                         n     |-> IF n(size) > 1 /\ j = 0 THEN n(size) ELSE 0]
<1>2. PICK size \in Sizes :
        /\ k + n(size) < IterMod
        /\ station' = [station EXCEPT !.offered = m,
                                      !.iter = At(@ + n(size)),
                                      !.win = @ \o [j \in 1 .. n(size) |-> frame(size, j - 1)],
                                      !.todo = k + 1 .. k + n(size)]
        /\ sinceClear' = IF sinceClear + n(size) > IterMod THEN IterMod + 1
                         ELSE sinceClear + n(size)
  BY DEF Offers
<1>3. \A j : frame(size, j) = Offered(size, j)
  BY DEF Offered, Packets
<1>4. n(size) = Packets(size)
  BY DEF Packets
<1> HIDE DEF frame, n, m
<1> DEFINE p == Packets(size)
           g == [j \in 1 .. p |-> Offered(size, j - 1)]
<1>5. station' = [station EXCEPT !.offered = m,
                                 !.iter = At(station.iter + p),
                                 !.win = station.win \o g,
                                 !.todo = k + 1 .. k + p]
  BY <1>2, <1>3, <1>4
<1>6. /\ station.win \in Seq(Frame) /\ k \in Nat
      /\ station \in [offered : 0 .. MaxMsgs, iter : Slots, win : Seq(Frame),
                    todo : SUBSET Nat, wait : Nat, tries : Nat, clear : BOOLEAN]
  BY LenProperties DEF StationOK
<1>7. p \in 1 .. IterMod - 1
  BY DEF Packets
<1>8. \A j \in 1 .. p : Offered(size, j - 1) \in Frame
  <2>1. ASSUME NEW j \in 1 .. p PROVE Offered(size, j - 1) \in Frame
    <3>1. j - 1 \in 0 .. Packets(size) - 1
      BY <1>7
    <3> QED BY <1>1, <3>1, OfferedType DEF WellFormed
  <2> QED BY <2>1
<1>9. g \in Seq(Frame) /\ Len(g) = p
  <2>1. g \in [1 .. p -> Frame]
    BY <1>8
  <2> HIDE DEF g
  <2> QED BY <1>7, <2>1, AsSeq
<1>10. \A i \in 1 .. p : g[i] = Offered(size, i - 1)
  OBVIOUS
<1> HIDE DEF g, p, k
<1>11. /\ station.win \o g \in Seq(Frame) /\ Len(station.win \o g) = k + p
       /\ \A i \in 1 .. k + p :
            (station.win \o g)[i] = IF i <= k THEN station.win[i] ELSE g[i - k]
  <2>1. Len(station.win) = k
    BY DEF k
  <2>2. /\ station.win \o g \in Seq(Frame)
        /\ Len(station.win \o g) = Len(station.win) + Len(g)
        /\ \A i \in 1 .. Len(station.win) + Len(g) :
             (station.win \o g)[i] =
                IF i <= Len(station.win) THEN station.win[i] ELSE g[i - Len(station.win)]
    BY <1>6, <1>9, ConcatProperties
  <2> QED BY <1>9, <2>1, <2>2, Zenon
<1>12. \A i \in 1 .. k : (station.win \o g)[i] = station.win[i]
  BY <1>6, <1>7, <1>11
<1>13. \A i \in k + 1 .. k + p : (station.win \o g)[i] = Offered(size, i - k - 1)
  BY <1>6, <1>7, <1>10, <1>11
<1>14. station'.win = station.win \o g
  BY <1>5, <1>6
<1>15. station' = [station EXCEPT !.offered = station.offered + 1,
                                  !.iter = At(station.iter + p),
                                  !.win = station'.win,
                                  !.todo = k + 1 .. k + p]
  BY <1>5, <1>14 DEF m
<1>16. k + p < IterMod
  BY <1>2, <1>4 DEF p
<1>17. Grows(size, k, p)
  BY <1>7, <1>11, <1>12, <1>13, <1>14, <1>15, <1>16 DEF Grows
<1>18. sinceClear' = IF sinceClear + p > IterMod THEN IterMod + 1 ELSE sinceClear + p
  BY <1>2, <1>4 DEF p
<1> QED BY <1>1, <1>17, <1>18 DEF k, p

LEMMA WindowIs ==
    ASSUME StationOK
    PROVE /\ Len(station.win) \in Nat /\ DOMAIN station.win = 1 .. Len(station.win)
          /\ station.win \in Seq(Frame) /\ station.win \in [1 .. Len(station.win) -> Frame]
          /\ station.todo \subseteq 1 .. Len(station.win)
          /\ station.wait \in 0 .. Len(station.win)
<1>1. station.win \in Seq(Frame)
  BY DEF StationOK
<1>2. /\ Len(station.win) \in Nat /\ DOMAIN station.win = 1 .. Len(station.win)
      /\ station.win \in [1 .. Len(station.win) -> Frame]
  BY <1>1, LenProperties
<1> QED BY <1>1, <1>2 DEF StationOK

LEMMA TransmitsIs ==
    ASSUME StationOK, Transmits
    PROVE \E j \in station.todo :
            /\ \A u \in station.todo : j <= u
            /\ j \in DOMAIN station.win
            /\ WellFormed(station.win[j]) /\ station.win[j].msg <= station.offered
            /\ station' = [station EXCEPT !.todo = station.todo \ {j},
                                          !.wait = IF station.win[j].ack THEN j ELSE 0]
            /\ Receive(station.win[j]) \/ UNCHANGED <<devVars, log>>
            /\ UNCHANGED <<read, confirmed, sinceClear, lapses>>
<1> DEFINE j == CHOOSE i \in station.todo : \A u \in station.todo : i <= u
<1>1. station.todo \in SUBSET Nat /\ station.todo # {}
  BY DEF StationOK, Transmits
<1>2. \E i \in station.todo : \A u \in station.todo : i <= u
  BY <1>1, LeastOf
<1>3. j \in station.todo /\ \A u \in station.todo : j <= u
  BY <1>2
<1>4. /\ station' = [station EXCEPT !.todo = station.todo \ {j},
                                    !.wait = IF station.win[j].ack THEN j ELSE 0]
      /\ Receive(station.win[j]) \/ UNCHANGED <<devVars, log>>
      /\ UNCHANGED <<read, confirmed, sinceClear, lapses>>
  BY DEF Transmits
<1> HIDE DEF j
<1>5. /\ j \in DOMAIN station.win
      /\ WellFormed(station.win[j]) /\ station.win[j].msg <= station.offered
  BY <1>3 DEF StationOK
<1> QED BY <1>3, <1>4, <1>5

LEMMA ConfirmIs ==
    ASSUME StationOK, NEW iter, NEW has, Confirm(iter, has)
    PROVE \/ UNCHANGED <<station, confirmed>>
          \/ /\ station.wait # 0
             /\ station' = [station EXCEPT !.win = <<>>, !.wait = 0, !.tries = 0, !.clear = TRUE]
             /\ confirmed' = confirmed \/ confirmed' = confirmed \cup Covered(station.win)
          \/ \E missing \in SUBSET (1 .. station.wait - 1) : \E last \in missing :
               /\ station.wait # 0
               /\ \A u \in missing : last >= u
               /\ station' = [station EXCEPT !.todo = missing, !.wait = 0,
                                             !.win[last].ack = TRUE]
               /\ confirmed' = confirmed
<1> DEFINE w == station.wait
           missing == {i \in 1 .. w - 1 : station.win[i].iter \notin has}
           last == CHOOSE i \in missing : \A u \in missing : i >= u
<1>1. w \in Nat
  BY DEF StationOK
<1>2. CASE w = 0 \/ station.win[w].iter # iter
  BY <1>2 DEF Confirm
<1>3. CASE ~(w = 0 \/ station.win[w].iter # iter) /\ missing = {}
  BY <1>3 DEF Confirm
<1>4. CASE ~(w = 0 \/ station.win[w].iter # iter) /\ missing # {}
  <2>1. missing \in SUBSET (1 .. w - 1) /\ missing \in SUBSET Nat /\ \A i \in missing : i <= w
    BY <1>1
  <2>2. /\ station' = [station EXCEPT !.todo = missing, !.wait = 0, !.win[last].ack = TRUE]
        /\ confirmed' = confirmed /\ w # 0
    BY <1>4 DEF Confirm
  <2> HIDE DEF missing
  <2>3. \E i \in missing : \A u \in missing : i >= u
    BY <1>1, <1>4, <2>1, GreatestOf
  <2>4. last \in missing /\ \A u \in missing : last >= u
    BY <2>3
  <2> HIDE DEF last
  <2> QED BY <2>1, <2>2, <2>4
<1> QED BY <1>2, <1>3, <1>4

-----------------------------------------------------------------------------
(***************************************************************************)
(* RxInv is inductive.                                                     *)
(***************************************************************************)
LEMMA RxInit == Init => RxInv
<1> SUFFICES ASSUME Init PROVE RxInv
  OBVIOUS
<1>1. 0 \in Slots /\ 0 \in 0 .. QueueSize - 1 /\ 0 \in 0 .. MaxMsgs
  BY DEF Slots
<1>2. Zero \in Frame
  BY <1>1 DEF Zero, Frame, Kinds
<1>3. buf \in [Slots -> Cell] /\ \A s \in Slots : buf[s].st = "FREE"
  BY <1>2 DEF Init, Cell, States
<1>4. queue \in [0 .. QueueSize - 1 -> [ready : BOOLEAN, pos : Nat]]
  BY DEF Init
<1>5. ackPkt \in [iter : Slots \cup {None}, has : SUBSET Slots]
  BY DEF Init, NoAck
<1>6. log \in Seq(Msgs \cup {Mixed}) /\ read \in Seq(Nat)
  BY EmptySeq DEF Init
<1>7. TypeOK
  BY <1>1, <1>3, <1>4, <1>5, <1>6 DEF TypeOK, Init, Cell
<1>8. <<>> \in Seq(Frame) /\ DOMAIN station.win = {}
  BY EmptySeq DEF Init
<1>9. StationOK
  BY <1>1, <1>8 DEF StationOK, Init
<1>10. RingOK(buf, station.offered)
  BY <1>3 DEF RingOK
<1>11. Complete(buf) = {}
  BY <1>3 DEF Complete, Received
<1>12. Asks
  BY <1>8 DEF Asks, Init
<1> QED BY <1>7, <1>9, <1>10, <1>11, <1>12 DEF RxInv

LEMMA ReceiveKeeps ==
    ASSUME RxInv, NEW f, WellFormed(f), f.msg <= station.offered, Receive(f)
    PROVE /\ RingOK(buf', station.offered) /\ Complete(buf') = {}
          /\ Shrinks(Written(f), buf')
          /\ dlIter' \in Slots /\ notCleared' \in BOOLEAN
          /\ head' \in 0 .. QueueSize - 1
          /\ queue' \in [0 .. QueueSize - 1 -> [ready : BOOLEAN, pos : Nat]]
          /\ ackPkt' \in [iter : Slots \cup {None}, has : SUBSET Slots]
          /\ log' \in Seq(Msgs \cup {Mixed})
          /\ \/ queue' = queue /\ head' = head /\ log' = log
             \/ \E p \in (1 .. station.offered) \cup {Mixed} :
                  /\ queue' = [queue EXCEPT ![head] = [ready |-> TRUE, pos |-> Len(log) + 1]]
                  /\ head' = (head + 1) % QueueSize
                  /\ log' = Append(log, p)
<1>1. PICK x : /\ Handed1(Written(f), f.iter, x)
               /\ buf' = x.buf /\ HandOver(x.out)
               /\ ackPkt' = IF f.ack /\ ackPkt = NoAck
                            THEN [iter |-> f.iter, has |-> AckMask(x.buf, f.iter)]
                            ELSE ackPkt
  BY ReceiveIs
<1>2. /\ f.iter \in Slots /\ station.offered \in 0 .. MaxMsgs /\ TypeOK
      /\ dlIter' = f.iter /\ notCleared' = (notCleared \/ IsStart(f))
      /\ RingOK(Written(f), station.offered) /\ Fresh(Written(f), f.iter)
  BY ReceiveIs, WrittenIs DEF WellFormed, Frame, RxInv, StationOK
<1>3. /\ Shrinks(Written(f), buf') /\ RingOK(buf', station.offered) /\ Complete(buf') = {}
      /\ x.out = <<>> \/ \E p \in (1 .. station.offered) \cup {Mixed} : x.out = <<p>>
  <2> DEFINE b == Written(f)
             m == station.offered
             d == f.iter
  <2>1. /\ m \in 0 .. MaxMsgs /\ RingOK(b, m) /\ d \in Slots /\ Fresh(b, d)
        /\ Handed1(b, d, x) /\ buf' = x.buf
    BY <1>1, <1>2
  <2> HIDE DEF b, m, d
  <2>2. /\ Shrinks(b, x.buf) /\ RingOK(x.buf, m) /\ Complete(x.buf) = {}
        /\ x.out = <<>> \/ \E p \in (1 .. m) \cup {Mixed} : x.out = <<p>>
    BY <2>1, DrainRing
  <2> QED BY <2>1, <2>2, Zenon DEF b, m, d
<1>4. notCleared' \in BOOLEAN
  BY <1>2
<1>5. ackPkt' \in [iter : Slots \cup {None}, has : SUBSET Slots]
  <2>1. AckMask(x.buf, f.iter) \in SUBSET Slots
    BY DEF AckMask
  <2> QED BY <1>1, <1>2, <2>1 DEF TypeOK
<1>6. CASE x.out = <<>>
  <2>1. queue' = queue /\ head' = head /\ log' = log
    BY <1>1, <1>2, <1>6, HandOverIs
  <2> QED BY <1>2, <1>3, <1>4, <1>5, <2>1 DEF TypeOK
<1>7. ASSUME NEW p \in (1 .. station.offered) \cup {Mixed}, x.out = <<p>>
      PROVE /\ queue' = [queue EXCEPT ![head] = [ready |-> TRUE, pos |-> Len(log) + 1]]
            /\ head' = (head + 1) % QueueSize
            /\ log' = Append(log, p)
            /\ head' \in 0 .. QueueSize - 1
            /\ queue' \in [0 .. QueueSize - 1 -> [ready : BOOLEAN, pos : Nat]]
            /\ log' \in Seq(Msgs \cup {Mixed})
  <2>1. /\ queue' = [queue EXCEPT ![head] = [ready |-> TRUE, pos |-> Len(log) + 1]]
        /\ head' = (head + 1) % QueueSize
        /\ log' = Append(log, p)
    BY <1>1, <1>2, <1>7, HandOverIs
  <2>2. log \in Seq(Msgs \cup {Mixed}) /\ p \in Msgs \cup {Mixed}
    BY <1>2 DEF TypeOK, Msgs
  <2>3. Len(log) \in Nat /\ Append(log, p) \in Seq(Msgs \cup {Mixed})
    BY <2>2, LenProperties, AppendProperties
  <2>4. /\ queue \in [0 .. QueueSize - 1 -> [ready : BOOLEAN, pos : Nat]]
        /\ head \in 0 .. QueueSize - 1
    BY <1>2 DEF TypeOK
  <2>5. (head + 1) % QueueSize \in 0 .. QueueSize - 1
    BY <2>4, DivMod
  <2>6. [ready |-> TRUE, pos |-> Len(log) + 1] \in [ready : BOOLEAN, pos : Nat]
    BY <2>3
  <2> QED BY <2>1, <2>3, <2>4, <2>5, <2>6
<1> QED BY <1>2, <1>3, <1>4, <1>5, <1>6, <1>7

LEMMA OffersRx ==
    ASSUME RxInv, Offers PROVE RxInv'
<1> DEFINE k == Len(station.win)
<1>0. StationOK /\ TypeOK
  BY DEF RxInv
<1>1. PICK size \in Sizes : Grows(size, k, Packets(size))
  BY <1>0, OffersIs
<1>2. /\ station.offered \in 0 .. MaxMsgs /\ station.offered < MaxMsgs
      /\ station.wait = 0 /\ k \in Nat /\ DOMAIN station.win = 1 .. k
      /\ Packets(size) \in 1 .. IterMod - 1
  BY <1>0, <1>1, OffersIs, WindowIs DEF StationOK, Grows
<1> HIDE DEF k
<1> DEFINE n == Packets(size)
<1>3. /\ station'.win \in Seq(Frame) /\ Len(station'.win) = k + n
      /\ \A i \in 1 .. k : station'.win[i] = station.win[i]
      /\ \A i \in k + 1 .. k + n : station'.win[i] = Offered(size, i - k - 1)
  BY <1>1 DEF Grows
<1>4. DOMAIN station'.win = 1 .. k + n
  BY <1>3, LenProperties
<1>5. At(station.iter + n) \in Slots
  <2>1. station.iter + n \in Int
    BY <1>0, <1>2 DEF StationOK, Slots
  <2> QED BY <2>1, AtType
<1>6. /\ station'.offered = station.offered + 1 /\ station'.todo = k + 1 .. k + n
      /\ station'.wait = 0
      /\ station' \in [offered : 0 .. MaxMsgs, iter : Slots, win : Seq(Frame),
                    todo : SUBSET Nat, wait : Nat, tries : Nat, clear : BOOLEAN]
  <2>1. station \in [offered : 0 .. MaxMsgs, iter : Slots, win : Seq(Frame),
                    todo : SUBSET Nat, wait : Nat, tries : Nat, clear : BOOLEAN]
    BY <1>0 DEF StationOK
  <2>2. station.offered + 1 \in 0 .. MaxMsgs /\ k + 1 .. k + n \in SUBSET Nat
    BY <1>2
  <2>3. station' = [station EXCEPT !.offered = station.offered + 1,
                                   !.iter = At(station.iter + n),
                                   !.win = station'.win,
                                   !.todo = k + 1 .. k + n]
    BY <1>1 DEF Grows
  <2> HIDE DEF n
  <2>4. PICK win, todo, iter, m :
          /\ win = station'.win /\ todo = k + 1 .. k + n
          /\ iter = At(station.iter + n) /\ m = station.offered + 1
    OBVIOUS
  <2>5. station' = [station EXCEPT !.offered = m, !.iter = iter, !.win = win, !.todo = todo]
    BY <2>3, <2>4, Zenon
  <2>6. win \in Seq(Frame) /\ todo \in SUBSET Nat /\ iter \in Slots /\ m \in 0 .. MaxMsgs
    BY <1>3, <1>5, <2>2, <2>4, Zenon
  <2>7. /\ station'.offered = m /\ station'.todo = todo
        /\ station'.wait = station.wait
        /\ station' \in [offered : 0 .. MaxMsgs, iter : Slots, win : Seq(Frame),
                         todo : SUBSET Nat, wait : Nat, tries : Nat, clear : BOOLEAN]
    BY <2>1, <2>5, <2>6
  <2> QED BY <1>2, <2>4, <2>7, Zenon
<1> HIDE DEF n
<1>7. ASSUME NEW j \in 1 .. k + n
      PROVE WellFormed(station'.win[j]) /\ station'.win[j].msg <= station'.offered
  <2>1. CASE j <= k
    <3>1. WellFormed(station.win[j]) /\ station.win[j].msg <= station.offered
      BY <1>0, <1>2, <2>1 DEF StationOK
    <3>2. station'.win[j] = station.win[j] /\ station.win[j].msg \in Nat
      BY <1>2, <1>3, <2>1, <3>1 DEF WellFormed, Msgs
    <3> QED BY <1>2, <1>6, <3>1, <3>2
  <2>2. CASE j > k
    <3>0. n \in 1 .. IterMod - 1
      BY <1>2 DEF n
    <3>1. j - k - 1 \in 0 .. n - 1 /\ station'.win[j] = Offered(size, j - k - 1)
      <4>1. j \in k + 1 .. k + n /\ j - k - 1 \in 0 .. n - 1
        BY <1>2, <2>2, <3>0
      <4> QED BY <1>3, <4>1
    <3>2. WellFormed(Offered(size, j - k - 1))
      BY <1>0, <1>2, <3>1, OfferedType DEF n
    <3>3. Offered(size, j - k - 1).msg = station.offered + 1
      BY DEF Offered
    <3> QED BY <1>2, <1>6, <3>1, <3>2, <3>3
  <2> QED BY <1>2, <2>1, <2>2
<1>8. StationOK'
  BY <1>2, <1>4, <1>6, <1>7 DEF StationOK
<1>12. Asks'
  <2>1. n \in 1 .. IterMod - 1 /\ station.wait = 0 /\ station.todo = {}
    BY <1>0, <1>2, OffersIs DEF n
  <2>2. \A i \in 1 .. k : ~station'.win[i].ack
    BY <1>2, <1>3, <2>1 DEF RxInv, Asks
  <2>3. ASSUME NEW i \in k + 1 .. k + n, station'.win[i].ack PROVE i = k + n
    <3>1. Offered(size, i - k - 1).ack
      BY <1>3, <2>3
    <3>2. i - k - 1 = n - 1
      BY <3>1 DEF Offered, n
    <3> QED BY <1>2, <2>1, <3>2
  <2>4. \A i \in 1 .. k + n : station'.win[i].ack => i = k + n
    BY <1>2, <2>1, <2>2, <2>3
  <2>5. k + n \in station'.todo
    BY <1>2, <1>6, <2>1
  <2>6. \A t \in station'.todo : t <= k + n
    BY <1>2, <1>6, <2>1
  <2>7. \A t \in station'.todo : t = k + n \/ \E u \in station'.todo : u > t
    BY <1>2, <1>6, <2>1
  <2>8. \A i \in 1 .. k + n : station'.win[i].ack =>
          0 <= i /\ \A t \in station'.todo : t <= i
    BY <1>2, <2>1, <2>4, <2>6
  <2>9. /\ station'.wait = 0 /\ DOMAIN station'.win = 1 .. k + n /\ Len(station'.win) = k + n
        /\ station'.todo # {}
    BY <1>3, <1>4, <1>6, <2>5
  <2> QED BY <2>7, <2>8, <2>9 DEF Asks
<1>9. UNCHANGED devVars /\ UNCHANGED <<log, read, confirmed>>
  BY DEF Offers
<1>10. TypeOK'
  BY <1>0, <1>9 DEF TypeOK, devVars
<1>11. RingOK(buf', station'.offered) /\ Complete(buf') = {}
  <2>1. buf' = buf
    BY <1>9 DEF devVars
  <2>2. RingOK(buf, station.offered + 1)
    <3>1. \A s \in Slots : buf[s].st # "FREE" => buf[s].f.msg \in Nat
      BY DEF RxInv, RingOK, WellFormed, Msgs
    <3> QED BY <1>2, <3>1 DEF RxInv, RingOK
  <2> QED BY <1>6, <2>1, <2>2 DEF RxInv
<1> QED BY <1>8, <1>10, <1>11, <1>12 DEF RxInv

\* The frames of the window and what was offered stay as they are.
LEMMA StationStays ==
    ASSUME StationOK,
           station' \in [offered : 0 .. MaxMsgs, iter : Slots, win : Seq(Frame),
                         todo : SUBSET Nat, wait : Nat, tries : Nat, clear : BOOLEAN],
           station'.offered = station.offered,
           station'.win = station.win,
           station'.todo \subseteq DOMAIN station.win,
           station'.wait \in {0} \cup DOMAIN station.win
    PROVE StationOK'
BY DEF StationOK

LEMMA TransmitsRx ==
    ASSUME RxInv, Transmits PROVE RxInv'
<1>0. StationOK /\ TypeOK
  BY DEF RxInv
<1>1. PICK j \in station.todo :
        /\ \A u \in station.todo : j <= u
        /\ j \in DOMAIN station.win
        /\ WellFormed(station.win[j]) /\ station.win[j].msg <= station.offered
        /\ station' = [station EXCEPT !.todo = station.todo \ {j},
                                      !.wait = IF station.win[j].ack THEN j ELSE 0]
        /\ Receive(station.win[j]) \/ UNCHANGED <<devVars, log>>
        /\ UNCHANGED <<read, confirmed, sinceClear, lapses>>
  BY <1>0, TransmitsIs
<1>2. /\ DOMAIN station.win = 1 .. Len(station.win) /\ Len(station.win) \in Nat
      /\ station.todo \subseteq DOMAIN station.win
  BY <1>0, WindowIs
<1>3. StationOK' /\ Asks' /\ station'.offered = station.offered
  <2>1. station \in [offered : 0 .. MaxMsgs, iter : Slots, win : Seq(Frame),
                    todo : SUBSET Nat, wait : Nat, tries : Nat, clear : BOOLEAN]
    BY <1>0 DEF StationOK
  <2>2. PICK w : w = IF station.win[j].ack THEN j ELSE 0
    OBVIOUS
  <2>3. w \in Nat /\ w \in {0} \cup DOMAIN station.win
    BY <1>1, <1>2, <2>2
  <2>4. station' = [station EXCEPT !.todo = station.todo \ {j}, !.wait = w]
    BY <1>1, <2>2
  <2>5. /\ station' \in [offered : 0 .. MaxMsgs, iter : Slots, win : Seq(Frame),
                         todo : SUBSET Nat, wait : Nat, tries : Nat, clear : BOOLEAN]
        /\ station'.offered = station.offered /\ station'.win = station.win
        /\ station'.todo = station.todo \ {j} /\ station'.wait = w
    BY <2>1, <2>3, <2>4
  <2>6. station'.todo \subseteq DOMAIN station.win
    BY <1>2, <2>5
  <2>7. Asks'
    <3>0. Asks /\ station.wait \in Nat
      BY <1>0 DEF RxInv, StationOK
    <3>1. CASE station.win[j].ack
      <4>1. \A t \in station.todo : t <= j
        BY <1>1, <3>0, <3>1 DEF Asks
      <4>2. station'.todo = {} /\ w = j /\ j # 0
        BY <1>1, <1>2, <2>2, <2>5, <3>1, <4>1
      <4>3. \A i \in DOMAIN station.win : station.win[i].ack => j <= i
        BY <1>1, <3>0 DEF Asks
      <4> QED BY <2>5, <3>1, <4>2, <4>3 DEF Asks
    <3>2. CASE ~station.win[j].ack
      <4>1. w = 0 /\ station'.todo = station.todo \ {j}
        BY <2>2, <2>5, <3>2
      <4>2. j = Len(station.win) \/ \E u \in station.todo : u > j
        BY <1>1, <3>0, <3>2 DEF Asks
      <4>3. ASSUME NEW i \in DOMAIN station.win, station.win[i].ack
            PROVE station'.todo # {} /\ \A t \in station'.todo : t <= i
        <5>1. \A t \in station.todo : t <= i
          BY <3>0, <4>3 DEF Asks
        <5>2. i # j /\ j <= i /\ i <= Len(station.win)
          BY <1>1, <1>2, <3>2, <4>3, <5>1
        <5>3. PICK u \in station.todo : u > j
          BY <1>2, <4>2, <5>2
        <5> QED BY <1>2, <4>1, <5>1, <5>3
      <4>4. ASSUME NEW t \in station'.todo
            PROVE station.win[t].ack \/ t = Len(station.win) \/ \E u \in station'.todo : u > t
        <5>1. t \in station.todo /\ t > j
          BY <1>1, <1>2, <4>1
        <5> QED BY <1>2, <3>0, <4>1, <5>1 DEF Asks
      <4> QED BY <1>2, <2>5, <4>1, <4>3, <4>4 DEF Asks
    <3> QED BY <3>1, <3>2
  <2> QED BY <1>0, <2>3, <2>5, <2>6, <2>7, StationStays
<1>4. CASE Receive(station.win[j])
  <2>1. /\ RingOK(buf', station.offered) /\ Complete(buf') = {}
        /\ dlIter' \in Slots /\ notCleared' \in BOOLEAN
        /\ head' \in 0 .. QueueSize - 1
        /\ queue' \in [0 .. QueueSize - 1 -> [ready : BOOLEAN, pos : Nat]]
        /\ ackPkt' \in [iter : Slots \cup {None}, has : SUBSET Slots]
        /\ log' \in Seq(Msgs \cup {Mixed})
    BY <1>1, <1>4, ReceiveKeeps
  <2>2. TypeOK'
    BY <1>0, <1>1, <2>1 DEF TypeOK, RingOK, Cell
  <2> QED BY <1>3, <2>1, <2>2 DEF RxInv
<1>5. CASE UNCHANGED <<devVars, log>>
  <2>1. TypeOK'
    BY <1>0, <1>1, <1>5 DEF TypeOK, devVars
  <2> QED BY <1>3, <1>5, <2>1 DEF RxInv, devVars
<1> QED BY <1>1, <1>4, <1>5

LEMMA ConfirmRx ==
    ASSUME StationOK, Asks, confirmed \subseteq Msgs, NEW iter, NEW has, Confirm(iter, has)
    PROVE StationOK' /\ Asks' /\ station'.offered = station.offered /\ confirmed' \subseteq Msgs
<1>0. station \in [offered : 0 .. MaxMsgs, iter : Slots, win : Seq(Frame),
                   todo : SUBSET Nat, wait : Nat, tries : Nat, clear : BOOLEAN]
  BY DEF StationOK
<1>1. CASE UNCHANGED <<station, confirmed>>
  BY <1>1 DEF StationOK, Asks
<1>2. CASE /\ station.wait # 0
           /\ station' = [station EXCEPT !.win = <<>>, !.wait = 0, !.tries = 0, !.clear = TRUE]
           /\ confirmed' = confirmed \/ confirmed' = confirmed \cup Covered(station.win)
  <2>1. Covered(station.win) \subseteq Msgs
    BY DEF StationOK, Covered, WellFormed
  <2>2. <<>> \in Seq(Frame) /\ DOMAIN <<>> = {}
    BY EmptySeq
  <2>3. /\ station'.win = <<>> /\ station'.wait = 0 /\ station'.todo = station.todo
        /\ station'.offered = station.offered
    BY <1>0, <1>2
  <2>4. station' \in [offered : 0 .. MaxMsgs, iter : Slots, win : Seq(Frame),
                      todo : SUBSET Nat, wait : Nat, tries : Nat, clear : BOOLEAN]
    BY <1>0, <1>2, <2>2
  <2>5. station.todo = {}
    BY <1>2 DEF Asks
  <2> QED BY <1>2, <2>1, <2>2, <2>3, <2>4, <2>5 DEF StationOK, Asks
<1>3. ASSUME NEW missing \in SUBSET (1 .. station.wait - 1), NEW last \in missing,
             station.wait # 0, \A u \in missing : last >= u,
             station' = [station EXCEPT !.todo = missing, !.wait = 0, !.win[last].ack = TRUE],
             confirmed' = confirmed
      PROVE StationOK' /\ Asks' /\ station'.offered = station.offered /\ confirmed' \subseteq Msgs
  <2>0. /\ Len(station.win) \in Nat /\ DOMAIN station.win = 1 .. Len(station.win)
        /\ station.win \in Seq(Frame)
        /\ station.wait \in 1 .. Len(station.win)
        /\ last \in 1 .. Len(station.win) /\ missing \subseteq 1 .. Len(station.win)
        /\ missing \in SUBSET Nat
    BY <1>3, WindowIs
  <2>1. PICK g : g = [station.win[last] EXCEPT !.ack = TRUE]
    OBVIOUS
  <2>2. station.win[last] \in Frame /\ WellFormed(station.win[last])
        /\ station.win[last].msg <= station.offered
    BY <2>0 DEF StationOK, WellFormed
  <2>3. /\ g \in Frame /\ g.msg = station.win[last].msg /\ g.kind = station.win[last].kind
        /\ g.part = station.win[last].part /\ g.n = station.win[last].n
    BY <2>1, <2>2 DEF Frame
  <2>4. g.multi <=> station.win[last].multi
    BY <2>1, <2>2 DEF Frame
  <2>5. g.ack
    BY <2>1, <2>2 DEF Frame
  <2>6. WellFormed(g)
    BY <2>2, <2>3, <2>4 DEF WellFormed, IsStart
  <2>7. PICK v : v = [station.win EXCEPT ![last] = g]
    OBVIOUS
  <2>8. v \in Seq(Frame) /\ Len(v) = Len(station.win)
        /\ \A i \in 1 .. Len(station.win) : v[i] = IF i = last THEN g ELSE station.win[i]
    BY <2>0, <2>3, <2>7, ExceptSeq
  <2>9. station' = [station EXCEPT !.todo = missing, !.wait = 0, !.win = v]
    BY <1>0, <1>3, <2>1, <2>7
  <2>10. /\ station' \in [offered : 0 .. MaxMsgs, iter : Slots, win : Seq(Frame),
                         todo : SUBSET Nat, wait : Nat, tries : Nat, clear : BOOLEAN]
         /\ station'.offered = station.offered /\ station'.win = v
         /\ station'.todo = missing /\ station'.wait = 0
    BY <1>0, <2>0, <2>8, <2>9
  <2>11. DOMAIN v = 1 .. Len(station.win)
    BY <2>8, LenProperties
  <2>12. \A i \in DOMAIN v : WellFormed(v[i]) /\ v[i].msg <= station.offered
    BY <2>0, <2>2, <2>3, <2>6, <2>8, <2>11 DEF StationOK
  <2>13. StationOK'
    BY <2>0, <2>10, <2>11, <2>12 DEF StationOK
  <2>14. \A i \in 1 .. Len(station.win) : v[i].ack => i >= last
    <3>1. \A i \in 1 .. Len(station.win) : station.win[i].ack => station.wait <= i
      BY <2>0 DEF Asks
    <3> QED BY <2>0, <2>8, <3>1
  <2>15. v[last].ack
    BY <2>0, <2>5, <2>8
  <2>16. \A t \in missing : t = last \/ last > t
    BY <1>3, <2>0
  <2>17. \A i \in 1 .. Len(station.win) : v[i].ack => \A t \in missing : t <= i
    BY <1>3, <2>0, <2>14
  <2>18. Asks'
    <3>1. /\ station'.wait = 0 /\ station'.todo = missing /\ station'.win = v
          /\ DOMAIN v = 1 .. Len(station.win) /\ missing # {}
      BY <2>10, <2>11
    <3>2. \A i \in 1 .. Len(station.win) : v[i].ack => 0 <= i
      OBVIOUS
    <3>3. \A t \in missing : v[t].ack \/ \E u \in missing : u > t
      BY <2>15, <2>16
    <3> QED BY <2>17, <3>1, <3>2, <3>3 DEF Asks
  <2> QED BY <1>3, <2>10, <2>13, <2>18
<1> QED BY <1>1, <1>2, <1>3, ConfirmIs

LEMMA SendAckRx ==
    ASSUME RxInv, SendAck PROVE RxInv'
<1>0. TypeOK /\ StationOK /\ Asks
  BY DEF RxInv
<1>1. /\ UNCHANGED <<buf, dlIter, notCleared, queue, head, log, read, sinceClear, lapses>>
      /\ ackPkt' = NoAck
      /\ Confirm(ackPkt.iter, ackPkt.has) \/ UNCHANGED <<station, confirmed>>
  BY DEF SendAck
<1>2. StationOK' /\ Asks' /\ station'.offered = station.offered /\ confirmed' \subseteq Msgs
  <2>1. CASE Confirm(ackPkt.iter, ackPkt.has)
    BY <1>0, <2>1, ConfirmRx DEF TypeOK
  <2>2. CASE UNCHANGED <<station, confirmed>>
    BY <1>0, <2>2 DEF TypeOK, StationOK, Asks
  <2> QED BY <1>1, <2>1, <2>2
<1>3. NoAck \in [iter : Slots \cup {None}, has : SUBSET Slots]
  BY DEF NoAck
<1>4. TypeOK'
  BY <1>0, <1>1, <1>2, <1>3 DEF TypeOK
<1> QED BY <1>1, <1>2, <1>4 DEF RxInv

LEMMA TimeoutRx ==
    ASSUME RxInv, Timeout PROVE RxInv'
<1>0. TypeOK /\ StationOK /\ Asks
  BY DEF RxInv
<1>1. UNCHANGED <<devVars, histVars, lapses>> /\ station.wait # 0
  BY DEF Timeout
<1>2. station \in [offered : 0 .. MaxMsgs, iter : Slots, win : Seq(Frame),
                   todo : SUBSET Nat, wait : Nat, tries : Nat, clear : BOOLEAN]
  BY <1>0 DEF StationOK
<1>3. CASE station' = [station EXCEPT !.todo = {station.wait}, !.wait = 0, !.tries = @ + 1]
  <2>1. /\ station' \in [offered : 0 .. MaxMsgs, iter : Slots, win : Seq(Frame),
                         todo : SUBSET Nat, wait : Nat, tries : Nat, clear : BOOLEAN]
        /\ station'.offered = station.offered /\ station'.win = station.win
        /\ station'.todo = {station.wait} /\ station'.wait = 0
    <3>1. PICK t, n : t = {station.wait} /\ n = station.tries + 1
      OBVIOUS
    <3>2. t \in SUBSET Nat /\ n \in Nat
      BY <1>2, <3>1
    <3>3. station' = [station EXCEPT !.todo = t, !.wait = 0, !.tries = n]
      BY <1>3, <3>1
    <3> QED BY <1>2, <3>1, <3>2, <3>3
  <2>2. StationOK'
    BY <1>0, <1>1, <2>1, WindowIs, StationStays
  <2>3. Asks'
    <3>1. /\ station.win[station.wait].ack
          /\ \A i \in DOMAIN station.win : station.win[i].ack => station.wait <= i
      BY <1>0, <1>1 DEF Asks
    <3>2. \A i \in DOMAIN station.win : 0 <= i
      BY <1>0, WindowIs
    <3> QED BY <2>1, <3>1, <3>2 DEF Asks
  <2> QED BY <1>0, <1>1, <2>1, <2>2, <2>3 DEF RxInv, TypeOK, devVars, histVars
<1>4. CASE station' = [station EXCEPT !.win = <<>>, !.wait = 0, !.tries = 0]
  <2>1. <<>> \in Seq(Frame) /\ DOMAIN <<>> = {}
    BY EmptySeq
  <2>2. station.todo = {}
    BY <1>0, <1>1 DEF Asks
  <2>3. /\ station' \in [offered : 0 .. MaxMsgs, iter : Slots, win : Seq(Frame),
                         todo : SUBSET Nat, wait : Nat, tries : Nat, clear : BOOLEAN]
        /\ station'.offered = station.offered /\ station'.win = <<>>
        /\ station'.todo = {} /\ station'.wait = 0
    BY <1>2, <1>4, <2>1, <2>2
  <2>4. StationOK' /\ Asks'
    BY <2>1, <2>3 DEF StationOK, Asks
  <2> QED BY <1>0, <1>1, <2>3, <2>4 DEF RxInv, TypeOK, devVars, histVars
<1> QED BY <1>3, <1>4 DEF Timeout

LEMMA SendClearRx ==
    ASSUME RxInv, SendClear PROVE RxInv'
<1>0. TypeOK /\ StationOK /\ Asks
  BY DEF RxInv
<1>1. /\ station' = [station EXCEPT !.clear = FALSE]
      /\ \/ /\ buf' = Clear(buf, None, FALSE)
            /\ notCleared' = FALSE
            /\ sinceClear' = 0
            /\ UNCHANGED <<dlIter, queue, head, ackPkt>>
         \/ UNCHANGED <<devVars, sinceClear>>
      /\ UNCHANGED <<log, read, confirmed, lapses>>
  BY DEF SendClear
<1>2. station \in [offered : 0 .. MaxMsgs, iter : Slots, win : Seq(Frame),
                   todo : SUBSET Nat, wait : Nat, tries : Nat, clear : BOOLEAN]
  BY <1>0 DEF StationOK
<1>3. /\ station' \in [offered : 0 .. MaxMsgs, iter : Slots, win : Seq(Frame),
                       todo : SUBSET Nat, wait : Nat, tries : Nat, clear : BOOLEAN]
      /\ station'.offered = station.offered /\ station'.win = station.win
      /\ station'.todo = station.todo /\ station'.wait = station.wait
  BY <1>1, <1>2
<1>4. StationOK' /\ Asks'
  BY <1>0, <1>3 DEF StationOK, Asks
<1>5. RingOK(buf', station.offered) /\ Complete(buf') = {} /\ buf' \in [Slots -> Cell]
  <2>1. RingOK(Clear(buf, None, FALSE), station.offered)
        /\ Complete(Clear(buf, None, FALSE)) = {}
    <3>1. RingOK(buf, station.offered) /\ Complete(buf) = {}
      BY DEF RxInv
    <3>2. /\ Shrinks(buf, Clear(buf, None, FALSE))
          /\ RingOK(Clear(buf, None, FALSE), station.offered)
      BY <3>1, ClearShrinks
    <3> QED BY <3>1, <3>2, ShrinkComplete
  <2>2. buf' = Clear(buf, None, FALSE) \/ buf' = buf
    BY <1>1 DEF devVars
  <2>3. RingOK(buf', station.offered) /\ Complete(buf') = {}
    <3>1. RingOK(buf, station.offered) /\ Complete(buf) = {}
      BY DEF RxInv
    <3>2. CASE buf' = buf
      BY <3>1, <3>2
    <3>3. CASE buf' = Clear(buf, None, FALSE)
      <4> DEFINE c == Clear(buf, None, FALSE)
      <4> HIDE DEF c
      <4>1. RingOK(c, station.offered) /\ Complete(c) = {} /\ buf' = c
        BY <2>1, <3>3 DEF c
      <4> QED BY <4>1
    <3> QED BY <2>2, <3>2, <3>3
  <2> QED BY <2>3 DEF RingOK
<1>6. TypeOK'
  BY <1>0, <1>1, <1>5 DEF TypeOK, Cell, devVars
<1> QED BY <1>3, <1>4, <1>5, <1>6 DEF RxInv

LEMMA NextReadyIs ==
    ASSUME TypeOK, Ready(queue) # {}
    PROVE /\ NextReady(queue, head) \in Ready(queue)
          /\ \A j \in Ready(queue) : QAge(head, NextReady(queue, head)) <= QAge(head, j)
<1>1. head \in 0 .. QueueSize - 1 /\ DOMAIN queue = 0 .. QueueSize - 1
      /\ QueueSize \in Nat \ {0}
  BY DEF TypeOK
<1>2. \A i \in Ready(queue) : QAge(head, i) \in Nat
  <2>1. ASSUME NEW i \in Ready(queue) PROVE QAge(head, i) \in Nat
    <3>1. i - head + QueueSize \in Int
      BY <1>1 DEF Ready
    <3>2. (i - head + QueueSize) % QueueSize \in 0 .. QueueSize - 1
      BY <1>1, <3>1, DivMod
    <3> QED BY <1>1, <3>2 DEF QAge
  <2> QED BY <2>1
<1> DEFINE T == {QAge(head, i) : i \in Ready(queue)}
<1>3. T \in SUBSET Nat /\ T # {}
  BY <1>2
<1>4. PICK n \in T : \A k \in T : n <= k
  <2> HIDE DEF T
  <2> QED BY <1>3, LeastOf
<1>5. \E i \in Ready(queue) : \A j \in Ready(queue) : QAge(head, i) <= QAge(head, j)
  BY <1>4
<1> QED BY <1>5 DEF NextReady

LEMMA AppReadRx ==
    ASSUME RxInv, AppRead PROVE RxInv'
<1>0. TypeOK /\ StationOK /\ Asks
  BY DEF RxInv
<1> DEFINE i == NextReady(queue, head)
<1>1. /\ read' = Append(read, queue[i].pos)
      /\ queue' = [queue EXCEPT ![i].ready = FALSE]
      /\ UNCHANGED <<buf, dlIter, notCleared, head, ackPkt, station, log, confirmed,
                     sinceClear, lapses>>
      /\ i \in Ready(queue)
  BY <1>0, NextReadyIs DEF AppRead
<1> HIDE DEF i
<1>2. /\ i \in 0 .. QueueSize - 1 /\ queue[i] \in [ready : BOOLEAN, pos : Nat]
      /\ queue \in [0 .. QueueSize - 1 -> [ready : BOOLEAN, pos : Nat]]
      /\ read \in Seq(Nat)
  BY <1>0, <1>1 DEF TypeOK, Ready
<1>3. read' \in Seq(Nat)
  BY <1>1, <1>2, AppendProperties
<1>4. queue' \in [0 .. QueueSize - 1 -> [ready : BOOLEAN, pos : Nat]]
  BY <1>1, <1>2
<1>5. TypeOK'
  BY <1>0, <1>1, <1>3, <1>4 DEF TypeOK
<1> QED BY <1>0, <1>1, <1>5 DEF RxInv, StationOK, Asks

LEMMA TenMinutesRx ==
    ASSUME RxInv, TenMinutes PROVE RxInv'
<1>0. TypeOK /\ StationOK /\ Asks
  BY DEF RxInv
<1>1. /\ buf' = [s \in Slots |-> [buf[s] EXCEPT !.old = TRUE]]
      /\ UNCHANGED <<dlIter, notCleared, queue, head, ackPkt, station, histVars>>
  BY DEF TenMinutes
<1>2. ASSUME NEW s \in Slots
      PROVE buf'[s] \in Cell /\ buf'[s].f = buf[s].f /\ buf'[s].st = buf[s].st
  BY <1>0, <1>1 DEF TypeOK, Cell
<1>3. buf' \in [Slots -> Cell]
  BY <1>1, <1>2
<1>4. Shrinks(buf, buf')
  BY <1>2 DEF Shrinks, Received
<1>5. RingOK(buf', station.offered) /\ Complete(buf') = {}
  BY <1>3, <1>4, ShrinkRing, ShrinkComplete DEF RxInv
<1>6. TypeOK'
  BY <1>0, <1>1, <1>3 DEF TypeOK, Cell, histVars
<1> QED BY <1>0, <1>1, <1>5, <1>6 DEF RxInv, StationOK, Asks

LEMMA RxStep == RxInv /\ [Next]_vars => RxInv'
<1> SUFFICES ASSUME RxInv, [Next]_vars PROVE RxInv'
  OBVIOUS
<1>1. CASE UNCHANGED vars
  BY <1>1 DEF RxInv, TypeOK, StationOK, Asks, vars, devVars, histVars
<1> QED BY <1>1, OffersRx, TransmitsRx, SendAckRx, TimeoutRx, SendClearRx, AppReadRx,
           TenMinutesRx DEF Next

\* Types; a written slot of the receive ring holds a well-formed packet of an
\* offered message under its own ITER, and NBFi_ProcessRxPackets leaves nothing
\* that is complete behind (nbfi_transport.c:478-567).
THEOREM RxInvariant == Spec => []RxInv
BY RxInit, RxStep, PTL DEF Spec

\* The transport's ring, its queue and what it hands over keep their types,
\* for every number of ITERs and entries of the queue and whatever the base
\* station repeats (nbfi_transport.c, nbfi_transport_misc.c).
THEOREM RxTypeCorrect == Spec => []TypeOK
<1>1. RxInv => TypeOK
  BY DEF RxInv
<1> QED BY <1>1, RxInvariant, PTL

-----------------------------------------------------------------------------
(***************************************************************************)
(* The part of the CRC in the service below: the model takes the CRC8 of   *)
(* GROUP_START as telling every mix of packets from a message, so that no  *)
(* mix is handed over.                                                     *)
(***************************************************************************)
HandedWhole == Mixed \notin Handed

LEMMA WholeOnly ==
    ASSUME Start = "GROUP_START", NEW b, NEW m, RingOK(b, m), NEW s \in Complete(b),
           ~BadCrc(b, s)
    PROVE Payload(b, s) \in 1 .. m
<1>1. WellFormed(b[s].f) /\ b[s].f.msg \in 1 .. m /\ (~IsGroup(b, s) => ~b[s].f.multi)
  BY CompleteOne
<1>2. CASE IsGroup(b, s)
  <2>1. b[s].f.kind = "GROUP_START"
    BY <1>1, <1>2 DEF IsGroup, IsStart, WellFormed
  <2> QED BY <1>1, <2>1 DEF BadCrc, Payload
<1>3. CASE ~IsGroup(b, s)
  <2>1. b[s].f.part = 0
    BY <1>1, <1>3 DEF WellFormed
  <2> QED BY <1>1, <1>3, <2>1 DEF IsWhole, Payload
<1> QED BY <1>2, <1>3

\* What a reception appends to the history.
LEMMA ReceiveWhole ==
    ASSUME Start = "GROUP_START",
           RxInv, NEW f, WellFormed(f), f.msg <= station.offered, Receive(f)
    PROVE log' = log \/ \E p \in 1 .. station.offered : log' = Append(log, p)
<1>1. PICK x : Handed1(Written(f), f.iter, x) /\ HandOver(x.out)
  BY ReceiveIs
<1>2. RingOK(Written(f), station.offered) /\ TypeOK
  BY WrittenIs DEF RxInv
<1>3. CASE x.out = <<>>
  BY <1>1, <1>2, <1>3, HandOverIs
<1>4. ASSUME NEW s \in Complete(Written(f)), ~BadCrc(Written(f), s),
             x.out = <<Payload(Written(f), s)>>
      PROVE \E p \in 1 .. station.offered : log' = Append(log, p)
  <2>1. Payload(Written(f), s) \in 1 .. station.offered
    BY <1>2, <1>4, WholeOnly
  <2>2. log' = Append(log, Payload(Written(f), s))
    BY <1>1, <1>2, <1>4, HandOverIs
  <2> QED BY <2>1, <2>2
<1> QED BY <1>1, <1>3, <1>4 DEF Handed1

\* The history changes by receptions only.
LEMMA LogStep ==
    ASSUME RxInv, [Next]_vars
    PROVE \/ UNCHANGED <<log, read, queue, head>>
          \/ /\ read' = read
             /\ \E f : WellFormed(f) /\ f.msg <= station.offered /\ Receive(f)
          \/ AppRead
<1>1. CASE Transmits
  <2>1. StationOK
    BY DEF RxInv
  <2>2. PICK j \in station.todo :
          /\ WellFormed(station.win[j]) /\ station.win[j].msg <= station.offered
          /\ Receive(station.win[j]) \/ UNCHANGED <<devVars, log>>
          /\ UNCHANGED <<read, confirmed, sinceClear, lapses>>
    BY <1>1, <2>1, TransmitsIs
  <2> QED BY <2>2 DEF devVars
<1>2. CASE Offers \/ SendAck \/ Timeout \/ SendClear \/ TenMinutes \/ UNCHANGED vars
  BY <1>2 DEF Offers, SendAck, Timeout, SendClear, TenMinutes, vars, devVars, histVars
<1> QED BY <1>1, <1>2 DEF Next

LEMMA WholeInit == Init => HandedWhole
BY DEF Init, HandedWhole, Handed

LEMMA WholeStep ==
    ASSUME Start = "GROUP_START", RxInv, HandedWhole, [Next]_vars
    PROVE HandedWhole'
<1>1. log \in Seq(Msgs \cup {Mixed}) /\ DOMAIN log = 1 .. Len(log) /\ Len(log) \in Nat
  BY LenProperties DEF RxInv, TypeOK
<1>2. CASE log' = log
  BY <1>2 DEF HandedWhole, Handed
<1>3. ASSUME NEW p \in 1 .. station.offered, log' = Append(log, p) PROVE HandedWhole'
  <2>1. p \in Msgs \cup {Mixed} /\ p # Mixed
    BY DEF RxInv, StationOK, Msgs, Mixed
  <2>2. /\ Append(log, p) \in Seq(Msgs \cup {Mixed})
        /\ Len(Append(log, p)) = Len(log) + 1
        /\ \A i \in 1 .. Len(log) : Append(log, p)[i] = log[i]
        /\ Append(log, p)[Len(log) + 1] = p
    BY <1>1, <2>1, AppendProperties
  <2>3. DOMAIN log' = 1 .. Len(log) + 1
    BY <1>3, <2>2, LenProperties
  <2>4. \A i \in 1 .. Len(log) + 1 : log'[i] # Mixed
    BY <1>1, <1>3, <2>1, <2>2 DEF HandedWhole, Handed
  <2> QED BY <2>3, <2>4 DEF HandedWhole, Handed
<1>4. CASE AppRead
  BY <1>2, <1>4 DEF AppRead
<1> QED BY <1>2, <1>3, <1>4, LogStep, ReceiveWhole

LEMMA CrcTellsMixes ==
    ASSUME Start = "GROUP_START"
    PROVE Spec => []HandedWhole
<1>1. RxInv /\ HandedWhole /\ [Next]_vars => HandedWhole'
  BY WholeStep
<1> QED BY <1>1, WholeInit, RxInvariant, PTL DEF Spec

-----------------------------------------------------------------------------
(***************************************************************************)
(* The queue: entry i holds the newest payload whose position is i + 1     *)
(* modulo the size, and what is ready is newer than everything read.       *)
(***************************************************************************)
Cursor(p) == (p - 1) % QueueSize

HeadInv == head = Len(log) % QueueSize

ReadyInv ==
    \A i \in Positions : queue[i].ready =>
        /\ queue[i].pos \in 1 .. Len(log)
        /\ Cursor(queue[i].pos) = i
        /\ queue[i].pos > Len(log) - QueueSize

NewestInv ==
    \A p \in 1 .. Len(log) : p > Len(log) - QueueSize =>
        /\ queue[Cursor(p)].pos = p
        /\ queue[Cursor(p)].ready \/ \E i \in DOMAIN read : read[i] = p

UnreadInv ==
    \A i \in Positions : \A r \in DOMAIN read : queue[i].ready => read[r] < queue[i].pos

ReadInv ==
    \A i \in DOMAIN read : /\ read[i] \in 1 .. Len(log)
                           /\ \A j \in DOMAIN read : i < j => read[i] < read[j]

QueueInv == HeadInv /\ ReadyInv /\ NewestInv /\ UnreadInv /\ ReadInv

LEMMA QueueType ==
    ASSUME TypeOK
    PROVE /\ queue \in [Positions -> [ready : BOOLEAN, pos : Nat]] /\ head \in Positions
          /\ Len(log) \in Nat /\ DOMAIN log = 1 .. Len(log) /\ log \in Seq(Msgs \cup {Mixed})
          /\ Len(read) \in Nat /\ DOMAIN read = 1 .. Len(read) /\ read \in Seq(Nat)
          /\ \A p \in Int : Cursor(p) \in Positions
          /\ QueueSize \in Nat \ {0}
<1>1. ASSUME NEW p \in Int PROVE Cursor(p) \in Positions
  <2>1. p - 1 \in Int /\ QueueSize \in Nat \ {0}
    OBVIOUS
  <2>2. (p - 1) % QueueSize \in 0 .. QueueSize - 1
    BY <2>1, DivMod
  <2> QED BY <2>2 DEF Cursor, Positions
<1>2. log \in Seq(Msgs \cup {Mixed}) /\ read \in Seq(Nat)
  BY DEF TypeOK
<1>3. /\ Len(log) \in Nat /\ DOMAIN log = 1 .. Len(log)
      /\ Len(read) \in Nat /\ DOMAIN read = 1 .. Len(read)
  BY <1>2, LenProperties
<1> QED BY <1>1, <1>2, <1>3 DEF TypeOK, Positions

\* An append to a sequence, element by element.
LEMMA AppendIs ==
    ASSUME NEW S, NEW s \in Seq(S), NEW e
    PROVE /\ Len(Append(s, e)) = Len(s) + 1
          /\ DOMAIN Append(s, e) = 1 .. Len(s) + 1
          /\ \A i \in 1 .. Len(s) : Append(s, e)[i] = s[i]
          /\ Append(s, e)[Len(s) + 1] = e
<1>1. s \in Seq(S \cup {e}) /\ e \in S \cup {e}
  OBVIOUS
<1>2. /\ Append(s, e) \in Seq(S \cup {e})
      /\ Len(Append(s, e)) = Len(s) + 1
      /\ \A i \in 1 .. Len(s) : Append(s, e)[i] = s[i]
      /\ Append(s, e)[Len(s) + 1] = e
  BY <1>1, AppendProperties
<1> QED BY <1>2, LenProperties

LEMMA QueueInit == Init => QueueInv
<1> SUFFICES ASSUME Init PROVE QueueInv
  OBVIOUS
<1>1. log = <<>> /\ read = <<>> /\ Len(log) = 0 /\ DOMAIN read = {} /\ head = 0
  BY DEF Init
<1>2. \A i \in Positions : ~queue[i].ready
  BY DEF Init, Positions
<1>3. 0 % QueueSize = 0
  <2>1. QueueSize \in Nat \ {0} /\ 0 \in 0 .. QueueSize - 1
    OBVIOUS
  <2> QED BY <2>1, ModSmall
<1> QED BY <1>1, <1>2, <1>3 DEF QueueInv, HeadInv, ReadyInv, NewestInv, UnreadInv, ReadInv

\* NBFi_Queue_Next_DL.
LEMMA QueueAppend ==
    ASSUME TypeOK, QueueInv, NEW p,
           queue' = [queue EXCEPT ![head] = [ready |-> TRUE, pos |-> Len(log) + 1]],
           head' = (head + 1) % QueueSize,
           log' = Append(log, p), read' = read
    PROVE QueueInv'
<1> DEFINE L == Len(log)
           Q == QueueSize
<1>0. /\ queue \in [Positions -> [ready : BOOLEAN, pos : Nat]] /\ head \in Positions
      /\ L \in Nat /\ Q \in Nat \ {0} /\ log \in Seq(Msgs \cup {Mixed})
      /\ DOMAIN read = 1 .. Len(read) /\ Len(read) \in Nat
      /\ \A n \in Int : Cursor(n) \in Positions
  BY QueueType
<1>1. Len(log') = L + 1
  BY <1>0, AppendIs
<1>2. queue'[head] = [ready |-> TRUE, pos |-> L + 1]
  BY <1>0
<1>3. \A i \in Positions \ {head} : queue'[i] = queue[i]
  BY <1>0
<1>4. queue'[head].ready /\ queue'[head].pos = L + 1
  BY <1>2
<1> HIDE DEF L
<1>5. head = L % Q /\ Cursor(L + 1) = head
  <2>1. (L + 1) - 1 = L
    BY <1>0
  <2> QED BY <2>1 DEF QueueInv, HeadInv, Cursor, L
\* The entries overwritten are those a whole queue ago.
<1>6. \A n \in 1 .. L : n > L + 1 - Q => Cursor(n) # head
  <2>1. ASSUME NEW n \in 1 .. L, n > L + 1 - Q PROVE Cursor(n) # head
    <3>1. /\ n - 1 \in Int /\ L - (n - 1) \in 1 .. Q - 1
          /\ (n - 1) + (L - (n - 1)) = L
      BY <1>0, <2>1
    <3>2. ((n - 1) + (L - (n - 1))) % Q # (n - 1) % Q
      BY <1>0, <3>1, ModApart
    <3> QED BY <1>5, <3>1, <3>2 DEF Cursor
  <2> QED BY <2>1
<1>7. \A i \in Positions : queue[i].ready => queue[i].pos \in 1 .. L /\ Cursor(queue[i].pos) = i
                                             /\ queue[i].pos > L - Q
  BY DEF QueueInv, ReadyInv, L
<1>8. ASSUME NEW i \in Positions, queue[i].ready, queue[i].pos = L + 1 - Q PROVE i = head
  <2>1. Cursor(queue[i].pos) = i /\ queue[i].pos \in Int
    BY <1>0, <1>7, <1>8
  <2>2. queue[i].pos - 1 = L + Q * (-1) /\ L \in Int /\ (-1) \in Int
    BY <1>0, <1>8
  <2>3. (L + Q * (-1)) % Q = L % Q
    BY <1>0, <2>2, ModAdd
  <2> QED BY <1>5, <2>1, <2>2, <2>3 DEF Cursor
<1>9. HeadInv'
  <2>1. ((L % Q) + 1) % Q = (L + 1) % Q
    <3>1. L \in Int /\ QueueSize \in Nat \ {0}
      BY <1>0
    <3> QED BY <3>1, ModNext
  <2> QED BY <1>1, <1>5, <2>1 DEF HeadInv
<1>10. ReadyInv'
  <2>1. ASSUME NEW i \in Positions, queue'[i].ready
        PROVE /\ queue'[i].pos \in 1 .. L + 1
              /\ Cursor(queue'[i].pos) = i
              /\ queue'[i].pos > L + 1 - Q
    <3>1. CASE i = head
      <4>1. L + 1 \in 1 .. L + 1 /\ L + 1 > L + 1 - Q
        BY <1>0
      <4> QED BY <1>4, <1>5, <3>1, <4>1
    <3>2. CASE i # head
      <4>1. queue'[i] = queue[i]
        BY <1>3, <3>2
      <4>2. queue[i].pos \in 1 .. L /\ Cursor(queue[i].pos) = i /\ queue[i].pos > L - Q
        BY <1>7, <2>1, <4>1
      <4>3. queue[i].pos # L + 1 - Q
        BY <1>8, <2>1, <3>2, <4>1
      <4>4. queue[i].pos \in 1 .. L + 1 /\ queue[i].pos > L + 1 - Q
        <5>1. PICK x : x = queue[i].pos
          OBVIOUS
        <5>2. x \in 1 .. L /\ x > L - Q /\ x # L + 1 - Q /\ Q \in Int /\ L \in Nat
          BY <1>0, <4>2, <4>3, <5>1
        <5> HIDE DEF Q
        <5>3. x \in 1 .. L + 1 /\ x > L + 1 - Q
          BY <5>2
        <5> QED BY <5>1, <5>3
      <4> QED BY <4>1, <4>2, <4>4
    <3> QED BY <3>1, <3>2
  <2>2. ASSUME NEW i \in Positions, queue'[i].ready
        PROVE /\ queue'[i].pos \in 1 .. Len(log')
              /\ Cursor(queue'[i].pos) = i
              /\ queue'[i].pos > Len(log') - QueueSize
    <3>1. PICK x : x = queue'[i].pos
      OBVIOUS
    <3>2. x \in 1 .. L + 1 /\ Cursor(x) = i /\ x > L + 1 - QueueSize
      BY <2>1, <2>2, <3>1
    <3>3. x \in 1 .. Len(log') /\ x > Len(log') - QueueSize
      <4>1. L \in Nat /\ QueueSize \in Nat
        BY <1>0
      <4> QED BY <1>1, <3>2, <4>1
    <3> QED BY <3>1, <3>2, <3>3
  <2> QED BY <2>2 DEF ReadyInv
<1>11. NewestInv'
  <2>1. ASSUME NEW n \in 1 .. L + 1, n > L + 1 - Q
        PROVE /\ queue'[Cursor(n)].pos = n
              /\ queue'[Cursor(n)].ready \/ \E i \in DOMAIN read : read[i] = n
    <3>1. CASE n = L + 1
      BY <1>4, <1>5, <3>1
    <3>2. CASE n # L + 1
      <4>1. n \in 1 .. L /\ n > L - Q /\ n \in Int
        BY <1>0, <2>1, <3>2
      <4>2. Cursor(n) \in Positions \ {head}
        BY <1>0, <1>6, <2>1, <4>1
      <4>3. /\ queue[Cursor(n)].pos = n
            /\ queue[Cursor(n)].ready \/ \E i \in DOMAIN read : read[i] = n
        BY <4>1 DEF QueueInv, NewestInv, L
      <4> QED BY <1>3, <4>2, <4>3
    <3> QED BY <3>1, <3>2
  <2>2. ASSUME NEW n \in 1 .. Len(log'), n > Len(log') - QueueSize
        PROVE /\ queue'[Cursor(n)].pos = n
              /\ queue'[Cursor(n)].ready \/ \E i \in DOMAIN read' : read'[i] = n
    <3>1. n \in 1 .. L + 1 /\ n > L + 1 - Q
      <4>1. L \in Nat /\ QueueSize \in Nat
        BY <1>0
      <4> QED BY <1>1, <2>2, <4>1
    <3> QED BY <2>1, <3>1
  <2> QED BY <2>2 DEF NewestInv
<1>12. UnreadInv'
  <2>1. ASSUME NEW i \in Positions, NEW r \in DOMAIN read, queue'[i].ready
        PROVE read[r] < queue'[i].pos
    <3>1. CASE i = head
      <4>1. read[r] \in 1 .. L
        BY DEF QueueInv, ReadInv, L
      <4> QED BY <1>0, <1>4, <3>1, <4>1
    <3>2. CASE i # head
      BY <1>3, <2>1, <3>2 DEF QueueInv, UnreadInv
    <3> QED BY <3>1, <3>2
  <2> QED BY <2>1 DEF UnreadInv
<1>13. ReadInv'
  <2>1. \A i \in DOMAIN read : /\ read[i] \in 1 .. L + 1
                               /\ \A j \in DOMAIN read : i < j => read[i] < read[j]
    BY <1>0 DEF QueueInv, ReadInv, L
  <2> QED BY <1>1, <2>1 DEF ReadInv
<1> QED BY <1>9, <1>10, <1>11, <1>12, <1>13 DEF QueueInv

\* NBFi_Next_Ready_DL takes the oldest payload that is still there.
LEMMA OldestFirst ==
    ASSUME TypeOK, QueueInv, Ready(queue) # {}
    PROVE \A j \in Ready(queue) :
             queue[NextReady(queue, head)].pos <= queue[j].pos
<1> DEFINE L == Len(log)
           Q == QueueSize
<1>0. /\ queue \in [Positions -> [ready : BOOLEAN, pos : Nat]]
      /\ L \in Nat /\ Q \in Nat \ {0} /\ DOMAIN queue = Positions
  BY QueueType
<1>1. ASSUME NEW i \in Ready(queue)
      PROVE QAge(head, i) = queue[i].pos - 1 - L + Q /\ queue[i].pos \in Nat
  <2>1. /\ i \in Positions /\ queue[i].pos \in 1 .. L /\ queue[i].pos > L - Q
        /\ i = (queue[i].pos - 1) % Q /\ head = L % Q
    BY <1>0 DEF Ready, QueueInv, ReadyInv, HeadInv, Cursor
  <2> DEFINE a == queue[i].pos - 1
  <2>2. a \in Int /\ L \in Int /\ a - L + Q \in 0 .. Q - 1 /\ i = a % Q
    <3>1. a \in Int /\ L \in Int /\ Q \in Int /\ a < L /\ a >= L - Q
      BY <1>0, <2>1
    <3>2. i = a % Q
      BY <2>1
    <3> HIDE DEF a, L, Q
    <3>3. a - L + Q \in 0 .. Q - 1
      BY <3>1
    <3> QED BY <3>1, <3>2, <3>3
  <2>3. a - L + Q = queue[i].pos - 1 - L + Q
    OBVIOUS
  <2> HIDE DEF a, L, Q
  <2>4. ((a % Q) - (L % Q) + Q) % Q = a - L + Q
    BY <1>0, <2>2, ModDiff
  <2>5. QAge(head, i) = ((a % Q) - (L % Q) + Q) % Q
    BY <2>1, <2>2 DEF QAge, Q
  <2> QED BY <1>0, <2>1, <2>3, <2>4, <2>5
<1> HIDE DEF L, Q
<1>2. ASSUME NEW j \in Ready(queue)
      PROVE queue[NextReady(queue, head)].pos <= queue[j].pos
  <2> DEFINE i == NextReady(queue, head)
  <2>1. i \in Ready(queue) /\ QAge(head, i) <= QAge(head, j)
    BY NextReadyIs
  <2> HIDE DEF i
  <2>2. /\ queue[i].pos - 1 - L + Q <= queue[j].pos - 1 - L + Q
        /\ queue[i].pos \in Nat /\ queue[j].pos \in Nat
    BY <1>1, <2>1
  <2>3. queue[i].pos <= queue[j].pos
    BY <1>0, <2>2
  <2> QED BY <2>3 DEF i
<1> QED BY <1>2

\* NBFi_get_Received_Packet.
LEMMA QueueRead ==
    ASSUME TypeOK, QueueInv, AppRead
    PROVE QueueInv'
<1> DEFINE i == NextReady(queue, head)
           e == queue[i].pos
           R == Len(read)
           L == Len(log)
<1>0. /\ queue \in [Positions -> [ready : BOOLEAN, pos : Nat]]
      /\ Len(log) \in Nat /\ DOMAIN queue = Positions
      /\ read \in Seq(Nat) /\ Len(read) \in Nat /\ DOMAIN read = 1 .. Len(read)
      /\ \A n \in Int : Cursor(n) \in Positions
  BY QueueType
<1>1. /\ read' = Append(read, e)
      /\ queue' = [queue EXCEPT ![i].ready = FALSE]
      /\ UNCHANGED <<head, log>>
      /\ i \in Ready(queue)
      /\ \A j \in Ready(queue) : e <= queue[j].pos
  BY NextReadyIs, OldestFirst DEF AppRead
<1> HIDE DEF i
<1>2. i \in Positions /\ queue[i].ready /\ queue[i] \in [ready : BOOLEAN, pos : Nat]
  BY <1>0, <1>1 DEF Ready
<1>3. \A j \in Positions : queue'[j].pos = queue[j].pos
  BY <1>0, <1>1, <1>2
<1>4. ~queue'[i].ready
  BY <1>0, <1>1, <1>2
<1>5. \A j \in Positions \ {i} : queue'[j].ready <=> queue[j].ready
  BY <1>0, <1>1, <1>2
<1>6. e \in 1 .. L /\ Cursor(e) = i /\ e \in Nat
  BY <1>0, <1>2 DEF QueueInv, ReadyInv
<1> HIDE DEF e
<1>7. /\ DOMAIN read' = 1 .. R + 1
      /\ \A n \in 1 .. R : read'[n] = read[n]
      /\ read'[R + 1] = e
  BY <1>0, <1>1, AppendIs DEF R
<1>13. R \in Nat /\ DOMAIN read = 1 .. R /\ L \in Nat
  BY <1>0 DEF R, L
<1> HIDE DEF R, L
<1>8. \A n \in 1 .. R : read[n] < e
  BY <1>0, <1>13, <1>2 DEF QueueInv, UnreadInv, e
<1>9. HeadInv' /\ ReadyInv'
  BY <1>1, <1>3, <1>4, <1>5 DEF QueueInv, HeadInv, ReadyInv
<1>10. NewestInv'
  <2>1. ASSUME NEW p \in 1 .. L, p > L - QueueSize
        PROVE /\ queue'[Cursor(p)].pos = p
              /\ queue'[Cursor(p)].ready \/ \E n \in DOMAIN read' : read'[n] = p
    <3>1. /\ queue[Cursor(p)].pos = p /\ Cursor(p) \in Positions
          /\ queue[Cursor(p)].ready \/ \E n \in DOMAIN read : read[n] = p
      BY <1>0, <1>13, <2>1 DEF QueueInv, NewestInv, L
    <3>2. queue'[Cursor(p)].pos = p
      BY <1>3, <3>1
    <3>3. ASSUME NEW n \in DOMAIN read, read[n] = p PROVE \E k \in DOMAIN read' : read'[k] = p
      BY <1>13, <1>7, <3>3
    <3>4. CASE Cursor(p) = i
      <4>1. e = p
        BY <3>1, <3>4 DEF e
      <4>2. R + 1 \in DOMAIN read' /\ read'[R + 1] = p
        BY <1>0, <1>13, <1>7, <4>1
      <4> QED BY <3>2, <4>2
    <3>5. CASE Cursor(p) # i
      BY <1>5, <3>1, <3>2, <3>3, <3>5
    <3> QED BY <3>4, <3>5
  <2> QED BY <1>1, <2>1 DEF NewestInv, L
<1>11. UnreadInv'
  <2>1. ASSUME NEW j \in Positions, NEW r \in DOMAIN read', queue'[j].ready
        PROVE read'[r] < queue'[j].pos
    <3>1. j # i /\ queue[j].ready /\ queue'[j].pos = queue[j].pos
      BY <1>3, <1>4, <1>5, <2>1
    <3>2. CASE r \in 1 .. R
      <4>1. read'[r] = read[r] /\ read[r] < queue[j].pos
        <5>1. read[r] < queue[j].pos
          BY <1>13, <3>1, <3>2 DEF QueueInv, UnreadInv
        <5>2. read'[r] = read[r]
          BY <1>7, <3>2
        <5> QED BY <5>1, <5>2
      <4> QED BY <3>1, <4>1
    <3>3. CASE r = R + 1
      <4>1. j \in Ready(queue) /\ e <= queue[j].pos /\ queue[j].pos \in Nat
        BY <1>0, <1>13, <1>1, <3>1 DEF Ready
      <4>2. Cursor(queue[j].pos) = j
        BY <3>1 DEF QueueInv, ReadyInv
      <4>3. e # queue[j].pos
        BY <1>6, <3>1, <4>2
      <4>4. e < queue[j].pos
        BY <1>6, <4>1, <4>3
      <4>5. read'[r] = e
        BY <1>7, <3>3
      <4> QED BY <3>1, <4>4, <4>5
    <3>4. r \in 1 .. R \/ r = R + 1
      <4>1. r \in 1 .. R + 1
        BY <1>7
      <4> QED BY <1>13, <4>1
    <3> QED BY <3>2, <3>3, <3>4
  <2> QED BY <2>1 DEF UnreadInv
<1>12. ReadInv'
  <2>1. \A n \in 1 .. R :
          /\ read[n] \in 1 .. L
          /\ \A j \in 1 .. R : n < j => read[n] < read[j]
    BY <1>0, <1>13 DEF QueueInv, ReadInv, L
  <2>2. \A n \in 1 .. R + 1 :
          /\ read'[n] \in 1 .. L
          /\ \A j \in 1 .. R + 1 : n < j => read'[n] < read'[j]
    <3>1. ASSUME NEW n \in 1 .. R + 1
          PROVE read'[n] \in 1 .. L
      BY <1>13, <1>6, <1>7, <2>1
    <3>2. ASSUME NEW n \in 1 .. R + 1, NEW j \in 1 .. R + 1, n < j
          PROVE read'[n] < read'[j]
      <4>1. n \in 1 .. R /\ read'[n] = read[n]
        BY <1>13, <1>7, <3>2
      <4>2. CASE j = R + 1
        BY <1>7, <1>8, <4>1, <4>2
      <4>3. CASE j # R + 1
        <5>1. j \in 1 .. R /\ read'[j] = read[j]
          BY <1>13, <1>7, <4>3
        <5> QED BY <2>1, <3>2, <4>1, <5>1
      <4> QED BY <4>2, <4>3
    <3> QED BY <3>1, <3>2
  <2> QED BY <1>1, <1>7, <2>2 DEF ReadInv, L
<1> QED BY <1>9, <1>10, <1>11, <1>12 DEF QueueInv

LEMMA QueueStep == RxInv /\ QueueInv /\ [Next]_vars => QueueInv'
<1> SUFFICES ASSUME RxInv, QueueInv, [Next]_vars PROVE QueueInv'
  OBVIOUS
<1>1. TypeOK
  BY DEF RxInv
<1>2. ASSUME UNCHANGED <<log, read, queue, head>> PROVE QueueInv'
  BY <1>2 DEF QueueInv, HeadInv, ReadyInv, NewestInv, UnreadInv, ReadInv
<1>3. ASSUME NEW f, WellFormed(f), f.msg <= station.offered, Receive(f), read' = read
      PROVE QueueInv'
  <2>1. CASE queue' = queue /\ head' = head /\ log' = log
    BY <1>2, <1>3, <2>1
  <2>2. ASSUME NEW p,
               queue' = [queue EXCEPT ![head] = [ready |-> TRUE, pos |-> Len(log) + 1]],
               head' = (head + 1) % QueueSize,
               log' = Append(log, p)
        PROVE QueueInv'
    BY <1>1, <1>3, <2>2, QueueAppend
  <2> QED BY <1>3, <2>1, <2>2, ReceiveKeeps
<1> QED BY <1>1, <1>2, <1>3, LogStep, QueueRead

\* The queue holds what was last handed to it, in the order it was handed, and
\* the application has read what lies before (nbfi_transport_misc.c:794-829).
THEOREM QueueInvariant == Spec => []QueueInv
BY QueueInit, QueueStep, RxInvariant, PTL DEF Spec

\* A main loop that is late finds the last payloads of the queue's size, for
\* every size and however many a reception follows another
\* (nbfi_transport_misc.c:794-829).
THEOREM LateReaderFinds == Spec => []NewestKept
<1>1. RxInv /\ QueueInv => NewestKept
  <2> SUFFICES ASSUME RxInv, QueueInv, NEW p \in DOMAIN log, p > Len(log) - QueueSize
               PROVE \/ \E i \in DOMAIN read : read[i] = p
                     \/ \E i \in DOMAIN queue : queue[i] = [ready |-> TRUE, pos |-> p]
    BY DEF NewestKept
  <2>1. TypeOK
    BY DEF RxInv
  <2>2. /\ p \in 1 .. Len(log) /\ p \in Int /\ Cursor(p) \in Positions /\ DOMAIN queue = Positions
        /\ queue[Cursor(p)] \in [ready : BOOLEAN, pos : Nat]
    BY <2>1, QueueType
  <2>3. /\ queue[Cursor(p)].pos = p
        /\ queue[Cursor(p)].ready \/ \E i \in DOMAIN read : read[i] = p
    BY <2>2 DEF QueueInv, NewestInv
  <2>4. queue[Cursor(p)].ready => queue[Cursor(p)] = [ready |-> TRUE, pos |-> p]
    BY <2>2, <2>3
  <2> QED BY <2>2, <2>3, <2>4
<1> QED BY <1>1, RxInvariant, QueueInvariant, PTL

-----------------------------------------------------------------------------
(***************************************************************************)
(* Once: with mack_mode 1 a window holds the packets of one message.  The  *)
(* ring's packets of that message are those of the window, and once the    *)
(* message has been handed over its last packet stays in the ring, taken,  *)
(* until the base station is done with the window: when it is sent again,  *)
(* it is the packet received last, a duplicate.                            *)
(***************************************************************************)
Window == Len(station.win)

WindowInv ==
    /\ station.clear => Window = 0
    /\ Window > 0 =>
         /\ station.wait # 0 \/ station.todo # {}
         /\ Window < IterMod
         /\ station.win[Window].ack
    /\ \A j \in 1 .. Window :
         /\ station.win[j].msg = station.offered
         /\ station.win[j].part = j - 1
         /\ station.win[j].iter = At(station.win[1].iter + (j - 1))
         /\ station.win[j].multi <=> Window > 1
         /\ j = 1 /\ Window > 1 => station.win[j].n = Window

\* Packet f in slot s is the one of the window.
OfWindow(s, f) ==
    /\ f.part + 1 \in 1 .. Window
    /\ s = station.win[f.part + 1].iter
    /\ f.n = station.win[f.part + 1].n
    /\ f.part + 1 = Window => f = station.win[Window]

RingOfWindow ==
    Window > 0 => \A s \in Slots :
        buf[s].st # "FREE" /\ buf[s].f.msg = station.offered => OfWindow(s, buf[s].f)

LastSlot == station.win[Window].iter

LastIn == buf[LastSlot].st # "FREE" /\ buf[LastSlot].f = station.win[Window]

LastIsNewest ==
    Window > 0 /\ LastIn /\ (station.wait = Window \/ Window \in station.todo) =>
        dlIter = LastSlot /\ station.todo \subseteq {Window}

LastIsTaken ==
    Window > 0 /\ station.offered \in Handed => LastIn /\ ~Received(buf, LastSlot)

UpToOffered == \A i \in DOMAIN log : log[i] <= station.offered

OnceInv ==
    /\ RxInv /\ WindowInv /\ RingOfWindow /\ LastIsNewest /\ LastIsTaken
    /\ UpToOffered /\ HandedOnce

LEMMA WindowFacts ==
    ASSUME RxInv, WindowInv
    PROVE /\ Window \in Nat /\ DOMAIN station.win = 1 .. Window
          /\ station.todo \subseteq 1 .. Window /\ station.wait \in 0 .. Window
          /\ \A j \in 1 .. Window :
               /\ station.win[j] \in Frame /\ WellFormed(station.win[j])
               /\ station.win[j].iter \in Slots
          /\ Window > 0 => LastSlot \in Slots /\ Window < IterMod
<1>1. StationOK
  BY DEF RxInv
<1>2. /\ Window \in Nat /\ DOMAIN station.win = 1 .. Window
      /\ station.todo \subseteq 1 .. Window /\ station.wait \in 0 .. Window
  BY <1>1, WindowIs DEF Window
<1>3. \A j \in 1 .. Window : WellFormed(station.win[j]) /\ station.win[j] \in Frame
                             /\ station.win[j].iter \in Slots
  BY <1>1, <1>2 DEF StationOK, WellFormed, Frame
<1>4. Window > 0 => Window \in 1 .. Window /\ Window < IterMod
  BY <1>2 DEF WindowInv
<1> QED BY <1>2, <1>3, <1>4 DEF LastSlot

\* The packets of a window have different ITERs.
LEMMA ItersApart ==
    ASSUME RxInv, WindowInv, NEW i \in 1 .. Window, NEW j \in 1 .. Window, i < j
    PROVE station.win[i].iter # station.win[j].iter
<1> DEFINE a == station.win[1].iter
<1>1. /\ Window \in Nat /\ Window < IterMod /\ a \in Slots
  BY WindowFacts
<1>2. /\ station.win[i].iter = At(a + (i - 1)) /\ station.win[j].iter = At(a + (j - 1))
  BY DEF WindowInv
<1> HIDE DEF a
<1>3. a + (i - 1) \in Int /\ j - i \in 1 .. IterMod - 1
  BY <1>1 DEF Slots
<1>4. a + (j - 1) = (a + (i - 1)) + (j - i)
  BY <1>1 DEF Slots
<1>5. At((a + (i - 1)) + (j - i)) # At(a + (i - 1))
  BY <1>3, AtApart
<1> QED BY <1>2, <1>4, <1>5

\* The ring with the received packet in it holds packets of the window.
LEMMA WrittenOfWindow ==
    ASSUME RxInv, WindowInv, RingOfWindow, NEW j \in 1 .. Window, NEW s \in Slots,
           Written(station.win[j])[s].st # "FREE",
           Written(station.win[j])[s].f.msg = station.offered
    PROVE OfWindow(s, Written(station.win[j])[s].f)
<1> DEFINE f == station.win[j]
<1>1. /\ WellFormed(f) /\ f.msg <= station.offered /\ f.iter \in Slots
      /\ f.part = j - 1 /\ Window \in Nat /\ Window > 0
  <2>1. f.msg = station.offered /\ f.part = j - 1 /\ station.offered \in Nat
    BY DEF WindowInv, RxInv, StationOK
  <2> QED BY <2>1, WindowFacts
<1>2. /\ Written(f)[f.iter].f = f
      /\ \A u \in Slots \ {f.iter} : /\ Written(f)[u].f = buf[u].f
                                     /\ Written(f)[u].st = "FREE" <=> buf[u].st = "FREE"
  <2> HIDE DEF f
  <2> QED BY <1>1, WrittenIs
<1>3. CASE s = f.iter
  <2>1. f.part + 1 = j
    BY <1>1
  <2>2. OfWindow(f.iter, f)
    BY <2>1 DEF OfWindow
  <2> QED BY <1>2, <1>3, <2>2
<1>4. CASE s # f.iter
  BY <1>1, <1>2, <1>4 DEF RingOfWindow
<1> QED BY <1>3, <1>4

\* A whole message that is complete is the one of the window, its last packet
\* included.
LEMMA WholeIsOffered ==
    ASSUME RxInv, WindowInv, RingOfWindow, NEW j \in 1 .. Window,
           NEW s \in Complete(Written(station.win[j])), IsWhole(Written(station.win[j]), s)
    PROVE /\ Payload(Written(station.win[j]), s) = station.offered
          /\ Received(Written(station.win[j]), LastSlot)
          /\ Written(station.win[j])[LastSlot].f = station.win[Window]
          /\ \/ LastSlot = s
             \/ /\ IsGroup(Written(station.win[j]), s)
                /\ LastSlot \in GroupFrom(s, Written(station.win[j])[s].f.n)
<1> DEFINE f == station.win[j]
           b == Written(f)
           d == f.iter
           N == Window
<1>1. /\ WellFormed(f) /\ f.msg <= station.offered /\ d \in Slots /\ f.msg = station.offered
      /\ f.part = j - 1 /\ N \in Nat /\ N > 0 /\ N < IterMod /\ (f.multi <=> N > 1)
      /\ LastSlot \in Slots
  <2>1. f.msg = station.offered /\ f.part = j - 1 /\ station.offered \in Nat
        /\ (f.multi <=> N > 1)
    BY DEF WindowInv, RxInv, StationOK
  <2> QED BY <2>1, WindowFacts
<1>2. \A u \in Slots : b[u].st # "FREE" /\ b[u].f.msg = station.offered => OfWindow(u, b[u].f)
  BY WrittenOfWindow
<1>3. RingOK(b, station.offered) /\ b[d].f = f /\ Fresh(b, d)
  <2> HIDE DEF f
  <2> QED BY <1>1, WrittenIs
<1>4. s \in Complete(b) /\ IsWhole(b, s)
  OBVIOUS
<1>5. Payload(b, s) = b[s].f.msg /\ b[s].f.part = 0
  BY <1>4 DEF Payload, IsWhole
<1> HIDE DEF b
<1>6. s \in Slots /\ Received(b, s) /\ (~IsGroup(b, s) => ~b[s].f.multi)
  BY <1>3, <1>4, CompleteOne
<1>7. CASE ~IsGroup(b, s)
  <2>1. s = d /\ ~f.multi
    BY <1>3, <1>4, <1>6, <1>7 DEF Fresh
  <2>2. N = 1 /\ j = 1
    BY <1>1, <2>1
  <2>3. LastSlot = d /\ f = station.win[N]
    BY <2>2 DEF LastSlot
  <2> QED BY <1>1, <1>3, <1>5, <1>6, <2>1, <2>3 DEF b
<1>8. CASE IsGroup(b, s)
  <2> DEFINE n == b[s].f.n
  <2>1. /\ n \in 2 .. IterMod - 1 /\ GroupFrom(s, n) \subseteq Slots
        /\ \A u \in GroupFrom(s, n) : Received(b, u) /\ b[u].f.multi
        /\ d \in GroupFrom(s, n)
    BY <1>3, <1>4, <1>8, CompleteOne DEF Fresh
  <2>2. \A i \in 0 .. n - 1 : /\ b[At(s + i)].f.msg = b[s].f.msg
                              /\ b[At(s + i)].f.part = i
                              /\ At(s + i) \in GroupFrom(s, n)
    BY <1>4, <1>8 DEF IsWhole, GroupFrom
  <2>3. b[s].f.msg = station.offered
    <3>1. PICK i \in 0 .. n - 1 : d = At(s + i)
      BY <2>1 DEF GroupFrom
    <3> QED BY <1>1, <1>3, <2>2, <3>1
  <2>4. N > 1
    BY <1>1, <1>3, <2>1
  <2>5. s = station.win[1].iter /\ n = station.win[1].n
    <3>1. b[s].st # "FREE"
      BY <1>6 DEF Received
    <3>2. OfWindow(s, b[s].f)
      BY <1>2, <1>6, <2>3, <3>1
    <3> QED BY <1>5, <3>2 DEF OfWindow
  <2>6. n = N
    BY <1>1, <2>4, <2>5 DEF WindowInv
  <2>7. LastSlot = At(s + (N - 1)) /\ N - 1 \in 0 .. n - 1
    BY <1>1, <2>5, <2>6 DEF WindowInv, LastSlot
  <2> HIDE DEF n
  <2>8. /\ b[LastSlot].f.msg = station.offered /\ b[LastSlot].f.part = N - 1
        /\ LastSlot \in GroupFrom(s, n) /\ Received(b, LastSlot)
    BY <2>1, <2>2, <2>3, <2>7
  <2>9. OfWindow(LastSlot, b[LastSlot].f)
    BY <1>1, <1>2, <2>8 DEF Received
  <2>10. b[LastSlot].f.part + 1 = N
    BY <1>1, <2>8
  <2>11. b[LastSlot].f = station.win[N]
    BY <2>9, <2>10 DEF OfWindow
  <2> QED BY <1>5, <1>8, <2>3, <2>8, <2>11 DEF b, n
<1> QED BY <1>7, <1>8

\* What the ring and the history are after the reception of packet j.
LEMMA ReceiveOnce ==
    ASSUME OnceInv, NEW j \in station.todo, \A u \in station.todo : j <= u,
           Receive(station.win[j])
    PROVE /\ dlIter' = station.win[j].iter
          /\ buf'[station.win[j].iter].f = station.win[j]
          /\ buf'[station.win[j].iter].st # "FREE"
          /\ \A s \in Slots \ {station.win[j].iter} :
                /\ buf'[s].f = buf[s].f
                /\ buf'[s].st = "FREE" <=> buf[s].st = "FREE"
                /\ Received(buf', s) => Received(buf, s)
          /\ \A s \in Slots :
                buf'[s].st # "FREE" /\ buf'[s].f.msg = station.offered => OfWindow(s, buf'[s].f)
          /\ station.offered \in Handed =>
                /\ buf'[LastSlot].st # "FREE" /\ buf'[LastSlot].f = station.win[Window]
                /\ ~Received(buf', LastSlot)
          /\ \/ log' = log \/ log' = Append(log, Mixed)
             \/ /\ log' = Append(log, station.offered)
                /\ station.offered \notin Handed
                /\ buf'[LastSlot].st # "FREE" /\ buf'[LastSlot].f = station.win[Window]
                /\ ~Received(buf', LastSlot)
<1> DEFINE f == station.win[j]
           b == Written(f)
           d == f.iter
           N == Window
           m == station.offered
<1>0. /\ RxInv /\ WindowInv /\ RingOfWindow /\ LastIsNewest /\ LastIsTaken
      /\ TypeOK /\ StationOK /\ Asks /\ RingOK(buf, m) /\ buf \in [Slots -> Cell]
  BY DEF OnceInv, RxInv, RingOK
<1>1. /\ WellFormed(f) /\ f.msg <= m /\ d \in Slots /\ j \in 1 .. N /\ f.msg = m
      /\ N \in Nat /\ N > 0 /\ LastSlot \in Slots /\ m \in 0 .. MaxMsgs
  <2>1. j \in 1 .. N /\ N \in Nat
    BY <1>0, WindowFacts
  <2>2. f.msg = m /\ m \in 0 .. MaxMsgs
    BY <1>0, <2>1 DEF WindowInv, StationOK
  <2> QED BY <1>0, <2>1, <2>2, WindowFacts
<1>2. /\ Again(f) => dlIter = d
      /\ RingOK(b, m)
      /\ b[d].f = f /\ b[d].st # "FREE"
      /\ \A s \in Slots \ {d} : /\ b[s].f = buf[s].f
                                /\ b[s].st = "FREE" <=> buf[s].st = "FREE"
                                /\ Received(b, s) => Received(buf, s)
      /\ Fresh(b, d)
      /\ Again(f) => Complete(b) = {}
  <2> HIDE DEF f, m
  <2>1. RxInv /\ WellFormed(f) /\ f.msg <= station.offered
    BY <1>0, <1>1 DEF m
  <2> QED BY <2>1, WrittenIs DEF m
<1>3. /\ Shrinks(b, buf') /\ RingOK(buf', m) /\ dlIter' = d
      /\ \E x : Handed1(b, d, x) /\ buf' = x.buf /\ HandOver(x.out)
  <2>1. Receive(f)
    OBVIOUS
  <2> HIDE DEF f
  <2>2. Shrinks(b, buf') /\ RingOK(buf', m)
    BY <1>0, <1>1, <2>1, ReceiveKeeps
  <2>3. dlIter' = d /\ \E x : Handed1(b, d, x) /\ buf' = x.buf /\ HandOver(x.out)
    BY <1>0, <1>1, <2>1, ReceiveIs
  <2> QED BY <2>2, <2>3
<1>4. \A s \in Slots : b[s].st # "FREE" /\ b[s].f.msg = m => OfWindow(s, b[s].f)
  BY <1>0, <1>1, WrittenOfWindow
\* The last packet is the newest one when it is sent again.
<1>5. ASSUME m \in Handed
      PROVE /\ b[LastSlot].st # "FREE" /\ b[LastSlot].f = station.win[N]
            /\ ~Received(b, LastSlot)
            /\ \A s \in Complete(b) : ~IsWhole(b, s)
  <2>1. LastIn /\ ~Received(buf, LastSlot)
    BY <1>0, <1>1, <1>5 DEF LastIsTaken
  <2>2. CASE d = LastSlot
    <3>1. j = N
      <4>1. j < N => d # LastSlot
        BY <1>0, <1>1, ItersApart DEF LastSlot
      <4> QED BY <1>1, <2>2, <4>1
    <3>2. dlIter = d
      BY <1>0, <1>1, <2>1, <2>2, <3>1 DEF LastIsNewest
    <3>3. Shrinks(buf, Kept(f))
      BY <1>0, KeptIs
    <3>4. buf[d].f = f /\ buf[d].st # "FREE" /\ ~Received(buf, d)
      BY <2>1, <2>2, <3>1 DEF LastIn
    <3>5. Kept(f)[d].f = f /\ Kept(f)[d].st # "FREE" /\ ~Received(Kept(f), d)
      BY <1>1, <3>3, <3>4 DEF Shrinks
    <3>6. Again(f)
      BY <3>2, <3>5 DEF Again, Duplicate
    <3>7. b = Kept(f)
      BY <3>6 DEF Written
    <3> QED BY <1>2, <2>2, <3>1, <3>5, <3>6, <3>7
  <2>3. CASE d # LastSlot
    <3>1. /\ b[LastSlot].st # "FREE" /\ b[LastSlot].f = station.win[N]
          /\ ~Received(b, LastSlot)
      BY <1>1, <1>2, <2>1, <2>3 DEF LastIn
    <3> QED BY <1>0, <1>1, <3>1, WholeIsOffered
  <2> QED BY <2>2, <2>3
<1>6. ASSUME NEW s \in Complete(b), IsWhole(b, s)
      PROVE /\ Payload(b, s) = m /\ m \notin Handed
            /\ b[LastSlot].st # "FREE" /\ b[LastSlot].f = station.win[N]
            /\ ~Received(Taken(b, s), LastSlot)
  <2>1. /\ Payload(b, s) = m /\ Received(b, LastSlot)
        /\ b[LastSlot].f = station.win[N]
        /\ \/ LastSlot = s
           \/ IsGroup(b, s) /\ LastSlot \in GroupFrom(s, b[s].f.n)
    BY <1>0, <1>1, <1>6, WholeIsOffered
  <2> HIDE DEF b
  <2>2. m \notin Handed
    BY <1>5, <1>6
  <2>3. ~Received(Taken(b, s), LastSlot)
    BY <1>1, <1>2, <1>6, <2>1, TakenSlots
  <2> QED BY <2>1, <2>2, <2>3 DEF Received
<1> HIDE DEF b
<1>7. \A s \in Slots : /\ buf'[s].f = b[s].f
                       /\ buf'[s].st = "FREE" <=> b[s].st = "FREE"
                       /\ Received(buf', s) => Received(b, s)
  BY <1>3 DEF Shrinks
<1>8. /\ buf'[d].f = f /\ buf'[d].st # "FREE"
      /\ \A s \in Slots \ {d} : /\ buf'[s].f = buf[s].f
                                /\ buf'[s].st = "FREE" <=> buf[s].st = "FREE"
                                /\ Received(buf', s) => Received(buf, s)
  BY <1>1, <1>2, <1>7
<1>9. \A s \in Slots : buf'[s].st # "FREE" /\ buf'[s].f.msg = m => OfWindow(s, buf'[s].f)
  BY <1>4, <1>7
<1>10. m \in Handed => /\ buf'[LastSlot].st # "FREE" /\ buf'[LastSlot].f = station.win[N]
                       /\ ~Received(buf', LastSlot)
  BY <1>1, <1>5, <1>7
<1>11. \/ log' = log \/ log' = Append(log, Mixed)
       \/ /\ log' = Append(log, m) /\ m \notin Handed
          /\ buf'[LastSlot].st # "FREE" /\ buf'[LastSlot].f = station.win[N]
          /\ ~Received(buf', LastSlot)
  <2>1. PICK x : Handed1(b, d, x) /\ buf' = x.buf /\ HandOver(x.out)
    BY <1>3
  <2>2. CASE x.out = <<>>
    BY <1>0, <2>1, <2>2, HandOverIs
  <2>3. ASSUME NEW s \in Complete(b), x.buf = Taken(b, s), x.out = <<Payload(b, s)>>
        PROVE \/ log' = log \/ log' = Append(log, Mixed)
              \/ /\ log' = Append(log, m) /\ m \notin Handed
                 /\ buf'[LastSlot].st # "FREE" /\ buf'[LastSlot].f = station.win[N]
                 /\ ~Received(buf', LastSlot)
    <3>1. log' = Append(log, Payload(b, s))
      BY <1>0, <2>1, <2>3, HandOverIs
    <3>2. CASE IsWhole(b, s)
      <4>1. /\ Payload(b, s) = m /\ m \notin Handed
            /\ b[LastSlot].st # "FREE" /\ b[LastSlot].f = station.win[N]
            /\ ~Received(Taken(b, s), LastSlot)
        BY <1>6, <3>2
      <4>2. ~Received(buf', LastSlot)
        BY <2>1, <2>3, <4>1
      <4> QED BY <1>1, <1>7, <3>1, <4>1, <4>2
    <3>3. CASE ~IsWhole(b, s)
      BY <3>1, <3>3 DEF Payload
    <3> QED BY <3>2, <3>3
  <2> QED BY <2>1, <2>2, <2>3 DEF Handed1
<1> QED BY <1>3, <1>8, <1>9, <1>10, <1>11

\* A payload joins the history.
LEMMA HandedGrows ==
    ASSUME TypeOK, NEW p \in Msgs \cup {Mixed}, log' = Append(log, p)
    PROVE /\ Handed' = Handed \cup {p}
          /\ DOMAIN log' = 1 .. Len(log) + 1 /\ Len(log) \in Nat /\ DOMAIN log = 1 .. Len(log)
          /\ Len(log') = Len(log) + 1
          /\ \A i \in 1 .. Len(log) : log'[i] = log[i]
          /\ log'[Len(log) + 1] = p
<1>1. log \in Seq(Msgs \cup {Mixed}) /\ DOMAIN log = 1 .. Len(log) /\ Len(log) \in Nat
  BY LenProperties DEF TypeOK
<1>2. /\ Append(log, p) \in Seq(Msgs \cup {Mixed})
      /\ Len(Append(log, p)) = Len(log) + 1
      /\ \A i \in 1 .. Len(log) : Append(log, p)[i] = log[i]
      /\ Append(log, p)[Len(log) + 1] = p
  BY <1>1, AppendProperties
<1>3. /\ DOMAIN log' = 1 .. Len(log) + 1
      /\ \A i \in 1 .. Len(log) : log'[i] = log[i]
      /\ log'[Len(log) + 1] = p
  <2>1. DOMAIN log' = 1 .. Len(log')
    BY <1>2, LenProperties
  <2> QED BY <1>2, <2>1
<1>4. Handed' = Handed \cup {p}
  <2>1. \A i \in 1 .. Len(log) : log'[i] \in Handed
    BY <1>1, <1>3 DEF Handed
  <2>2. \A i \in DOMAIN log' : log'[i] \in Handed \cup {p}
    BY <1>1, <1>3, <2>1
  <2>3. \A i \in DOMAIN log : log[i] \in Handed'
    BY <1>1, <1>3 DEF Handed
  <2>4. p \in Handed'
    <3>1. Len(log) + 1 \in DOMAIN log'
      BY <1>1, <1>3
    <3> QED BY <1>3, <3>1 DEF Handed
  <2>5. Handed' \subseteq Handed \cup {p}
    BY <2>2 DEF Handed
  <2>6. Handed \subseteq Handed'
    BY <2>3 DEF Handed
  <2> QED BY <2>4, <2>5, <2>6
<1> QED BY <1>1, <1>2, <1>3, <1>4

\* The end of a window: nothing is left to say about the ring.
LEMMA NoWindow ==
    ASSUME Len(station'.win) = 0
    PROVE WindowInv' /\ RingOfWindow' /\ LastIsNewest' /\ LastIsTaken'
<1>1. Window' = 0
  BY DEF Window
<1>2. 1 .. Window' = {}
  BY <1>1
<1> QED BY <1>1, <1>2 DEF WindowInv, RingOfWindow, LastIsNewest, LastIsTaken

LEMMA LogStays ==
    ASSUME UpToOffered, HandedOnce, log' = log, station'.offered = station.offered
    PROVE UpToOffered' /\ HandedOnce'
BY DEF UpToOffered, HandedOnce

\* The station repeats what it sent, in the same window; the device is not
\* touched.
LEMMA SameWindow ==
    ASSUME OnceInv, UNCHANGED <<buf, dlIter, log>>,
           station'.offered = station.offered, station'.clear = station.clear,
           station'.win = station.win,
           station'.wait # 0 \/ station'.todo # {},
           \/ Window \notin station'.todo /\ station'.wait # Window
           \/ /\ station.wait = Window \/ Window \in station.todo
              /\ station'.todo \subseteq {Window}
    PROVE WindowInv' /\ RingOfWindow' /\ LastIsNewest' /\ LastIsTaken'
<1>1. Window' = Window /\ LastSlot' = LastSlot
  BY DEF Window, LastSlot
<1>2. WindowInv'
  <2>1. WindowInv
    BY DEF OnceInv
  <2> QED BY <1>1, <2>1 DEF WindowInv
<1>4. RingOfWindow'
  <2>1. RingOfWindow
    BY DEF OnceInv
  <2> QED BY <1>1, <2>1 DEF RingOfWindow, OfWindow
<1>5. LastIn' = LastIn
  BY <1>1 DEF LastIn
<1>6. LastIsTaken' /\ LastIsNewest'
  BY <1>1, <1>5 DEF OnceInv, LastIsTaken, LastIsNewest, Handed, Received
<1> QED BY <1>2, <1>4, <1>6

\* With mack_mode 1 a message is offered when the window before it is done.
LEMMA OffersOnce ==
    ASSUME Mack = 1, OnceInv, Offers
    PROVE /\ WindowInv' /\ RingOfWindow' /\ LastIsNewest' /\ LastIsTaken'
          /\ UpToOffered' /\ HandedOnce'
<1>0. RxInv /\ WindowInv /\ StationOK /\ TypeOK /\ UpToOffered /\ HandedOnce
  BY DEF OnceInv, RxInv
<1>1. /\ station.wait = 0 /\ station.todo = {} /\ ~station.clear
      /\ station.offered < MaxMsgs /\ station.offered \in Nat /\ station.iter \in Slots
  BY <1>0, OffersIs DEF StationOK
<1>2. Window = 0 /\ Len(station.win) = 0
  <2>1. Window \in Nat
    BY <1>0, WindowFacts
  <2> QED BY <1>0, <1>1, <2>1 DEF WindowInv, Window
<1>3. PICK size \in Sizes : Grows(size, 0, Packets(size))
  <2>1. \E size \in Sizes : Grows(size, Len(station.win), Packets(size))
    BY <1>0, OffersIs
  <2> QED BY <1>2, <2>1
<1> DEFINE n == Packets(size)
           m == station.offered + 1
<1>4. /\ n \in 1 .. IterMod - 1 /\ n < IterMod
      /\ Len(station'.win) = n
      /\ \A i \in 1 .. n : station'.win[i] = Offered(size, i - 1)
  BY <1>3 DEF Grows
<1>5. station'.offered = m /\ station'.todo = 1 .. n /\ station'.wait = 0 /\ ~station'.clear
  <2>1. PICK todo, iter, win : todo = 1 .. n /\ iter = At(station.iter + n) /\ win = station'.win
    OBVIOUS
  <2> HIDE DEF m, n
  <2>2. station' = [station EXCEPT !.offered = m, !.iter = iter, !.win = win, !.todo = todo]
    <3>1. 0 + 1 .. 0 + n = 1 .. n
      BY <1>4
    <3> QED BY <1>3, <2>1, <3>1 DEF Grows, m, n
  <2>3. station \in [offered : 0 .. MaxMsgs, iter : Slots, win : Seq(Frame),
                     todo : SUBSET Nat, wait : Nat, tries : Nat, clear : BOOLEAN]
    BY <1>0 DEF StationOK
  <2>4. station'.offered = m /\ station'.todo = todo /\ station'.wait = station.wait
    BY <2>2, <2>3
  <2>5. station'.clear = station.clear
    BY <2>2, <2>3
  <2> QED BY <1>1, <2>1, <2>4, <2>5
<1>6. UNCHANGED <<buf, dlIter, log>>
  BY DEF Offers, devVars
<1>7. ASSUME NEW i \in 1 .. n
      PROVE /\ Offered(size, i - 1).msg = m /\ Offered(size, i - 1).part = i - 1
            /\ Offered(size, i - 1).iter = At(station.iter + (i - 1))
            /\ Offered(size, i - 1).multi <=> n > 1
            /\ i = 1 /\ n > 1 => Offered(size, i - 1).n = n
            /\ i = n => Offered(size, i - 1).ack
  <2>1. station.iter % Mack = 0
    <3>1. 1 \in Nat \ {0} /\ station.iter \in Int
      BY <1>1 DEF Slots
    <3>2. station.iter % 1 \in 0 .. 1 - 1
      BY <3>1, DivMod
    <3> QED BY <3>2
  <2>2. i - 1 \in Int /\ n \in Int /\ (i = 1 => i - 1 = 0) /\ (i = n => i - 1 = n - 1)
    BY <1>4
  <2> HIDE DEF n
  <2>3. /\ Offered(size, i - 1).msg = m /\ Offered(size, i - 1).part = i - 1
        /\ Offered(size, i - 1).iter = At(station.iter + (i - 1))
        /\ i = 1 /\ n > 1 => Offered(size, i - 1).n = n
    BY <2>2 DEF Offered, n
  <2>4. Offered(size, i - 1).multi <=> n > 1
    BY DEF Offered, n
  <2>5. i = n => Offered(size, i - 1).ack
    BY <2>1, <2>2 DEF Offered, n
  <2> QED BY <2>3, <2>4, <2>5
<1> HIDE DEF n, m
<1>8. Window' = n
  BY <1>4 DEF Window
<1>9. WindowInv'
  <2>1. 1 \in 1 .. n /\ n \in 1 .. n /\ n > 0
    BY <1>4
  <2>2. station'.win[1].iter = station.iter
    <3>1. station'.win[1].iter = At(station.iter + (1 - 1))
      BY <1>4, <1>7, <2>1
    <3>2. station.iter + (1 - 1) = station.iter
      BY <1>1 DEF Slots
    <3> QED BY <1>1, <3>1, <3>2, AtSelf
  <2>3. station'.todo # {} /\ station'.win[n].ack
    BY <1>4, <1>5, <1>7, <2>1
  <2>4. \A j \in 1 .. n :
          /\ station'.win[j].msg = station'.offered
          /\ station'.win[j].part = j - 1
          /\ station'.win[j].iter = At(station'.win[1].iter + (j - 1))
          /\ j = 1 /\ n > 1 => station'.win[j].n = n
    BY <1>4, <1>5, <1>7, <2>2
  <2>5. \A j \in 1 .. n : station'.win[j].multi <=> n > 1
    BY <1>4, <1>7
  <2> QED BY <1>4, <1>5, <1>8, <2>1, <2>3, <2>4, <2>5 DEF WindowInv
<1>10. \A s \in Slots : buf[s].st # "FREE" => buf[s].f.msg # m
  <2>1. \A s \in Slots : buf[s].st # "FREE" =>
          buf[s].f.msg <= station.offered /\ buf[s].f.msg \in Nat
    BY <1>0 DEF RxInv, RingOK, WellFormed, Msgs
  <2> QED BY <1>1, <2>1 DEF m
<1>11. RingOfWindow'
  BY <1>5, <1>6, <1>10 DEF RingOfWindow
<1>12. LastIsNewest'
  <2>1. RxInv'
    BY <1>0, OffersRx
  <2>2. LastSlot' \in Slots /\ station'.win[n].msg = m
    <3>1. n \in 1 .. n
      BY <1>4
    <3>2. station'.win[n].iter = At(station.iter + (n - 1)) /\ station'.win[n].msg = m
      BY <1>4, <1>7, <3>1
    <3>3. station.iter + (n - 1) \in Int
      BY <1>1, <1>4 DEF Slots
    <3> QED BY <1>8, <3>2, <3>3, AtType DEF LastSlot
  <2>3. ~LastIn'
    BY <1>6, <1>8, <1>10, <2>2 DEF LastIn
  <2> QED BY <2>3 DEF LastIsNewest
<1>13. /\ UpToOffered' /\ HandedOnce'
       /\ \A i \in DOMAIN log : log[i] # m
  <2>1. \A i \in DOMAIN log : log[i] \in Int /\ log[i] <= station.offered
    <3>1. log \in Seq(Msgs \cup {Mixed}) /\ Msgs \cup {Mixed} \subseteq Int
      BY <1>0 DEF TypeOK, Msgs, Mixed
    <3>2. \A i \in DOMAIN log : log[i] \in Msgs \cup {Mixed}
      BY <3>1, ElementOfSeq, LenProperties
    <3> QED BY <1>0, <3>1, <3>2 DEF UpToOffered
  <2>2. \A i \in DOMAIN log : log[i] <= m /\ log[i] # m
    BY <1>1, <2>1 DEF m
  <2> QED BY <1>0, <1>5, <1>6, <2>2 DEF UpToOffered, HandedOnce
<1>14. LastIsTaken'
  BY <1>5, <1>6, <1>13 DEF LastIsTaken, Handed
<1> QED BY <1>9, <1>11, <1>12, <1>13, <1>14

LEMMA TimeoutOnce ==
    ASSUME OnceInv, Timeout
    PROVE /\ WindowInv' /\ RingOfWindow' /\ LastIsNewest' /\ LastIsTaken'
          /\ UpToOffered' /\ HandedOnce'
<1>0. /\ RxInv /\ StationOK /\ Asks /\ UpToOffered /\ HandedOnce
      /\ UNCHANGED <<buf, dlIter, log>> /\ station.wait # 0
  BY DEF OnceInv, RxInv, Timeout, devVars, histVars
<1>1. station \in [offered : 0 .. MaxMsgs, iter : Slots, win : Seq(Frame),
                   todo : SUBSET Nat, wait : Nat, tries : Nat, clear : BOOLEAN]
  BY <1>0 DEF StationOK
<1>2. CASE station' = [station EXCEPT !.todo = {station.wait}, !.wait = 0, !.tries = @ + 1]
  <2>1. PICK t, n : t = {station.wait} /\ n = station.tries + 1
    OBVIOUS
  <2>2. station' = [station EXCEPT !.todo = t, !.wait = 0, !.tries = n]
    BY <1>2, <2>1
  <2>3. /\ station'.offered = station.offered /\ station'.win = station.win
        /\ station'.todo = {station.wait} /\ station'.wait = 0
    BY <1>1, <2>1, <2>2
  <2>4. station'.clear = station.clear
    BY <1>1, <2>2
  <2>5. Window # 0 => \/ Window \notin station'.todo /\ station'.wait # Window
                      \/ /\ station.wait = Window \/ Window \in station.todo
                         /\ station'.todo \subseteq {Window}
    BY <2>3
  <2>6. Window # 0
    BY <1>0, WindowIs DEF Window
  <2>7. WindowInv' /\ RingOfWindow' /\ LastIsNewest' /\ LastIsTaken'
    BY <1>0, <2>3, <2>4, <2>5, <2>6, SameWindow
  <2> QED BY <1>0, <2>3, <2>7, LogStays
<1>3. CASE station' = [station EXCEPT !.win = <<>>, !.wait = 0, !.tries = 0]
  <2>1. station'.win = <<>> /\ station'.offered = station.offered
    BY <1>1, <1>3
  <2> QED BY <1>0, <2>1, NoWindow, LogStays
<1> QED BY <1>2, <1>3 DEF Timeout

\* The CLEAR command, ten minutes, a read and a step of nobody.
LEMMA QuietOnce ==
    ASSUME OnceInv, SendClear \/ TenMinutes \/ AppRead \/ UNCHANGED vars
    PROVE /\ WindowInv' /\ RingOfWindow' /\ LastIsNewest' /\ LastIsTaken'
          /\ UpToOffered' /\ HandedOnce'
<1>0. RxInv /\ WindowInv /\ StationOK /\ UpToOffered /\ HandedOnce
  BY DEF OnceInv, RxInv
<1>1. CASE SendClear
  <2>1. station' = [station EXCEPT !.clear = FALSE] /\ log' = log /\ station.clear
    BY <1>1 DEF SendClear
  <2>2. station'.win = station.win /\ station'.offered = station.offered
    BY <1>0, <2>1 DEF StationOK
  <2>3. Len(station'.win) = 0
    BY <1>0, <2>1, <2>2 DEF WindowInv, Window
  <2> QED BY <1>0, <2>1, <2>2, <2>3, NoWindow, LogStays
<1>2. CASE TenMinutes
  <2>1. station' = station /\ station.win = <<>> /\ log' = log
    BY <1>2 DEF TenMinutes, histVars
  <2> QED BY <1>0, <2>1, NoWindow, LogStays
<1>3. CASE AppRead \/ UNCHANGED vars
  <2>1. UNCHANGED <<buf, dlIter, station, log>>
    BY <1>3 DEF AppRead, vars, devVars, histVars
  <2> QED BY <2>1 DEF OnceInv, WindowInv, RingOfWindow, LastIsNewest, LastIsTaken, LastIn,
                      Window, LastSlot, OfWindow, Handed, Received, UpToOffered, HandedOnce
<1> QED BY <1>1, <1>2, <1>3

\* The ACK starts a repetition without the last packet, or ends the window.
LEMMA SendAckOnce ==
    ASSUME OnceInv, SendAck
    PROVE /\ WindowInv' /\ RingOfWindow' /\ LastIsNewest' /\ LastIsTaken'
          /\ UpToOffered' /\ HandedOnce'
<1>0. /\ RxInv /\ StationOK /\ Asks /\ UpToOffered /\ HandedOnce /\ WindowInv
      /\ RingOfWindow /\ LastIsNewest /\ LastIsTaken
      /\ UNCHANGED <<buf, dlIter, log>>
  BY DEF OnceInv, RxInv, SendAck
<1>1. station \in [offered : 0 .. MaxMsgs, iter : Slots, win : Seq(Frame),
                   todo : SUBSET Nat, wait : Nat, tries : Nat, clear : BOOLEAN]
  BY <1>0 DEF StationOK
<1>2. CASE UNCHANGED <<station, confirmed>>
  BY <1>0, <1>2 DEF OnceInv, WindowInv, RingOfWindow, LastIsNewest, LastIsTaken, LastIn,
                      Window, LastSlot, OfWindow, Handed, Received, UpToOffered, HandedOnce
<1>3. CASE station' = [station EXCEPT !.win = <<>>, !.wait = 0, !.tries = 0, !.clear = TRUE]
  <2>1. station'.win = <<>> /\ station'.offered = station.offered
    BY <1>1, <1>3
  <2> QED BY <1>0, <2>1, NoWindow, LogStays
<1>4. ASSUME NEW missing \in SUBSET (1 .. station.wait - 1), NEW last \in missing,
             station.wait # 0,
             station' = [station EXCEPT !.todo = missing, !.wait = 0, !.win[last].ack = TRUE]
      PROVE /\ WindowInv' /\ RingOfWindow' /\ LastIsNewest' /\ LastIsTaken'
            /\ UpToOffered' /\ HandedOnce'
  <2> DEFINE N == Window
  <2>0. /\ N \in Nat /\ station.win \in Seq(Frame) /\ N = Len(station.win)
        /\ station.wait \in 1 .. N /\ last \in 1 .. N /\ last < N
        /\ missing \in SUBSET Nat /\ N \notin missing
    BY <1>0, <1>4, WindowIs DEF Window
  <2> HIDE DEF N
  <2>1. PICK g : g = [station.win[last] EXCEPT !.ack = TRUE]
    OBVIOUS
  <2>2. station.win[last] \in Frame
    BY <1>0, <2>0, WindowFacts DEF N
  <2>3. /\ g \in Frame /\ g.msg = station.win[last].msg /\ g.iter = station.win[last].iter
        /\ g.part = station.win[last].part /\ g.n = station.win[last].n
    BY <2>1, <2>2 DEF Frame
  <2>4. g.multi <=> station.win[last].multi
    BY <2>1, <2>2 DEF Frame
  <2>5. PICK v : v = [station.win EXCEPT ![last] = g]
    OBVIOUS
  <2>6. v \in Seq(Frame) /\ Len(v) = N
        /\ \A i \in 1 .. N : v[i] = IF i = last THEN g ELSE station.win[i]
    BY <2>0, <2>3, <2>5, ExceptSeq
  <2>7. station' = [station EXCEPT !.todo = missing, !.wait = 0, !.win = v]
    BY <1>1, <1>4, <2>1, <2>5
  <2>8. /\ station'.offered = station.offered /\ station'.win = v
        /\ station'.todo = missing /\ station'.wait = 0
    BY <1>1, <2>0, <2>6, <2>7
  <2>9. station'.clear = station.clear
    BY <1>1, <2>7
  <2>10. /\ \A i \in 1 .. N : /\ v[i].msg = station.win[i].msg
                              /\ v[i].part = station.win[i].part
                              /\ v[i].iter = station.win[i].iter
                              /\ v[i].n = station.win[i].n
         /\ v[N] = station.win[N] /\ N > 0
    BY <2>0, <2>3, <2>6
  <2>11. \A i \in 1 .. N : v[i].multi <=> station.win[i].multi
    BY <2>4, <2>6
  <2>12. Window' = N /\ LastSlot' = LastSlot
    BY <2>6, <2>8, <2>10 DEF Window, LastSlot, N
  <2>13. WindowInv'
    <3>1. 1 \in 1 .. N
      BY <2>0, <2>10
    <3>2. \A j \in 1 .. N :
            /\ v[j].msg = station.offered
            /\ v[j].part = j - 1
            /\ v[j].iter = At(v[1].iter + (j - 1))
            /\ j = 1 /\ N > 1 => v[j].n = N
      BY <1>0, <2>10, <3>1 DEF WindowInv, N
    <3>3. \A j \in 1 .. N : v[j].multi <=> N > 1
      BY <1>0, <2>11 DEF WindowInv, N
    <3>4. /\ station'.clear => N = 0
          /\ station'.todo # {} /\ N < IterMod /\ v[N].ack
      BY <1>0, <1>4, <2>8, <2>9, <2>10 DEF WindowInv, N
    <3> QED BY <2>8, <2>12, <3>2, <3>3, <3>4 DEF WindowInv
  <2>14. ASSUME NEW s \in Slots, buf[s].st # "FREE", buf[s].f.msg = station.offered
         PROVE /\ buf[s].f.part + 1 \in 1 .. N
               /\ s = v[buf[s].f.part + 1].iter
               /\ buf[s].f.n = v[buf[s].f.part + 1].n
               /\ buf[s].f.part + 1 = N => buf[s].f = v[N]
    <3>1. OfWindow(s, buf[s].f)
      BY <1>0, <2>10, <2>14 DEF RingOfWindow, N
    <3> QED BY <2>10, <3>1 DEF OfWindow, N
  <2>15. RingOfWindow'
    BY <1>0, <2>8, <2>12, <2>14 DEF RingOfWindow, OfWindow
  <2>16. LastIn' = LastIn
    BY <1>0, <2>8, <2>10, <2>12 DEF LastIn, N
  <2>17. LastIsNewest' /\ LastIsTaken'
    BY <1>0, <2>0, <2>8, <2>10, <2>12, <2>16 DEF LastIsNewest, LastIsTaken, Handed, Received, N
  <2> QED BY <1>0, <2>8, <2>13, <2>15, <2>17, LogStays
<1>5. CASE Confirm(ackPkt.iter, ackPkt.has)
  BY <1>0, <1>2, <1>3, <1>4, <1>5, ConfirmIs
<1> QED BY <1>2, <1>5 DEF SendAck

\* A packet of the window goes out.  Once the message has been handed over,
\* its last packet is a duplicate of the one in the ring.
LEMMA TransmitsOnce ==
    ASSUME OnceInv, Transmits
    PROVE /\ WindowInv' /\ RingOfWindow' /\ LastIsNewest' /\ LastIsTaken'
          /\ UpToOffered' /\ HandedOnce'
<1>0. /\ RxInv /\ StationOK /\ Asks /\ UpToOffered /\ HandedOnce /\ WindowInv
      /\ RingOfWindow /\ LastIsNewest /\ LastIsTaken /\ TypeOK
  BY DEF OnceInv, RxInv
<1> DEFINE N == Window
           m == station.offered
<1>1. PICK j \in station.todo :
        /\ \A u \in station.todo : j <= u
        /\ station' = [station EXCEPT !.todo = station.todo \ {j},
                                      !.wait = IF station.win[j].ack THEN j ELSE 0]
        /\ Receive(station.win[j]) \/ UNCHANGED <<devVars, log>>
  BY <1>0, TransmitsIs
<1>2. /\ N \in Nat /\ N > 0 /\ j \in 1 .. N /\ LastSlot \in Slots
      /\ station.todo \subseteq 1 .. N /\ m \in Nat /\ m \in Msgs
  <2>1. N \in Nat /\ j \in 1 .. N /\ station.todo \subseteq 1 .. N
    BY <1>0, WindowFacts
  <2>2. m \in Msgs
    <3>1. station.win[j].msg = m /\ WellFormed(station.win[j])
      BY <1>0, <2>1, WindowFacts DEF WindowInv
    <3> QED BY <3>1 DEF WellFormed
  <2> QED BY <1>0, <2>1, <2>2, WindowFacts DEF Msgs
<1>3. /\ station'.offered = station.offered /\ station'.win = station.win
      /\ station'.todo = station.todo \ {j}
      /\ station'.wait = IF station.win[j].ack THEN j ELSE 0
      /\ station'.clear = station.clear
  <2>1. station \in [offered : 0 .. MaxMsgs, iter : Slots, win : Seq(Frame),
                     todo : SUBSET Nat, wait : Nat, tries : Nat, clear : BOOLEAN]
    BY <1>0 DEF StationOK
  <2>2. PICK w, t : w = (IF station.win[j].ack THEN j ELSE 0) /\ t = station.todo \ {j}
    OBVIOUS
  <2>3. station' = [station EXCEPT !.todo = t, !.wait = w]
    BY <1>1, <2>2
  <2>4. /\ station'.offered = station.offered /\ station'.win = station.win
        /\ station'.todo = t /\ station'.wait = w
    BY <2>1, <2>3
  <2>5. station'.clear = station.clear
    BY <2>1, <2>3
  <2> QED BY <2>2, <2>4, <2>5
<1>4. station'.wait # 0 \/ station'.todo # {}
  <2>1. station.win[N].ack
    BY <1>0, <1>2 DEF WindowInv
  <2>2. station.win[j].ack \/ j = N \/ \E u \in station.todo : u > j
    BY <1>0 DEF Asks, N, Window
  <2>3. ASSUME NEW u \in station.todo, u > j PROVE u \in station'.todo
    BY <1>2, <1>3, <2>3
  <2>4. station.win[j].ack => station'.wait # 0
    BY <1>2, <1>3
  <2> QED BY <2>1, <2>2, <2>3, <2>4
<1>5. /\ N \in station'.todo => N \in station.todo /\ j # N
      /\ station'.wait = N => j = N
      /\ j = N => station.todo = {N} /\ station'.todo = {}
      /\ station.wait = 0
  <2>1. j = N => \A u \in station.todo : u = N
    BY <1>1, <1>2
  <2>2. station.wait = 0
    BY <1>0, <1>1 DEF Asks
  <2> QED BY <1>2, <1>3, <2>1, <2>2
<1>6. Window' = N /\ LastSlot' = LastSlot
  BY <1>3 DEF Window, LastSlot
<1>7. WindowInv'
  BY <1>0, <1>3, <1>4, <1>6 DEF WindowInv
<1>8. CASE UNCHANGED <<devVars, log>>
  <2>1. UNCHANGED <<buf, dlIter, log>>
    BY <1>8 DEF devVars
  <2>2. RingOfWindow'
    BY <1>0, <1>3, <1>6, <2>1 DEF RingOfWindow, OfWindow
  <2>3. LastIn' = LastIn
    BY <1>3, <1>6, <2>1 DEF LastIn
  <2>4. LastIsTaken'
    BY <1>0, <1>3, <1>6, <2>1, <2>3 DEF LastIsTaken, Handed, Received
  <2>5. LastIsNewest'
    <3>1. LastIn /\ (station'.wait = N \/ N \in station'.todo) => N \in station.todo
      BY <1>5
    <3>2. LastIn /\ N \in station.todo => dlIter = LastSlot /\ station.todo \subseteq {N}
      BY <1>0, <1>2 DEF LastIsNewest
    <3> QED BY <1>3, <1>6, <2>1, <2>3, <3>1, <3>2 DEF LastIsNewest
  <2> QED BY <1>0, <1>3, <1>7, <2>1, <2>2, <2>4, <2>5, LogStays
<1>9. CASE Receive(station.win[j])
  <2> DEFINE d == station.win[j].iter
  <2>0. /\ dlIter' = d
        /\ buf'[d].f = station.win[j]
        /\ \A s \in Slots \ {d} : /\ buf'[s].f = buf[s].f
                                  /\ buf'[s].st = "FREE" <=> buf[s].st = "FREE"
        /\ \A s \in Slots : buf'[s].st # "FREE" /\ buf'[s].f.msg = m => OfWindow(s, buf'[s].f)
        /\ m \in Handed => /\ buf'[LastSlot].st # "FREE" /\ buf'[LastSlot].f = station.win[N]
                           /\ ~Received(buf', LastSlot)
        /\ \/ log' = log \/ log' = Append(log, Mixed)
           \/ /\ log' = Append(log, m)
              /\ m \notin Handed
              /\ buf'[LastSlot].st # "FREE" /\ buf'[LastSlot].f = station.win[N]
              /\ ~Received(buf', LastSlot)
    BY <1>1, <1>9, ReceiveOnce
  <2>1. RingOfWindow'
    BY <1>3, <1>6, <2>0 DEF RingOfWindow, OfWindow
  <2>2. LastIn' <=> buf'[LastSlot].st # "FREE" /\ buf'[LastSlot].f = station.win[N]
    BY <1>3, <1>6 DEF LastIn
  <2>3. LastIsNewest'
    <3> SUFFICES ASSUME LastIn', station'.wait = N \/ N \in station'.todo
                 PROVE dlIter' = LastSlot /\ station'.todo \subseteq {N}
      BY <1>3, <1>6 DEF LastIsNewest
    <3>1. CASE j = N
      <4>1. d = LastSlot
        BY <3>1 DEF LastSlot
      <4> QED BY <1>5, <2>0, <3>1, <4>1
    <3>2. CASE j # N
      <4>1. N \in station.todo
        BY <1>5, <3>2
      <4>2. d # LastSlot
        <5>1. j < N /\ N \in 1 .. N
          BY <1>2, <3>2
        <5> QED BY <1>0, <1>2, <5>1, ItersApart DEF LastSlot
      <4>3. LastIn
        BY <1>2, <2>0, <2>2, <4>2 DEF LastIn
      <4>4. station.todo \subseteq {N}
        BY <1>0, <1>2, <4>1, <4>3 DEF LastIsNewest
      <4> QED BY <3>2, <4>4
    <3> QED BY <3>1, <3>2
  <2>4. log' = log => LastIsTaken' /\ UpToOffered' /\ HandedOnce'
    <3>1. log' = log => UpToOffered' /\ HandedOnce'
      BY <1>0, <1>3, LogStays
    <3>2. log' = log => LastIsTaken'
      BY <1>3, <1>6, <2>0, <2>2 DEF LastIsTaken, Handed
    <3> QED BY <3>1, <3>2
  <2>5. ASSUME NEW p \in {Mixed, m}, log' = Append(log, p),
               p = m => m \notin Handed
        PROVE UpToOffered' /\ HandedOnce'
    <3>1. /\ DOMAIN log' = 1 .. Len(log) + 1 /\ Len(log) \in Nat /\ DOMAIN log = 1 .. Len(log)
          /\ \A i \in 1 .. Len(log) : log'[i] = log[i]
          /\ log'[Len(log) + 1] = p
      BY <1>0, <1>2, <2>5, HandedGrows
    <3>2. \A i \in 1 .. Len(log) : log[i] <= m /\ log[i] \in Handed /\ log[i] \in Int
      <4>1. \A i \in DOMAIN log : log[i] \in Msgs \cup {Mixed}
        BY <1>0, ElementOfSeq, LenProperties DEF TypeOK
      <4> QED BY <1>0, <3>1, <4>1 DEF UpToOffered, Handed, Msgs, Mixed
    <3>3. p <= m /\ p \in Int /\ Mixed \notin Msgs
      BY <1>2 DEF Mixed, Msgs
    <3>4. UpToOffered'
      BY <1>3, <3>1, <3>2, <3>3 DEF UpToOffered
    <3>5. ASSUME NEW i \in DOMAIN log', NEW k \in DOMAIN log', i < k, log'[k] \in Msgs
          PROVE log'[i] < log'[k]
      <4>1. i \in 1 .. Len(log) /\ log'[i] = log[i]
        BY <3>1, <3>5
      <4>2. CASE k = Len(log) + 1
        <5>1. p = m
          BY <3>1, <3>3, <3>5, <4>2
        <5>2. log[i] # m
          BY <2>5, <3>2, <4>1, <5>1
        <5> QED BY <1>2, <3>1, <3>2, <4>1, <4>2, <5>1, <5>2
      <4>3. CASE k # Len(log) + 1
        <5>1. k \in 1 .. Len(log) /\ log'[k] = log[k]
          BY <3>1, <4>3
        <5> QED BY <1>0, <3>1, <3>5, <4>1, <5>1 DEF HandedOnce
      <4> QED BY <4>2, <4>3
    <3>6. HandedOnce'
      BY <3>5 DEF HandedOnce
    <3> QED BY <3>4, <3>6
  <2>6. ASSUME log' = Append(log, Mixed) PROVE LastIsTaken'
    <3>1. Handed' = Handed \cup {Mixed} /\ m # Mixed
      BY <1>0, <1>2, <2>6, HandedGrows DEF Mixed, Msgs
    <3>2. m \in Handed' => m \in Handed
      BY <3>1
    <3> QED BY <1>3, <1>6, <2>0, <2>2, <3>2 DEF LastIsTaken
  <2>7. CASE log' = Append(log, m) /\ m \notin Handed
    <3>1. LastIsTaken'
      <4>1. log' # log
        <5>1. Len(log') = Len(log) + 1 /\ Len(log) \in Nat
          BY <1>0, <1>2, <2>7, HandedGrows
        <5> QED BY <5>1
      <4>2. m # Mixed
        BY <1>2 DEF Mixed, Msgs
      <4>3. log' # Append(log, Mixed)
        <5>1. log'[Len(log) + 1] = m
          BY <1>0, <1>2, <2>7, HandedGrows
        <5>2. log' = Append(log, Mixed) => log'[Len(log) + 1] = Mixed
          BY <1>0, HandedGrows
        <5> QED BY <4>2, <5>1, <5>2
      <4> QED BY <1>3, <1>6, <2>0, <2>2, <4>1, <4>3 DEF LastIsTaken
    <3> QED BY <1>7, <2>1, <2>3, <2>5, <2>7, <3>1
  <2>8. CASE log' = Append(log, Mixed)
    <3>1. Mixed # m
      BY <1>2 DEF Mixed, Msgs
    <3> QED BY <1>7, <2>1, <2>3, <2>5, <2>6, <2>8, <3>1
  <2> QED BY <1>7, <2>0, <2>1, <2>3, <2>4, <2>7, <2>8
<1> QED BY <1>1, <1>8, <1>9

LEMMA OnceInit == Init => OnceInv
<1> SUFFICES ASSUME Init PROVE OnceInv
  OBVIOUS
<1>1. RxInv
  BY RxInit
<1>2. station.win = <<>> /\ log = <<>> /\ DOMAIN log = {}
  BY DEF Init
<1>3. Window = 0 /\ 1 .. Window = {}
  BY <1>2 DEF Window
<1> QED BY <1>1, <1>2, <1>3 DEF OnceInv, WindowInv, RingOfWindow, LastIsNewest, LastIsTaken,
                               UpToOffered, HandedOnce

LEMMA OnceStep ==
    ASSUME Mack = 1, OnceInv, [Next]_vars
    PROVE OnceInv'
<1>1. RxInv'
  BY RxStep DEF OnceInv
<1>2. /\ WindowInv' /\ RingOfWindow' /\ LastIsNewest' /\ LastIsTaken'
      /\ UpToOffered' /\ HandedOnce'
  BY OffersOnce, TransmitsOnce, SendAckOnce, TimeoutOnce, QuietOnce DEF Next
<1> QED BY <1>1, <1>2 DEF OnceInv

LEMMA OnceInvariant ==
    ASSUME Mack = 1
    PROVE Spec => []OnceInv
<1>1. OnceInv /\ [Next]_vars => OnceInv'
  BY OnceStep
<1> QED BY <1>1, OnceInit, PTL DEF Spec

\* With mack_mode 1 a message is handed to the queue at most once and never
\* after a later one, whatever the base station repeats because an ACK was
\* lost, came late or carried a stale mask: a packet that is sent again after
\* its message was handed over is the one received last, which the check for
\* duplicates knows (nbfi_transport.c:540-567).
THEOREM HandsOnce ==
    ASSUME Mack = 1
    PROVE Spec => []HandedOnce
<1>1. OnceInv => HandedOnce
  BY DEF OnceInv
<1> QED BY <1>1, OnceInvariant, PTL

-----------------------------------------------------------------------------
(***************************************************************************)
(* The transport implements the downlink service, with mack_mode 1 and the *)
(* group start that carries a CRC.                                         *)
(***************************************************************************)
\* The messages at the positions r of the history l, and the last of them.
Selected(l, r) == [i \in DOMAIN r |-> l[r[i]]]

LastOf(l, r) ==
    IF Selected(l, r) = <<>> THEN 0 ELSE Selected(l, r)[Len(Selected(l, r))]

LEMMA LastOfIs ==
    ASSUME NEW l \in Seq(Msgs \cup {Mixed}), NEW r \in Seq(Nat),
           \A i \in DOMAIN r : r[i] \in 1 .. Len(l)
    PROVE /\ Len(r) = 0 => LastOf(l, r) = 0
          /\ Len(r) > 0 => LastOf(l, r) = l[r[Len(r)]] /\ r[Len(r)] \in DOMAIN l
<1> DEFINE s == Selected(l, r)
<1>1. Len(r) \in Nat /\ DOMAIN r = 1 .. Len(r) /\ DOMAIN l = 1 .. Len(l)
  BY LenProperties
<1>2. \A p \in DOMAIN l : l[p] \in Msgs \cup {Mixed}
  BY ElementOfSeq, LenProperties
<1>3. s \in [1 .. Len(r) -> Msgs \cup {Mixed}]
  BY <1>1, <1>2 DEF Selected
<1>4. \A i \in 1 .. Len(r) : s[i] = l[r[i]]
  BY <1>1 DEF Selected
<1>5. LastOf(l, r) = IF s = <<>> THEN 0 ELSE s[Len(s)]
  BY DEF LastOf
<1> HIDE DEF s
<1>6. s \in Seq(Msgs \cup {Mixed}) /\ Len(s) = Len(r)
  BY <1>1, <1>3, AsSeq
<1>7. s = <<>> <=> Len(r) = 0
  BY <1>6, EmptySeq
<1>8. Len(r) > 0 => Len(r) \in 1 .. Len(r)
  BY <1>1
<1> QED BY <1>1, <1>4, <1>5, <1>6, <1>7, <1>8

\* The message the application read last.
LastRead == LastOf(log, read)

LEMMA LastReadIs ==
    ASSUME TypeOK, ReadInv
    PROVE /\ Len(read) = 0 => LastRead = 0
          /\ Len(read) > 0 => LastRead = log[read[Len(read)]] /\ read[Len(read)] \in DOMAIN log
BY LastOfIs DEF TypeOK, ReadInv, LastRead

LEMMA LastReadNext ==
    ASSUME TypeOK', ReadInv'
    PROVE /\ Len(read') = 0 => LastRead' = 0
          /\ Len(read') > 0 => LastRead' = log'[read'[Len(read')]]
<1>1. /\ log' \in Seq(Msgs \cup {Mixed}) /\ read' \in Seq(Nat)
      /\ \A i \in DOMAIN read' : read'[i] \in 1 .. Len(log')
  BY DEF TypeOK, ReadInv
<1>2. LastRead' = LastOf(log', read')
  BY DEF LastRead, LastOf, Selected
<1> QED BY <1>1, <1>2, LastOfIs

ServiceInv == RxInv /\ QueueInv /\ OnceInv /\ HandedWhole

\* A read takes a message after the one read last.
LEMMA ReadsNext ==
    ASSUME ServiceInv, AppRead
    PROVE LastRead' \in LastRead + 1 .. station.offered /\ station'.offered = station.offered
<1> DEFINE i == NextReady(queue, head)
           e == queue[i].pos
           R == Len(read)
<1>0. TypeOK /\ QueueInv /\ ReadInv /\ HandedOnce /\ UpToOffered /\ StationOK
  BY DEF ServiceInv, RxInv, QueueInv, OnceInv
<1>1. /\ read' = Append(read, e) /\ i \in Ready(queue)
      /\ UNCHANGED <<log, station>>
  BY <1>0, NextReadyIs DEF AppRead
<1>2. TypeOK' /\ ReadInv'
  <2>1. QueueInv' /\ RxInv'
    BY <1>0, AppReadRx, QueueRead DEF ServiceInv
  <2> QED BY <2>1 DEF QueueInv, RxInv
<1>3. /\ DOMAIN queue = Positions /\ DOMAIN log = 1 .. Len(log)
      /\ R \in Nat /\ DOMAIN read = 1 .. R /\ read \in Seq(Nat)
  BY <1>0, QueueType
<1>4. i \in Positions /\ queue[i].ready
  BY <1>1, <1>3 DEF Ready
<1>5. e \in DOMAIN log /\ e \in Nat
  BY <1>0, <1>3, <1>4 DEF QueueInv, ReadyInv
<1>6. \A r \in 1 .. R : read[r] < e
  BY <1>0, <1>3, <1>4 DEF QueueInv, UnreadInv
<1> HIDE DEF e, i
<1>7. Len(read') = R + 1 /\ read'[R + 1] = e
  BY <1>1, <1>3, <1>5, AppendProperties
<1>8. LastRead' = log[e]
  <2>1. Len(read') > 0 => LastRead' = log'[read'[Len(read')]]
    BY <1>2, LastReadNext
  <2> QED BY <1>1, <1>3, <1>7, <2>1
<1>9. log[e] \in Msgs /\ log[e] <= station.offered
  <2>1. log[e] \in Msgs \cup {Mixed}
    BY <1>0, <1>5, ElementOfSeq, LenProperties DEF TypeOK
  <2>2. log[e] # Mixed
    BY <1>5 DEF ServiceInv, HandedWhole, Handed
  <2> QED BY <1>0, <1>5, <2>1, <2>2 DEF UpToOffered
<1>10. log[e] \in Int /\ log[e] > 0 /\ station.offered \in Int
  BY <1>0, <1>9 DEF Msgs, StationOK
<1>11. CASE R = 0
  <2>1. LastRead = 0
    BY <1>0, <1>11, LastReadIs
  <2> QED BY <1>1, <1>8, <1>9, <1>10, <2>1
<1>12. CASE R > 0
  <2>1. LastRead = log[read[R]] /\ read[R] \in DOMAIN log
    BY <1>0, <1>12, LastReadIs
  <2>2. read[R] < e
    BY <1>3, <1>6, <1>12
  <2>3. LastRead < log[e] /\ LastRead \in Int
    <3>1. log[read[R]] < log[e]
      BY <1>0, <1>5, <1>9, <2>1, <2>2 DEF HandedOnce
    <3>2. log[read[R]] \in Msgs \cup {Mixed}
      BY <1>0, <2>1, ElementOfSeq, LenProperties DEF TypeOK
    <3> QED BY <2>1, <3>1, <3>2 DEF Msgs, Mixed
  <2> QED BY <1>1, <1>8, <1>9, <1>10, <2>3
<1> QED BY <1>3, <1>11, <1>12

\* What was read keeps its place in the history.
LEMMA ReadStays ==
    ASSUME ServiceInv, ServiceInv', read' = read,
           log' = log \/ \E p \in Msgs \cup {Mixed} : log' = Append(log, p)
    PROVE LastRead' = LastRead
<1>1. TypeOK /\ ReadInv /\ TypeOK' /\ ReadInv'
  BY DEF ServiceInv, RxInv, QueueInv
<1>2. \A i \in DOMAIN log : log'[i] = log[i]
  BY <1>1, HandedGrows
<1>3. Len(read) = 0 \/ Len(read) > 0
  BY <1>1, QueueType
<1>4. /\ Len(read) = 0 => LastRead = 0
      /\ Len(read) > 0 => LastRead = log[read[Len(read)]] /\ read[Len(read)] \in DOMAIN log
  BY <1>1, LastReadIs
<1>5. /\ Len(read') = 0 => LastRead' = 0
      /\ Len(read') > 0 => LastRead' = log'[read'[Len(read')]]
  BY <1>1, LastReadNext
<1> QED BY <1>2, <1>3, <1>4, <1>5

\* Only an offer changes the number of messages offered.
LEMMA OfferedStays ==
    ASSUME RxInv, [Next]_vars
    PROVE \/ station'.offered = station.offered
          \/ /\ Offers /\ station.offered < MaxMsgs
             /\ station'.offered = station.offered + 1
<1>0. StationOK /\ Asks /\ confirmed \subseteq Msgs
  BY DEF RxInv, TypeOK
<1>1. station \in [offered : 0 .. MaxMsgs, iter : Slots, win : Seq(Frame),
                   todo : SUBSET Nat, wait : Nat, tries : Nat, clear : BOOLEAN]
  BY <1>0 DEF StationOK
<1>2. CASE Offers
  <2>1. station.offered < MaxMsgs
    BY <1>0, <1>2, OffersIs
  <2>2. PICK size \in Sizes : Grows(size, Len(station.win), Packets(size))
    BY <1>0, <1>2, OffersIs
  <2>3. PICK m, iter, win, todo :
          /\ m = station.offered + 1 /\ iter = At(station.iter + Packets(size))
          /\ win = station'.win
          /\ todo = Len(station.win) + 1 .. Len(station.win) + Packets(size)
    OBVIOUS
  <2>4. station' = [station EXCEPT !.offered = m, !.iter = iter, !.win = win, !.todo = todo]
    BY <2>2, <2>3, Zenon DEF Grows
  <2>5. station'.offered = m
    BY <1>1, <2>4
  <2> QED BY <1>2, <2>1, <2>3, <2>5
<1>3. CASE Transmits
  <2>1. PICK w, t : station' = [station EXCEPT !.todo = t, !.wait = w]
    BY <1>0, <1>3, TransmitsIs
  <2> QED BY <1>1, <2>1
<1>4. CASE SendAck
  BY <1>0, <1>4, ConfirmRx DEF SendAck
<1>5. CASE Timeout
  <2>1. CASE station' = [station EXCEPT !.todo = {station.wait}, !.wait = 0, !.tries = @ + 1]
    BY <1>1, <2>1
  <2>2. CASE station' = [station EXCEPT !.win = <<>>, !.wait = 0, !.tries = 0]
    BY <1>1, <2>2
  <2> QED BY <1>5, <2>1, <2>2 DEF Timeout
<1>6. CASE SendClear
  <2>1. station' = [station EXCEPT !.clear = FALSE]
    BY <1>6 DEF SendClear
  <2> QED BY <1>1, <2>1
<1>7. CASE AppRead \/ TenMinutes \/ UNCHANGED vars
  BY <1>7 DEF AppRead, TenMinutes, vars
<1> QED BY <1>2, <1>3, <1>4, <1>5, <1>6, <1>7 DEF Next

LEMMA ServiceStep ==
    ASSUME Start = "GROUP_START", ServiceInv, ServiceInv', [Next]_vars
    PROVE [Service!Next]_(Service!vars)
<1>0. RxInv
  BY DEF ServiceInv
<1>1. CASE AppRead
  BY <1>1, ReadsNext DEF Service!Next, Service!Read, ReadMsgs, LastRead, LastOf, Selected
<1>2. CASE /\ read' = read
           /\ log' = log \/ \E p \in Msgs \cup {Mixed} : log' = Append(log, p)
  <2>1. LastRead' = LastRead
    BY <1>2, ReadStays
  <2> QED BY <1>0, <2>1, OfferedStays
          DEF Service!Next, Service!Offer, Service!vars, ReadMsgs, LastRead, LastOf, Selected
<1>3. AppRead \/ UNCHANGED <<log, read>>
      \/ /\ read' = read /\ \E p \in Msgs \cup {Mixed} : log' = Append(log, p)
  <2>1. 1 .. station.offered \subseteq Msgs
    BY <1>0 DEF RxInv, StationOK, Msgs
  <2> QED BY <1>0, <2>1, LogStep, ReceiveWhole
<1> QED BY <1>1, <1>2, <1>3

\* What the application reads is an increasing selection of what the base
\* station offered: every state change of the transport is an offer, a read
\* of a later message, or nothing the application can see
\* (nbfi_transport.c:540-567, nbfi_transport_misc.c:794-829).
THEOREM ImplementsService ==
    ASSUME Mack = 1, Start = "GROUP_START"
    PROVE Spec => ServiceSpec
<1>1. Init => Service!Init
  <2> SUFFICES ASSUME Init PROVE Service!Init
    OBVIOUS
  <2>1. TypeOK /\ ReadInv
    BY RxInit, QueueInit DEF RxInv, QueueInv
  <2>2. Len(read) = 0 /\ station.offered = 0
    BY DEF Init
  <2>3. LastRead = 0
    BY <2>1, <2>2, LastReadIs
  <2> QED BY <2>2, <2>3 DEF Service!Init, ReadMsgs, LastRead, LastOf, Selected
<1>2. RxInv /\ QueueInv /\ OnceInv /\ HandedWhole <=> ServiceInv
  BY DEF ServiceInv
<1>3. ServiceInv /\ ServiceInv' /\ [Next]_vars => [Service!Next]_(Service!vars)
  BY ServiceStep
<1>4. Spec => []HandedWhole
  BY CrcTellsMixes
<1>5. Spec => []OnceInv
  BY OnceInvariant
<1> QED
  BY <1>1, <1>2, <1>3, <1>4, <1>5, RxInvariant, QueueInvariant, PTL
     DEF Spec, ServiceSpec, Service!Spec
-----------------------------------------------------------------------------
(***************************************************************************)
(* Confirmed: with mack_mode 1, and as long as no more than one lap of     *)
(* ITERs was used since the ring was cleared, a slot that counts in the    *)
(* ACK mask under the ITER of a packet of the window holds that packet,    *)
(* and an ACK under way that names it was queued after it was received.    *)
(* A packet that was received waits in the ring until its message is       *)
(* handed over: nothing clears it, since no slot of the window is old, no  *)
(* group of an older message reaches into it, and the group of the message *)
(* itself has no packet of another one.                                    *)
(***************************************************************************)
Counts(b, s) == b[s].st \in {"RECEIVED", "PROCESSED"}     \* in the ACK mask

\* The ITERs that were not used since the ring was cleared, and those of the
\* window.
Unused   == {At(station.iter + j) : j \in 0 .. IterMod - sinceClear - 1}
WinSlots == {station.win[j].iter : j \in 1 .. Window}

InRing(b, s) == b[s].st # "FREE" /\ b[s].f.msg = station.offered

Waits(b, s) == InRing(b, s) /\ Received(b, s) /\ ~b[s].old

\* Packet j was sent before those that are still to be sent or answered.
Past(j) == j > station.wait /\ \A t \in station.todo : j > t

Named(s) == s = ackPkt.iter \/ s \in ackPkt.has

UnusedInv ==
    /\ WinSlots \cap Unused = {}
    /\ \A s \in Unused : ~Counts(buf, s) /\ ~Named(s)

GroupsApart ==
    \A s \in Slots : Received(buf, s) /\ IsStart(buf[s].f) =>
        /\ GroupFrom(s, buf[s].f.n) \cap Unused = {}
        /\ buf[s].f.msg # station.offered => GroupFrom(s, buf[s].f.n) \cap WinSlots = {}

KeptInv ==
    \A j \in 1 .. Window : LET s == station.win[j].iter IN
        /\ Counts(buf, s) => InRing(buf, s)
        /\ InRing(buf, s) => Waits(buf, s) \/ station.offered \in Handed
        /\ InRing(buf, s) => /\ buf[s].f.multi <=> Window > 1
                             /\ IsStart(buf[s].f) <=> IsStart(station.win[j])
        /\ j = 1 /\ Window > 1 => IsStart(station.win[j])
        /\ Named(s) \/ Past(j) => InRing(buf, s) \/ station.offered \in Handed

LapInv == sinceClear <= IterMod => UnusedInv /\ GroupsApart /\ KeptInv

ConfirmInv ==
    /\ OnceInv
    /\ sinceClear \in 0 .. IterMod + 1
    /\ station.clear => ackPkt = NoAck
    /\ LapInv
    /\ ConfirmedIsHanded

\* A cell of the ring that a payload is taken from was waiting.
LEMMA TakenOnly ==
    ASSUME NEW b, NEW m, RingOK(b, m), NEW s \in Complete(b), NEW u \in Slots
    PROVE Taken(b, s)[u] = b[u] \/ Received(b, u)
<1>0. b \in [Slots -> Cell] /\ s \in Slots /\ Received(b, s)
  BY DEF RingOK, Complete
<1>1. CASE b[s].f.kind = "SHORT"
  <2>1. Taken(b, s) =
          [b EXCEPT ![s] = [b[s] EXCEPT !.st = IF Mack < 2 THEN "PROCESSED" ELSE "PROCESSING"]]
    BY <1>1 DEF Taken
  <2> QED BY <1>0, <2>1
<1>2. CASE b[s].f.kind # "SHORT"
  <2> DEFINE group == IF IsGroup(b, s) THEN GroupFrom(s, b[s].f.n) ELSE {s}
             keep(v) == ~b[v].f.ack \/ (Mack < 2 /\ ~IsGroup(b, s))
  <2>1. Taken(b, s)[u] = IF u \in group
                         THEN [b[u] EXCEPT !.st = IF keep(u) THEN "PROCESSED" ELSE "CLEARED"]
                         ELSE b[u]
    BY <1>2 DEF Taken
  <2>2. u \in group => Received(b, u)
    BY <1>0 DEF IsGroup
  <2> QED BY <2>1, <2>2
<1> QED BY <1>1, <1>2

\* Only what is old is cleared when a group starts.
LEMMA KeptYoung ==
    ASSUME RxInv, NEW f, NEW s \in Slots
    PROVE \/ Kept(f)[s] = buf[s]
          \/ buf[s].old /\ Kept(f)[s].st = "CLEARED"
<1>1. buf[s] \in Cell /\ (buf[s].st # "FREE" => buf[s].f.iter # None)
  BY DEF RxInv, RingOK, None, Slots
<1>2. CASE IsStart(f) /\ notCleared
  <2>1. Kept(f)[s] = IF buf[s].st # "FREE" /\ buf[s].old
                     THEN [buf[s] EXCEPT !.st = "CLEARED"] ELSE buf[s]
    BY <1>1, <1>2 DEF Kept, Clear
  <2> QED BY <1>1, <2>1 DEF Cell
<1>3. CASE ~(IsStart(f) /\ notCleared)
  BY <1>3 DEF Kept
<1> QED BY <1>2, <1>3

\* The group of the message in the window takes the slots of the window.
LEMMA GroupIsWindow ==
    ASSUME RxInv, WindowInv, NEW s \in Slots, NEW f, WellFormed(f), IsStart(f), OfWindow(s, f)
    PROVE /\ s = station.win[1].iter /\ f.n = Window /\ Window > 1
          /\ GroupFrom(s, f.n) = WinSlots
<1>1. f.part = 0 /\ f.multi /\ Window \in Nat /\ 1 \in 1 .. Window
  <2>1. f.part = 0 /\ f.multi
    BY DEF WellFormed
  <2>2. f.part + 1 \in 1 .. Window
    BY DEF OfWindow
  <2> QED BY <2>1, <2>2, WindowFacts
<1>2. s = station.win[1].iter /\ f.n = station.win[1].n /\ (Window = 1 => f = station.win[1])
  BY <1>1 DEF OfWindow
<1>3. station.win[1].multi <=> Window > 1
  BY <1>1 DEF WindowInv
<1>4. Window > 1
  BY <1>1, <1>2, <1>3
<1>5. f.n = Window
  BY <1>1, <1>2, <1>3, <1>4 DEF WindowInv
<1>6. \A j \in 1 .. Window : station.win[j].iter = At(s + (j - 1))
  BY <1>2 DEF WindowInv
<1>7. GroupFrom(s, Window) \subseteq WinSlots
  <2>1. ASSUME NEW i \in 0 .. Window - 1 PROVE At(s + i) \in WinSlots
    <3>1. i + 1 \in 1 .. Window /\ (i + 1) - 1 = i
      BY <1>1
    <3>2. station.win[i + 1].iter = At(s + i)
      BY <1>6, <3>1
    <3> QED BY <3>1, <3>2 DEF WinSlots
  <2> QED BY <2>1 DEF GroupFrom
<1>8. WinSlots \subseteq GroupFrom(s, Window)
  <2>1. ASSUME NEW j \in 1 .. Window PROVE station.win[j].iter \in GroupFrom(s, Window)
    <3>1. j - 1 \in 0 .. Window - 1
      BY <1>1
    <3> QED BY <1>6, <3>1 DEF GroupFrom
  <2> QED BY <2>1 DEF WinSlots
<1> QED BY <1>2, <1>4, <1>5, <1>7, <1>8

\* A slot of the window belongs to one packet of it.
LEMMA SlotOfPart ==
    ASSUME RxInv, WindowInv, NEW j \in 1 .. Window, NEW f,
           OfWindow(station.win[j].iter, f), f.part \in Nat
    PROVE f.part = j - 1
<1>1. f.part + 1 \in 1 .. Window /\ station.win[j].iter = station.win[f.part + 1].iter
  BY DEF OfWindow
<1>2. Window \in Nat
  BY WindowFacts
<1>3. ~(f.part + 1 < j) /\ ~(j < f.part + 1)
  BY <1>1, ItersApart
<1> QED BY <1>1, <1>2, <1>3

\* Within the lap, what a reception completes is the message of the window.
LEMMA CompletesWhole ==
    ASSUME OnceInv, UnusedInv, GroupsApart, KeptInv, NEW j \in 1 .. Window,
           NEW s \in Complete(Written(station.win[j]))
    PROVE IsWhole(Written(station.win[j]), s)
<1> DEFINE f == station.win[j]
           b == Written(f)
           d == f.iter
           m == station.offered
<1>0. RxInv /\ WindowInv /\ RingOfWindow
  BY DEF OnceInv
<1>1. /\ WellFormed(f) /\ f.msg = m /\ f.msg <= m /\ d \in Slots /\ d \in WinSlots
  <2>1. f.msg = m /\ m \in Nat
    BY <1>0 DEF WindowInv, RxInv, StationOK
  <2> QED BY <1>0, <2>1, WindowFacts DEF WinSlots
<1>2. \A u \in Slots : b[u].st # "FREE" /\ b[u].f.msg = m => OfWindow(u, b[u].f)
  BY <1>0, WrittenOfWindow
<1>3. /\ RingOK(b, m) /\ b[d].f = f /\ Fresh(b, d)
      /\ \A u \in Slots \ {d} : /\ b[u].f = buf[u].f
                                /\ b[u].st = "FREE" <=> buf[u].st = "FREE"
                                /\ Received(b, u) => Received(buf, u)
  <2> HIDE DEF f
  <2> QED BY <1>0, <1>1, WrittenIs
<1>4. s \in Complete(b)
  OBVIOUS
<1> HIDE DEF b
<1>5. /\ s \in Slots /\ Received(b, s) /\ WellFormed(b[s].f)
      /\ (~IsGroup(b, s) => ~b[s].f.multi)
      /\ (IsGroup(b, s) => /\ b[s].f.n \in 2 .. IterMod - 1
                           /\ GroupFrom(s, b[s].f.n) \subseteq Slots
                           /\ \A u \in GroupFrom(s, b[s].f.n) : Received(b, u)
                           /\ d \in GroupFrom(s, b[s].f.n) /\ IsStart(b[s].f))
  BY <1>3, <1>4, CompleteOne DEF Fresh, IsGroup
<1>6. CASE ~IsGroup(b, s)
  BY <1>5, <1>6 DEF IsWhole, WellFormed, b
<1>7. CASE IsGroup(b, s)
  <2> DEFINE n == b[s].f.n
  <2>1. b[s].f.msg = m
    <3>1. CASE s = d
      BY <1>1, <1>3, <3>1
    <3>2. CASE s # d
      <4>1. Received(buf, s) /\ buf[s].f = b[s].f
        BY <1>3, <1>5, <3>2
      <4>2. GroupFrom(s, buf[s].f.n) \cap WinSlots # {} /\ IsStart(buf[s].f)
        BY <1>1, <1>5, <1>7, <4>1
      <4> QED BY <1>5, <4>1, <4>2 DEF GroupsApart
    <3> QED BY <3>1, <3>2
  <2>2. OfWindow(s, b[s].f)
    BY <1>2, <1>5, <2>1 DEF Received
  <2>3. s = station.win[1].iter /\ n = Window /\ GroupFrom(s, n) = WinSlots
    BY <1>0, <1>5, <1>7, <2>2, GroupIsWindow
  <2> HIDE DEF n
  <2>4. ASSUME NEW i \in 0 .. n - 1
        PROVE b[At(s + i)].f.msg = m /\ b[At(s + i)].f.part = i
    <3>1. n \in Nat /\ i + 1 \in 1 .. Window /\ (i + 1) - 1 = i
      BY <1>5, <1>7, <2>3, <2>4 DEF n
    <3>2. PICK u : u = At(s + i)
      OBVIOUS
    <3>3. u = station.win[i + 1].iter
      BY <1>0, <2>3, <3>1, <3>2 DEF WindowInv
    <3>4. u \in GroupFrom(s, n)
      BY <2>4, <3>2 DEF GroupFrom
    <3>5. u \in Slots /\ Received(b, u)
      BY <1>5, <1>7, <3>4 DEF n
    <3>6. b[u].f.msg = m
      <4>1. CASE u = d
        BY <1>1, <1>3, <4>1
      <4>2. CASE u # d
        <5>1. Received(buf, u) /\ buf[u].f = b[u].f
          BY <1>3, <3>5, <4>2
        <5>2. Counts(buf, u)
          BY <5>1 DEF Received, Counts
        <5>3. InRing(buf, u)
          BY <3>1, <3>3, <5>2 DEF KeptInv
        <5> QED BY <5>1, <5>3 DEF InRing
      <4> QED BY <4>1, <4>2
    <3>7. OfWindow(u, b[u].f)
      BY <1>2, <3>5, <3>6 DEF Received
    <3>8. b[u].f.part \in Nat
      BY <1>3, <3>5 DEF RingOK, Received, WellFormed, Frame, Slots
    <3>9. b[u].f.part = (i + 1) - 1
      BY <1>0, <3>1, <3>3, <3>7, <3>8, SlotOfPart
    <3> QED BY <3>1, <3>2, <3>6, <3>9
  <2>5. b[s].f.part = 0
    BY <1>5, <1>7 DEF WellFormed
  <2>6. IsWhole(b, s)
    BY <2>1, <2>4, <2>5 DEF IsWhole, n
  <2> QED BY <2>6 DEF b
<1> QED BY <1>6, <1>7

\* The ring after packet j was received: its slot and those of the packets
\* that waited still wait, or the message was handed over.
LEMMA ReceiveWaits ==
    ASSUME OnceInv, UnusedInv, GroupsApart, KeptInv, NEW j \in 1 .. Window,
           Receive(station.win[j])
    PROVE /\ \A s \in Slots : InRing(buf', s) <=> (s = station.win[j].iter \/ InRing(buf, s))
          /\ \A s \in Slots \ {station.win[j].iter} :
                /\ Received(buf', s) => Received(buf, s)
                /\ buf'[s].f = buf[s].f
                /\ Counts(buf', s) => Counts(buf, s)
          /\ buf'[station.win[j].iter].f = station.win[j]
          /\ \/ log' = Append(log, station.offered)
             \/ /\ log' = log
                /\ \/ station.offered \in Handed
                   \/ \A s \in Slots : s = station.win[j].iter \/ Waits(buf, s) => Waits(buf', s)
<1> DEFINE f == station.win[j]
           b == Written(f)
           d == f.iter
           m == station.offered
<1>0. RxInv /\ WindowInv /\ RingOfWindow /\ buf \in [Slots -> Cell] /\ TypeOK
  BY DEF OnceInv, RxInv, RingOK
<1>1. /\ WellFormed(f) /\ f.msg = m /\ f.msg <= m /\ d \in Slots
  <2>1. f.msg = m /\ m \in Nat
    BY <1>0 DEF WindowInv, RxInv, StationOK
  <2> QED BY <1>0, <2>1, WindowFacts
<1>2. /\ RingOK(b, m) /\ b[d].f = f /\ b[d].st # "FREE"
      /\ \A s \in Slots \ {d} : /\ b[s].f = buf[s].f
                                /\ b[s].st = "FREE" <=> buf[s].st = "FREE"
                                /\ Received(b, s) => Received(buf, s)
  <2> HIDE DEF f, m
  <2>1. RxInv /\ WellFormed(f) /\ f.msg <= station.offered
    BY <1>0, <1>1 DEF m
  <2> QED BY <2>1, WrittenIs DEF m
<1>3. PICK x : Handed1(b, d, x) /\ buf' = x.buf /\ HandOver(x.out)
  <2>1. Receive(f)
    OBVIOUS
  <2> HIDE DEF f, m
  <2>2. RxInv /\ WellFormed(f) /\ f.msg <= station.offered
    BY <1>0, <1>1 DEF m
  <2> QED BY <2>1, <2>2, ReceiveIs
<1>4. ASSUME NEW s \in Complete(b)
      PROVE IsWhole(b, s) /\ Payload(b, s) = m /\ ~BadCrc(b, s)
  <2>1. IsWhole(b, s)
    BY CompletesWhole
  <2>2. Payload(b, s) = m
    BY <1>0, <2>1, WholeIsOffered
  <2> QED BY <2>1, <2>2 DEF BadCrc
\* The packet itself, and the others, when it is written.
<1>5. \A s \in Slots \ {d} : b[s] = Kept(f)[s]
  BY <1>0, KeptIs DEF Written, Store, RingOK
<1>6. \A s \in Slots : Waits(buf, s) => Kept(f)[s] = buf[s]
  BY <1>0, KeptYoung DEF Waits
<1>7. \A s \in Slots \ {d} : Counts(b, s) => Counts(buf, s)
  <2>1. ASSUME NEW s \in Slots, Counts(Kept(f), s) PROVE Counts(buf, s)
    <3>1. Kept(f)[s].st # "CLEARED"
      BY <2>1 DEF Counts
    <3>2. Kept(f)[s] = buf[s]
      BY <1>0, <3>1, KeptYoung
    <3> QED BY <2>1, <3>2 DEF Counts
  <2> QED BY <1>5, <2>1 DEF Counts
<1>8. m \in Handed \/ (Received(b, d) /\ ~b[d].old)
  <2>1. CASE ~Again(f)
    <3>1. Kept(f) \in [Slots -> Cell]
      BY <1>0, KeptIs DEF RingOK
    <3>2. b[d] = [st |-> "RECEIVED", f |-> f, old |-> FALSE]
      BY <1>1, <2>1, <3>1 DEF Written, Store
    <3> QED BY <3>2 DEF Received
  <2>2. CASE Again(f)
    <3>1. b = Kept(f)
      BY <2>2 DEF Written
    <3>2. Shrinks(buf, Kept(f))
      BY <1>0, KeptIs
    <3>3. buf[d].f = f /\ buf[d].st # "FREE"
      BY <1>1, <1>2, <3>1, <3>2 DEF Shrinks
    <3>4. InRing(buf, d)
      BY <1>1, <3>3 DEF InRing
    <3>5. Waits(buf, d) \/ m \in Handed
      BY <3>4 DEF KeptInv
    <3>6. Waits(buf, d) => b[d] = buf[d]
      BY <1>1, <1>6, <3>1
    <3> QED BY <3>5, <3>6 DEF Waits, Received
  <2> QED BY <2>1, <2>2
<1>9. \A s \in Slots : InRing(b, s) <=> (s = d \/ InRing(buf, s))
  BY <1>1, <1>2 DEF InRing
<1> HIDE DEF b
<1>10. CASE x.out = <<>> /\ x.buf = b /\ Complete(b) = {}
  <2>1. log' = log /\ buf' = b
    BY <1>0, <1>3, <1>10, HandOverIs
  <2>2. ASSUME NEW s \in Slots, s = d \/ Waits(buf, s), m \notin Handed
        PROVE Waits(b, s)
    <3>1. CASE s = d
      BY <1>1, <1>8, <1>9, <2>2, <3>1 DEF Waits
    <3>2. CASE s # d
      <4>1. b[s] = buf[s]
        BY <1>5, <1>6, <2>2, <3>2
      <4> QED BY <2>2, <3>2, <4>1 DEF Waits, InRing, Received
    <3> QED BY <3>1, <3>2
  <2> QED BY <1>2, <1>7, <1>9, <2>1, <2>2 DEF Waits, InRing, Received, Counts
<1>11. ASSUME NEW s \in Complete(b), x.buf = Taken(b, s), x.out = <<Payload(b, s)>>
       PROVE /\ \A u \in Slots : InRing(buf', u) <=> (u = d \/ InRing(buf, u))
             /\ \A u \in Slots \ {d} :
                  /\ Received(buf', u) => Received(buf, u)
                  /\ buf'[u].f = buf[u].f
                  /\ Counts(buf', u) => Counts(buf, u)
             /\ buf'[d].f = f
             /\ log' = Append(log, m)
  <2>1. \A u \in Slots : /\ buf'[u].f = b[u].f
                         /\ buf'[u].st = "FREE" <=> b[u].st = "FREE"
                         /\ Received(buf', u) => Received(b, u)
                         /\ buf'[u] = b[u] \/ Received(b, u)
    BY <1>2, <1>3, <1>11, TakenSlots, TakenOnly
  <2>2. \A u \in Slots : InRing(buf', u) <=> InRing(b, u)
    BY <2>1 DEF InRing
  <2>3. \A u \in Slots : Counts(buf', u) => Counts(b, u)
    BY <2>1 DEF Counts, Received
  <2>4. log' = Append(log, m)
    BY <1>0, <1>3, <1>4, <1>11, HandOverIs
  <2> QED BY <1>1, <1>2, <1>7, <1>9, <2>1, <2>2, <2>3, <2>4
<1>12. \A s \in Complete(b) : ~BadCrc(b, s)
  BY <1>4 DEF b
<1> QED BY <1>3, <1>10, <1>11, <1>12 DEF Handed1

\* A payload handed over stays handed over.
LEMMA HandedStays ==
    ASSUME OnceInv, station.offered \in Msgs,
           log' = log \/ log' = Append(log, station.offered)
    PROVE /\ Handed \subseteq Handed'
          /\ log' = Append(log, station.offered) => station.offered \in Handed'
<1>1. TypeOK
  BY DEF OnceInv, RxInv
<1>2. CASE log' = log
  <2>1. Handed' = Handed
    BY <1>2 DEF Handed
  <2>2. log' = Append(log, station.offered) => Handed' = Handed \cup {station.offered}
    BY <1>1, HandedGrows
  <2> QED BY <2>1, <2>2
<1>3. CASE log' = Append(log, station.offered)
  <2>1. Handed' = Handed \cup {station.offered}
    BY <1>1, <1>3, HandedGrows
  <2> QED BY <2>1
<1> QED BY <1>2, <1>3

\* The invariant after a step that leaves the window's packets as they are.
SameFrames ==
    /\ station'.offered = station.offered /\ station'.iter = station.iter
    /\ Window' = Window
    /\ \A i \in 1 .. Window : /\ station'.win[i].iter = station.win[i].iter
                              /\ station'.win[i].kind = station.win[i].kind
    /\ sinceClear' = sinceClear

LEMMA SameSlots == ASSUME SameFrames PROVE WinSlots' = WinSlots /\ Unused' = Unused
BY DEF SameFrames, WinSlots, Unused

\* A packet of the window goes out and is lost.
LEMMA LostLap ==
    ASSUME OnceInv, UnusedInv, GroupsApart, KeptInv, SameFrames,
           UNCHANGED <<buf, log>>, ackPkt' = ackPkt \/ ackPkt' = NoAck,
           \A i \in 1 .. Window : Past(i)' =>
              \/ Past(i) \/ Named(station.win[i].iter)
    PROVE UnusedInv' /\ GroupsApart' /\ KeptInv'
<1>1. /\ WinSlots' = WinSlots /\ Unused' = Unused /\ Handed' = Handed
      /\ station'.offered = station.offered /\ Window' = Window
      /\ \A i \in 1 .. Window : /\ station'.win[i].iter = station.win[i].iter
                                /\ station'.win[i].kind = station.win[i].kind
  BY SameSlots DEF SameFrames, Handed
<1>2. \A s \in Slots : Named(s)' => Named(s)
  BY DEF Named, NoAck, Slots, None
<1>3. \A s : /\ Counts(buf, s)' <=> Counts(buf, s)
             /\ Received(buf, s)' <=> Received(buf, s)
             /\ InRing(buf, s)' <=> InRing(buf, s)
             /\ Waits(buf, s)' <=> Waits(buf, s)
  BY <1>1 DEF Counts, Received, InRing, Waits
<1>4. Unused \subseteq Slots
  <2>1. RxInv
    BY DEF OnceInv
  <2>2. station.iter \in Int
    BY <2>1 DEF RxInv, StationOK, Slots
  <2> QED BY <2>2, AtType DEF Unused
<1>5. UnusedInv'
  BY <1>1, <1>2, <1>3, <1>4 DEF UnusedInv
<1>6. GroupsApart'
  BY <1>1, <1>3 DEF GroupsApart
<1>7. KeptInv'
  <2>1. \A i \in 1 .. Window : station.win[i].iter \in Slots
    BY WindowFacts DEF OnceInv
  <2>2. ASSUME NEW i \in 1 .. Window
        PROVE LET s == station.win[i].iter IN
                /\ Counts(buf, s)' => InRing(buf, s)'
                /\ InRing(buf, s)' => Waits(buf, s)' \/ station'.offered \in Handed'
                /\ InRing(buf, s)' => /\ buf'[s].f.multi <=> Window > 1
                                      /\ IsStart(buf'[s].f) <=> IsStart(station'.win[i])
                /\ i = 1 /\ Window > 1 => IsStart(station'.win[i])
                /\ Named(s)' \/ Past(i)' => InRing(buf, s)' \/ station'.offered \in Handed'
    BY <1>1, <1>2, <1>3, <2>1 DEF KeptInv, IsStart
  <2> QED BY <1>1, <2>2 DEF KeptInv, InRing, Counts, Waits, Received, Named
<1> QED BY <1>5, <1>6, <1>7

\* A packet of the window goes out and is received.
LEMMA ReceivedLap ==
    ASSUME OnceInv, UnusedInv, GroupsApart, KeptInv, SameFrames,
           NEW j \in 1 .. Window, Receive(station.win[j]),
           \A i \in 1 .. Window : Past(i)' => Past(i)
    PROVE UnusedInv' /\ GroupsApart' /\ KeptInv' /\ Handed \subseteq Handed'
<1> DEFINE f == station.win[j]
           d == f.iter
           m == station.offered
<1>0. RxInv /\ WindowInv /\ RingOfWindow
  BY DEF OnceInv
<1>1. /\ WinSlots' = WinSlots /\ Unused' = Unused
      /\ station'.offered = m /\ Window' = Window
      /\ \A i \in 1 .. Window : /\ station'.win[i].iter = station.win[i].iter
                                /\ station'.win[i].kind = station.win[i].kind
  BY SameSlots DEF SameFrames
<1>2. /\ WellFormed(f) /\ f.msg = m /\ f.msg <= m /\ d \in Slots /\ d \in WinSlots /\ m \in Msgs
      /\ \A i \in 1 .. Window : station.win[i].iter \in Slots
  <2>1. f.msg = m /\ m \in Nat /\ WellFormed(f)
    BY <1>0, WindowFacts DEF WindowInv, RxInv, StationOK
  <2> QED BY <1>0, <2>1, WindowFacts DEF WinSlots, WellFormed
<1>3. /\ \A s \in Slots : InRing(buf', s) <=> (s = d \/ InRing(buf, s))
      /\ \A s \in Slots \ {d} :
            /\ Received(buf', s) => Received(buf, s)
            /\ buf'[s].f = buf[s].f
            /\ Counts(buf', s) => Counts(buf, s)
      /\ buf'[d].f = f
      /\ \/ log' = Append(log, m)
         \/ /\ log' = log
            /\ \/ m \in Handed
               \/ \A s \in Slots : s = d \/ Waits(buf, s) => Waits(buf', s)
  BY ReceiveWaits
<1>4. ackPkt' = ackPkt \/ ackPkt' = [iter |-> d, has |-> AckMask(buf', d)]
  <2>1. Receive(f)
    OBVIOUS
  <2> HIDE DEF f, m
  <2>2. f.msg <= station.offered /\ WellFormed(f)
    BY <1>2 DEF m
  <2> QED BY <1>0, <2>1, <2>2, ReceiveIs
<1>5. Handed \subseteq Handed' /\ (log' = Append(log, m) => m \in Handed')
  BY <1>2, <1>3, HandedStays
<1>6. OfWindow(d, f)
  <2>1. f.part + 1 = j
    <3>1. f.part = j - 1 /\ j \in Int
      BY <1>0 DEF WindowInv
    <3> QED BY <3>1
  <2> QED BY <2>1 DEF OfWindow
<1> HIDE DEF f, m
<1>7. \A s : /\ Counts(buf, s)' <=> Counts(buf', s)
             /\ Received(buf, s)' <=> Received(buf', s)
             /\ InRing(buf, s)' <=> InRing(buf', s)
             /\ Waits(buf, s)' <=> Waits(buf', s)
  BY <1>1 DEF Counts, Received, InRing, Waits, m
<1>8. \A s \in Slots : Named(s)' => Named(s) \/ s = d \/ Counts(buf', s)
  <2>1. \A s \in AckMask(buf', d) : Counts(buf', s)
    BY DEF AckMask, Counts
  <2> QED BY <1>4, <2>1 DEF Named
<1>9. Unused \subseteq Slots
  <2>1. station.iter \in Int
    BY <1>0 DEF RxInv, StationOK, Slots
  <2> QED BY <2>1, AtType DEF Unused
<1>10. UnusedInv'
  <2>1. \A s \in Unused : s # d
    BY <1>2 DEF UnusedInv
  <2>2. \A s \in Unused : ~Counts(buf, s)' /\ ~Named(s)'
    BY <1>3, <1>7, <1>8, <1>9, <2>1 DEF UnusedInv
  <2> QED BY <1>1, <2>2 DEF UnusedInv
<1>11. GroupsApart'
  <2>1. ASSUME NEW s \in Slots, Received(buf', s), IsStart(buf'[s].f)
        PROVE /\ GroupFrom(s, buf'[s].f.n) \cap Unused = {}
              /\ buf'[s].f.msg # m => GroupFrom(s, buf'[s].f.n) \cap WinSlots = {}
    <3>1. CASE s = d
      <4>1. GroupFrom(d, f.n) = WinSlots
        BY <1>0, <1>2, <1>3, <1>6, <2>1, <3>1, GroupIsWindow
      <4> QED BY <1>2, <1>3, <3>1, <4>1 DEF UnusedInv
    <3>2. CASE s # d
      BY <1>3, <2>1, <3>2 DEF GroupsApart, m
    <3> QED BY <3>1, <3>2
  <2> QED BY <1>1, <1>7, <2>1 DEF GroupsApart
<1>12. KeptInv'
  <2>1. ASSUME NEW i \in 1 .. Window, NEW s, s = station.win[i].iter
        PROVE /\ Counts(buf', s) => InRing(buf', s)
              /\ InRing(buf', s) => Waits(buf', s) \/ m \in Handed'
              /\ InRing(buf', s) => /\ buf'[s].f.multi <=> Window > 1
                                    /\ IsStart(buf'[s].f) <=> IsStart(station'.win[i])
              /\ i = 1 /\ Window > 1 => IsStart(station'.win[i])
              /\ Named(s)' \/ Past(i)' => InRing(buf', s) \/ m \in Handed'
    <3>1. /\ Counts(buf, s) => InRing(buf, s)
          /\ InRing(buf, s) => Waits(buf, s) \/ m \in Handed
          /\ InRing(buf, s) => /\ buf[s].f.multi <=> Window > 1
                               /\ IsStart(buf[s].f) <=> IsStart(station.win[i])
          /\ i = 1 /\ Window > 1 => IsStart(station.win[i])
          /\ Named(s) \/ Past(i) => InRing(buf, s) \/ m \in Handed
      BY <2>1 DEF KeptInv, m
    <3>2. s \in Slots
      BY <1>2, <2>1
    <3>3. Counts(buf', s) => InRing(buf', s)
      BY <1>3, <3>1, <3>2
    <3>4. InRing(buf', s) => Waits(buf', s) \/ m \in Handed'
      BY <1>3, <1>5, <3>1, <3>2
    <3>5. Named(s)' \/ Past(i)' => InRing(buf', s) \/ m \in Handed'
      BY <1>3, <1>5, <1>8, <3>1, <3>2, <3>3
    <3>6. IsStart(station'.win[i]) <=> IsStart(station.win[i])
      BY <1>1 DEF IsStart
    <3>7. s = d => i = j
      <4>1. Window \in Nat
        BY <1>0, WindowFacts
      <4>2. s = d => ~(i < j) /\ ~(j < i)
        BY <1>0, <2>1, ItersApart DEF f
      <4> QED BY <4>1, <4>2
    <3>8. InRing(buf', s) => /\ buf'[s].f.multi <=> Window > 1
                             /\ IsStart(buf'[s].f) <=> IsStart(station.win[i])
      <4>1. CASE s = d
        <5>1. f.multi <=> Window > 1
          BY <1>0 DEF WindowInv, f
        <5>2. buf'[s].f = f
          BY <1>3, <4>1
        <5>3. f = station.win[i]
          BY <3>7, <4>1 DEF f
        <5>4. IsStart(buf'[s].f) <=> IsStart(station.win[i])
          BY <5>2, <5>3
        <5>5. buf'[s].f.multi <=> Window > 1
          BY <5>1, <5>2
        <5> QED BY <5>4, <5>5
      <4>2. CASE s # d
        <5>1. buf'[s].f = buf[s].f /\ (InRing(buf', s) => InRing(buf, s))
          BY <1>3, <3>2, <4>2
        <5>2. InRing(buf', s) => /\ buf[s].f.multi <=> Window > 1
                                 /\ IsStart(buf[s].f) <=> IsStart(station.win[i])
          BY <3>1, <5>1
        <5>3. IsStart(buf'[s].f) <=> IsStart(buf[s].f)
          BY <5>1
        <5>4. buf'[s].f.multi = buf[s].f.multi
          BY <5>1
        <5> QED BY <5>2, <5>3, <5>4
      <4> QED BY <4>1, <4>2
    <3> QED BY <3>1, <3>3, <3>4, <3>5, <3>6, <3>8
  <2>2. ASSUME NEW i \in 1 .. Window
        PROVE LET s == station.win[i].iter IN
                /\ Counts(buf, s)' => InRing(buf, s)'
                /\ InRing(buf, s)' => Waits(buf, s)' \/ station'.offered \in Handed'
                /\ InRing(buf, s)' => /\ buf'[s].f.multi <=> Window > 1
                                      /\ IsStart(buf'[s].f) <=> IsStart(station'.win[i])
                /\ i = 1 /\ Window > 1 => IsStart(station'.win[i])
                /\ Named(s)' \/ Past(i)' => InRing(buf, s)' \/ station'.offered \in Handed'
    BY <1>1, <1>7, <2>1
  <2> QED BY <1>1, <2>2 DEF KeptInv, InRing, Counts, Waits, Received, Named
<1> QED BY <1>5, <1>10, <1>11, <1>12

\* What is left of ConfirmInv after a step; OnceStep has the rest.
LapKept ==
    /\ sinceClear' \in 0 .. IterMod + 1
    /\ station'.clear => ackPkt' = NoAck
    /\ LapInv'
    /\ ConfirmedIsHanded'

LEMMA TransmitsLap ==
    ASSUME ConfirmInv, Transmits
    PROVE LapKept
<1>0. /\ OnceInv /\ RxInv /\ WindowInv /\ StationOK /\ Asks /\ LapInv
      /\ sinceClear \in 0 .. IterMod + 1 /\ ConfirmedIsHanded
  BY DEF ConfirmInv, OnceInv, RxInv
<1>1. PICK j \in station.todo :
        /\ \A u \in station.todo : j <= u
        /\ station' = [station EXCEPT !.todo = station.todo \ {j},
                                      !.wait = IF station.win[j].ack THEN j ELSE 0]
        /\ Receive(station.win[j]) \/ UNCHANGED <<devVars, log>>
        /\ UNCHANGED <<read, confirmed, sinceClear, lapses>>
  BY <1>0, TransmitsIs
<1>2. /\ Window \in Nat /\ j \in 1 .. Window /\ station.todo \subseteq 1 .. Window
      /\ station.win[j].msg = station.offered /\ station.offered \in Msgs
  <2>1. Window \in Nat /\ j \in 1 .. Window /\ station.todo \subseteq 1 .. Window
    BY <1>0, WindowFacts
  <2>2. station.win[j].msg = station.offered /\ WellFormed(station.win[j])
    BY <1>0, <2>1, WindowFacts DEF WindowInv
  <2> QED BY <2>1, <2>2 DEF WellFormed
<1>3. /\ station'.offered = station.offered /\ station'.win = station.win
      /\ station'.todo = station.todo \ {j}
      /\ station'.wait = IF station.win[j].ack THEN j ELSE 0
      /\ station'.clear = station.clear /\ station'.iter = station.iter
  <2>1. station \in [offered : 0 .. MaxMsgs, iter : Slots, win : Seq(Frame),
                     todo : SUBSET Nat, wait : Nat, tries : Nat, clear : BOOLEAN]
    BY <1>0 DEF StationOK
  <2>2. PICK w, t : w = (IF station.win[j].ack THEN j ELSE 0) /\ t = station.todo \ {j}
    OBVIOUS
  <2>3. station' = [station EXCEPT !.todo = t, !.wait = w]
    BY <1>1, <2>2
  <2>4. /\ station'.offered = station.offered /\ station'.win = station.win
        /\ station'.todo = t /\ station'.wait = w
    BY <2>1, <2>3
  <2>5. station'.clear = station.clear /\ station'.iter = station.iter
    BY <2>1, <2>3
  <2> QED BY <2>2, <2>4, <2>5
<1>4. SameFrames
  BY <1>1, <1>3 DEF SameFrames, Window
<1>5. ~station.clear
  BY <1>0, <1>2 DEF WindowInv
<1>6. ASSUME NEW i \in 1 .. Window, Past(i)' PROVE Past(i)
  <2>1. i > station'.wait /\ \A t \in station.todo \ {j} : i > t
    BY <1>3, <1>6 DEF Past
  <2>2. station.wait = 0
    BY <1>0, <1>1 DEF Asks
  <2>3. i > j
    <3>1. station.win[j].ack => i > j
      BY <1>3, <2>1
    <3>2. station.win[Window].ack
      BY <1>0, <1>2 DEF WindowInv
    <3>3. station.win[j].ack \/ j = Window \/ \E u \in station.todo : u > j
      BY <1>0 DEF Asks, Window
    <3>4. (\E u \in station.todo : u > j) => i > j
      <4>1. ASSUME NEW u \in station.todo, u > j PROVE i > j
        <5>1. u \in station.todo \ {j} /\ u \in Nat /\ j \in Nat
          BY <1>2, <4>1
        <5> QED BY <1>2, <2>1, <4>1, <5>1
      <4> QED BY <4>1
    <3> QED BY <3>1, <3>2, <3>3, <3>4
  <2> QED BY <1>2, <2>1, <2>2, <2>3 DEF Past
<1>7. CASE UNCHANGED <<devVars, log>>
  <2>1. UNCHANGED <<buf, ackPkt, log>> /\ Handed' = Handed
    BY <1>7 DEF devVars, Handed
  <2>2. LapInv'
    BY <1>0, <1>1, <1>4, <1>6, <2>1, LostLap DEF LapInv
  <2> QED BY <1>0, <1>1, <1>3, <1>5, <2>1, <2>2 DEF LapKept, ConfirmedIsHanded
<1>8. CASE Receive(station.win[j])
  <2>1. LapInv'
    BY <1>0, <1>1, <1>2, <1>4, <1>6, <1>8, ReceivedLap DEF LapInv
  <2>2. Handed \subseteq Handed'
    <3>1. station.win[j].msg <= station.offered /\ WellFormed(station.win[j])
      BY <1>0, <1>2, WindowFacts DEF Msgs
    <3>2. log' = log \/ \E p \in (1 .. station.offered) \cup {Mixed} : log' = Append(log, p)
      BY <1>0, <1>8, <3>1, ReceiveKeeps
    <3>3. (1 .. station.offered) \cup {Mixed} \subseteq Msgs \cup {Mixed}
      BY <1>2 DEF Msgs
    <3>4. ASSUME NEW p \in Msgs \cup {Mixed}, log' = Append(log, p) PROVE Handed \subseteq Handed'
      BY <1>0, <3>4, HandedGrows DEF RxInv
    <3> QED BY <3>2, <3>3, <3>4 DEF Handed
  <2> QED BY <1>0, <1>1, <1>3, <1>5, <2>1, <2>2 DEF LapKept, ConfirmedIsHanded
<1> QED BY <1>1, <1>7, <1>8

\* A message of the window all of whose packets are there was handed over.
LEMMA AllThere ==
    ASSUME OnceInv, KeptInv, Window > 0,
           \A i \in 1 .. Window :
              InRing(buf, station.win[i].iter) \/ station.offered \in Handed
    PROVE station.offered \in Handed
<1>0. RxInv /\ WindowInv /\ RingOfWindow
  BY DEF OnceInv
<1> SUFFICES ASSUME station.offered \notin Handed PROVE FALSE
  OBVIOUS
<1>1. /\ Window \in Nat /\ Window < IterMod /\ 1 \in 1 .. Window
      /\ \A i \in 1 .. Window : station.win[i].iter \in Slots
  BY <1>0, WindowFacts
<1>2. ASSUME NEW i \in 1 .. Window, NEW s, s = station.win[i].iter
      PROVE /\ s \in Slots /\ Received(buf, s) /\ OfWindow(s, buf[s].f)
            /\ buf[s].f.multi <=> Window > 1
            /\ i = 1 /\ Window > 1 => IsStart(buf[s].f)
  <2>1. InRing(buf, s) /\ Waits(buf, s)
    BY <1>2 DEF KeptInv
  <2>2. s \in Slots /\ OfWindow(s, buf[s].f)
    BY <1>0, <1>1, <1>2, <2>1 DEF RingOfWindow, InRing
  <2> QED BY <1>2, <2>1, <2>2 DEF KeptInv, Waits
<1>3. PICK s : s = station.win[1].iter
  OBVIOUS
<1>4. /\ s \in Slots /\ Received(buf, s) /\ OfWindow(s, buf[s].f)
      /\ buf[s].f.multi <=> Window > 1
      /\ Window > 1 => IsStart(buf[s].f)
  BY <1>1, <1>2, <1>3
<1>5. CASE Window = 1
  <2>1. IsSingle(buf, s)
    BY <1>4, <1>5 DEF IsSingle
  <2>2. s \in Complete(buf)
    BY <1>4, <2>1 DEF Complete
  <2> QED BY <1>0, <2>2 DEF RxInv
<1>6. CASE Window > 1
  <2>1. IsStart(buf[s].f) /\ buf[s].f.multi /\ WellFormed(buf[s].f)
    BY <1>0, <1>4, <1>6 DEF RxInv, RingOK, Received
  <2>2. buf[s].f.n = Window /\ GroupFrom(s, buf[s].f.n) = WinSlots
    BY <1>0, <1>4, <2>1, GroupIsWindow
  <2>3. ASSUME NEW u \in GroupFrom(s, buf[s].f.n) PROVE Received(buf, u) /\ buf[u].f.multi
    <3>1. PICK i \in 1 .. Window : u = station.win[i].iter
      BY <2>2 DEF WinSlots
    <3> QED BY <1>2, <1>6, <3>1
  <2>4. IsGroup(buf, s)
    BY <1>1, <2>1, <2>2, <2>3 DEF IsGroup
  <2>5. s \in Complete(buf)
    BY <1>4, <2>4 DEF Complete
  <2> QED BY <1>0, <2>5 DEF RxInv
<1> QED BY <1>1, <1>5, <1>6

\* No window, no news: what the ring holds is as unused as before.
LEMMA NoWindowLap ==
    ASSUME OnceInv, UnusedInv, GroupsApart, Len(station'.win) = 0,
           station'.iter = station.iter, sinceClear' = sinceClear,
           \A s \in Slots : /\ Counts(buf', s) <=> Counts(buf, s)
                            /\ Received(buf', s) => Received(buf, s)
                            /\ buf'[s].f = buf[s].f,
           ackPkt' = ackPkt \/ ackPkt' = NoAck
    PROVE UnusedInv' /\ GroupsApart' /\ KeptInv'
<1>1. Window' = 0 /\ WinSlots' = {} /\ Unused' = Unused /\ 1 .. Window' = {}
  BY DEF WinSlots, Window, Unused
<1>2. \A s \in Slots : Named(s)' => Named(s)
  BY DEF Named, NoAck, Slots, None
<1>3. Unused \subseteq Slots
  <2>1. station.iter \in Int
    BY DEF OnceInv, RxInv, StationOK, Slots
  <2> QED BY <2>1, AtType DEF Unused
<1>4. UnusedInv'
  <2>1. \A s : Counts(buf, s)' <=> Counts(buf', s)
    BY DEF Counts
  <2> QED BY <1>1, <1>2, <1>3, <2>1 DEF UnusedInv
<1>5. GroupsApart'
  <2>1. \A s : Received(buf, s)' <=> Received(buf', s)
    BY DEF Received
  <2> QED BY <1>1, <2>1 DEF GroupsApart
<1>6. KeptInv'
  BY <1>1 DEF KeptInv
<1> QED BY <1>4, <1>5, <1>6

\* The ACK is heard, for this window or for none, or it is lost.
LEMMA SendAckLap ==
    ASSUME ConfirmInv, SendAck
    PROVE LapKept
<1>0. /\ OnceInv /\ RxInv /\ WindowInv /\ StationOK /\ Asks /\ LapInv
      /\ sinceClear \in 0 .. IterMod + 1 /\ ConfirmedIsHanded
      /\ UNCHANGED <<buf, log, sinceClear>> /\ ackPkt' = NoAck /\ Handed' = Handed
  BY DEF ConfirmInv, OnceInv, RxInv, SendAck, Handed
<1>1. station \in [offered : 0 .. MaxMsgs, iter : Slots, win : Seq(Frame),
                   todo : SUBSET Nat, wait : Nat, tries : Nat, clear : BOOLEAN]
  BY <1>0 DEF StationOK
<1>2. CASE UNCHANGED <<station, confirmed>>
  <2>1. SameFrames /\ \A i \in 1 .. Window : Past(i)' => Past(i)
    BY <1>0, <1>2 DEF SameFrames, Window, Past
  <2>2. LapInv'
    BY <1>0, <2>1, LostLap DEF LapInv
  <2> QED BY <1>0, <1>2, <2>2 DEF LapKept, ConfirmedIsHanded
<1> DEFINE w == station.wait
           missing == {i \in 1 .. w - 1 : station.win[i].iter \notin ackPkt.has}
           last == CHOOSE i \in missing : \A u \in missing : i >= u
<1>3. ASSUME w # 0, station.win[w].iter = ackPkt.iter
      PROVE /\ w \in 1 .. Window /\ Window \in Nat /\ Window > 0 /\ station.todo = {}
            /\ \A i \in 1 .. Window : i <= w /\ i \notin missing => Named(station.win[i].iter)
            /\ \A i \in 1 .. Window : i > w => Past(i)
  <2>1. w \in 1 .. Window /\ Window \in Nat /\ Window > 0 /\ station.todo = {}
    BY <1>0, <1>3, WindowFacts DEF Asks
  <2>2. ASSUME NEW i \in 1 .. Window, i <= w, i \notin missing
        PROVE Named(station.win[i].iter)
    <3>1. i = w \/ i \in 1 .. w - 1
      BY <2>1, <2>2
    <3> QED BY <1>3, <2>2, <3>1 DEF Named
  <2>3. \A i \in 1 .. Window : i > w => Past(i)
    BY <2>1 DEF Past
  <2> QED BY <2>1, <2>2, <2>3
<1>4. CASE ~(w = 0 \/ station.win[w].iter # ackPkt.iter) /\ missing = {} /\ Confirm(ackPkt.iter, ackPkt.has)
  <2>1. /\ station' = [station EXCEPT !.win = <<>>, !.wait = 0, !.tries = 0, !.clear = TRUE]
        /\ confirmed' = IF sinceClear <= IterMod
                        THEN confirmed \cup Covered(station.win) ELSE confirmed
    BY <1>4 DEF Confirm
  <2>2. station'.win = <<>> /\ station'.iter = station.iter
    BY <1>1, <2>1
  <2>3. Len(station'.win) = 0
    BY <2>2
  <2>4. \A s \in Slots : /\ Counts(buf', s) <=> Counts(buf, s)
                         /\ Received(buf', s) => Received(buf, s)
                         /\ buf'[s].f = buf[s].f
    BY <1>0
  <2>5. LapInv'
    BY <1>0, <2>2, <2>3, <2>4, NoWindowLap DEF LapInv
  <2>6. ASSUME sinceClear <= IterMod PROVE Covered(station.win) \subseteq Handed
    <3>1. /\ w \in 1 .. Window /\ Window \in Nat /\ Window > 0 /\ OnceInv /\ KeptInv
          /\ \A i \in 1 .. Window : i <= w => Named(station.win[i].iter)
          /\ \A i \in 1 .. Window : i > w => Past(i)
      BY <1>0, <1>3, <1>4, <2>6 DEF LapInv
    <3>2. ASSUME NEW i \in 1 .. Window
          PROVE InRing(buf, station.win[i].iter) \/ station.offered \in Handed
      <4>1. Named(station.win[i].iter) \/ Past(i)
        BY <3>1
      <4> QED BY <3>1, <4>1 DEF KeptInv
    <3>3. station.offered \in Handed
      BY <3>1, <3>2, AllThere
    <3>4. \A i \in DOMAIN station.win : station.win[i].msg = station.offered
      BY <1>0, WindowFacts DEF WindowInv
    <3> QED BY <3>3, <3>4 DEF Covered
  <2> QED BY <1>0, <2>1, <2>5, <2>6 DEF LapKept, ConfirmedIsHanded
<1>5. CASE ~(w = 0 \/ station.win[w].iter # ackPkt.iter) /\ missing # {} /\ Confirm(ackPkt.iter, ackPkt.has)
  <2>1. /\ station' = [station EXCEPT !.todo = missing, !.wait = 0, !.win[last].ack = TRUE]
        /\ confirmed' = confirmed
    BY <1>5 DEF Confirm
  <2>2. PICK t, l : t = missing /\ l = last
    OBVIOUS
  <2>3. station' = [station EXCEPT !.todo = t, !.wait = 0, !.win[l].ack = TRUE]
    BY <2>1, <2>2
  <2>4. /\ w \in 1 .. Window /\ Window \in Nat /\ station.todo = {}
        /\ \A i \in 1 .. Window : i <= w /\ i \notin missing => Named(station.win[i].iter)
        /\ \A i \in 1 .. Window : i > w => Past(i)
        /\ DOMAIN station.win = 1 .. Window
        /\ \A i \in 1 .. Window : station.win[i] \in Frame
    BY <1>0, <1>3, <1>5, WindowFacts
  <2> HIDE DEF missing, last
  <2>5. station'.offered = station.offered /\ station'.todo = t /\ station'.wait = 0
    BY <1>1, <2>3
  <2>6. station'.iter = station.iter /\ station'.clear = station.clear
    BY <1>1, <2>3
  <2>7. station'.win = [station.win EXCEPT ![l] = [station.win[l] EXCEPT !.ack = TRUE]]
    BY <1>1, <2>3
  <2>8. /\ DOMAIN station'.win = 1 .. Window
        /\ \A i \in 1 .. Window : /\ station'.win[i].iter = station.win[i].iter
                                  /\ station'.win[i].kind = station.win[i].kind
    <3>1. \A i \in 1 .. Window :
            station'.win[i] = IF i = l THEN [station.win[i] EXCEPT !.ack = TRUE]
                              ELSE station.win[i]
      BY <2>4, <2>7
    <3> QED BY <2>4, <2>7, <3>1 DEF Frame
  <2>9. Window' = Window
    <3>1. RxInv'
      BY <1>0, RxStep DEF Next
    <3>2. station'.win \in Seq(Frame)
      BY <3>1 DEF RxInv, StationOK
    <3>3. DOMAIN station'.win = 1 .. Window' /\ Window' \in Nat
      BY <3>2 DEF Window
    <3> QED BY <2>4, <2>8, <3>3
  <2>10. SameFrames
    BY <1>0, <2>5, <2>6, <2>8, <2>9 DEF SameFrames
  <2>11. ASSUME NEW i \in 1 .. Window, Past(i)'
         PROVE Past(i) \/ Named(station.win[i].iter)
    <3>1. i \notin missing
      BY <2>2, <2>4, <2>5, <2>11 DEF Past
    <3> QED BY <2>4, <3>1
  <2>12. LapInv'
    BY <1>0, <2>10, <2>11, LostLap DEF LapInv
  <2>13. ~station.clear
    BY <1>0, <2>4 DEF WindowInv
  <2> QED BY <1>0, <2>1, <2>6, <2>12, <2>13 DEF LapKept, ConfirmedIsHanded
<1>6. CASE (w = 0 \/ station.win[w].iter # ackPkt.iter) /\ Confirm(ackPkt.iter, ackPkt.has)
  <2>1. UNCHANGED <<station, confirmed>>
    BY <1>6 DEF Confirm
  <2> QED BY <1>2, <2>1
<1> QED BY <1>2, <1>4, <1>5, <1>6 DEF SendAck

\* No ACK in time: the packet that asked for it again, or the window is lost.
LEMMA TimeoutLap ==
    ASSUME ConfirmInv, Timeout
    PROVE LapKept
<1>0. /\ OnceInv /\ RxInv /\ WindowInv /\ StationOK /\ Asks /\ LapInv
      /\ sinceClear \in 0 .. IterMod + 1 /\ ConfirmedIsHanded
      /\ (station.clear => ackPkt = NoAck)
      /\ UNCHANGED <<buf, log, sinceClear, ackPkt, confirmed>> /\ Handed' = Handed
  BY DEF ConfirmInv, OnceInv, RxInv, Timeout, Handed, devVars, histVars
<1>1. station \in [offered : 0 .. MaxMsgs, iter : Slots, win : Seq(Frame),
                   todo : SUBSET Nat, wait : Nat, tries : Nat, clear : BOOLEAN]
  BY <1>0 DEF StationOK
<1>2. /\ station.wait \in 1 .. Window /\ Window \in Nat /\ station.todo = {}
  BY <1>0, WindowFacts DEF Asks, Timeout
<1>3. CASE station' = [station EXCEPT !.todo = {station.wait}, !.wait = 0, !.tries = @ + 1]
  <2>1. PICK t, n : t = {station.wait} /\ n = station.tries + 1
    OBVIOUS
  <2>2. station' = [station EXCEPT !.todo = t, !.wait = 0, !.tries = n]
    BY <1>3, <2>1
  <2>3. /\ station'.offered = station.offered /\ station'.win = station.win
        /\ station'.todo = {station.wait} /\ station'.wait = 0
    BY <1>1, <2>1, <2>2
  <2>4. station'.clear = station.clear /\ station'.iter = station.iter
    BY <1>1, <2>2
  <2>5. SameFrames
    BY <1>0, <2>3, <2>4 DEF SameFrames, Window
  <2>6. \A i \in 1 .. Window : Past(i)' => Past(i)
    BY <1>2, <2>3 DEF Past
  <2>7. LapInv'
    BY <1>0, <2>5, <2>6, LostLap DEF LapInv
  <2> QED BY <1>0, <2>4, <2>7 DEF LapKept, ConfirmedIsHanded
<1>4. CASE station' = [station EXCEPT !.win = <<>>, !.wait = 0, !.tries = 0]
  <2>1. station'.win = <<>> /\ station'.iter = station.iter
    BY <1>1, <1>4
  <2>2. station'.clear = station.clear
    BY <1>1, <1>4
  <2>3. \A s \in Slots : /\ Counts(buf', s) <=> Counts(buf, s)
                         /\ Received(buf', s) => Received(buf, s)
                         /\ buf'[s].f = buf[s].f
    BY <1>0
  <2>4. Len(station'.win) = 0
    BY <2>1
  <2>5. LapInv'
    BY <1>0, <2>1, <2>3, <2>4, NoWindowLap DEF LapInv
  <2> QED BY <1>0, <2>2, <2>5 DEF LapKept, ConfirmedIsHanded
<1> QED BY <1>3, <1>4 DEF Timeout


\* A number added to a slot is added to the ITER before it.
LEMMA AtAdd ==
    ASSUME NEW i \in Int, NEW k \in Int
    PROVE At(At(i) + k) = At(i + k)
<1> DEFINE q == i \div IterMod
           r == i % IterMod
<1>1. IterMod \in Nat \ {0}
  BY RxAssumption
<1>2. q \in Int /\ r \in Int /\ i = IterMod * q + r
  BY <1>1, DivMod
<1> HIDE DEF q, r
<1>3. i + k = (r + k) + IterMod * q /\ r + k \in Int
  BY <1>1, <1>2, MulSum
<1>4. ((r + k) + IterMod * q) % IterMod = (r + k) % IterMod
  BY <1>1, <1>2, <1>3, ModAdd
<1> QED BY <1>3, <1>4 DEF At, r

\* A message is offered: its packets take ITERs that were not used.
LEMMA OffersLap ==
    ASSUME Mack = 1, ConfirmInv, Offers
    PROVE LapKept
<1>0. /\ OnceInv /\ RxInv /\ WindowInv /\ StationOK /\ LapInv
      /\ sinceClear \in 0 .. IterMod + 1 /\ ConfirmedIsHanded
      /\ UNCHANGED <<buf, log, ackPkt, confirmed>> /\ Handed' = Handed
  BY DEF ConfirmInv, OnceInv, RxInv, Offers, Handed, devVars
<1>1. /\ station.wait = 0 /\ station.todo = {} /\ ~station.clear
      /\ station.offered < MaxMsgs /\ station.offered \in Nat /\ station.iter \in Slots
      /\ station.iter \in Int
  BY <1>0, OffersIs DEF StationOK, Slots
<1>2. Window = 0 /\ Len(station.win) = 0
  <2>1. Window \in Nat
    BY <1>0, WindowFacts
  <2> QED BY <1>0, <1>1, <2>1 DEF WindowInv, Window
<1>3. PICK size \in Sizes :
        /\ Grows(size, 0, Packets(size))
        /\ sinceClear' = IF sinceClear + Packets(size) > IterMod THEN IterMod + 1
                         ELSE sinceClear + Packets(size)
  BY <1>0, <1>2, OffersIs
<1> DEFINE n == Packets(size)
           m == station.offered + 1
<1>4. /\ n \in 1 .. IterMod - 1 /\ n < IterMod /\ n \in Nat
      /\ Len(station'.win) = n
      /\ \A i \in 1 .. n : station'.win[i] = Offered(size, i - 1)
  BY <1>3 DEF Grows
<1>5. /\ station'.offered = m /\ station'.todo = 1 .. n /\ station'.wait = 0
      /\ ~station'.clear /\ station'.iter = At(station.iter + n)
  <2>1. PICK todo, iter, win : todo = 1 .. n /\ iter = At(station.iter + n) /\ win = station'.win
    OBVIOUS
  <2> HIDE DEF m, n
  <2>2. station' = [station EXCEPT !.offered = m, !.iter = iter, !.win = win, !.todo = todo]
    <3>1. 0 + 1 .. 0 + n = 1 .. n
      BY <1>4
    <3> QED BY <1>3, <2>1, <3>1 DEF Grows, m, n
  <2>3. station \in [offered : 0 .. MaxMsgs, iter : Slots, win : Seq(Frame),
                     todo : SUBSET Nat, wait : Nat, tries : Nat, clear : BOOLEAN]
    BY <1>0 DEF StationOK
  <2>4. station'.offered = m /\ station'.todo = todo /\ station'.wait = station.wait
    BY <2>2, <2>3
  <2>5. station'.clear = station.clear /\ station'.iter = iter
    BY <2>2, <2>3
  <2> QED BY <1>1, <2>1, <2>4, <2>5
<1>6. ASSUME NEW i \in 1 .. n
      PROVE /\ station'.win[i].iter = At(station.iter + (i - 1))
            /\ i = 1 /\ n > 1 => IsStart(station'.win[i])
  <2>1. i - 1 \in Int /\ (i = 1 => i - 1 = 0) /\ station'.win[i] = Offered(size, i - 1)
    BY <1>4
  <2>2. n > 1 => size # 0
    BY DEF Packets
  <2>3. Offered(size, i - 1).iter = At(station.iter + (i - 1))
    BY DEF Offered
  <2>4. i = 1 /\ n > 1 => Offered(size, i - 1).kind = Start
    BY <2>1, <2>2 DEF Offered
  <2> QED BY <2>1, <2>3, <2>4, RxAssumption DEF IsStart
<1> HIDE DEF n, m
<1>7. sinceClear' \in 0 .. IterMod + 1
  BY <1>0, <1>3, <1>4, RxAssumption DEF n
<1>8. \A s \in Slots : buf[s].st # "FREE" => buf[s].f.msg # m
  <2>1. \A s \in Slots : buf[s].st # "FREE" =>
          buf[s].f.msg <= station.offered /\ buf[s].f.msg \in Nat
    BY <1>0 DEF RxInv, RingOK, WellFormed, Msgs
  <2> QED BY <1>1, <2>1 DEF m
<1>9. ASSUME sinceClear' <= IterMod
      PROVE UnusedInv' /\ GroupsApart' /\ KeptInv'
  <2>1. /\ sinceClear \in Nat /\ sinceClear' = sinceClear + n /\ sinceClear + n <= IterMod
        /\ IterMod \in Nat /\ UnusedInv /\ GroupsApart
    BY <1>0, <1>3, <1>4, <1>9, RxAssumption DEF n, LapInv
  <2>2. Window' = n
    BY <1>4 DEF Window
  <2>3. Unused' \subseteq Unused /\ Unused \subseteq Slots
    <3>1. ASSUME NEW j \in 0 .. IterMod - sinceClear' - 1
          PROVE At(station'.iter + j) \in Unused
      <4>1. /\ n + j \in 0 .. IterMod - sinceClear - 1 /\ n \in Int /\ j \in Int
            /\ station.iter + n \in Int
        BY <1>1, <1>4, <2>1
      <4>2. At(At(station.iter + n) + j) = At((station.iter + n) + j)
        BY <4>1, AtAdd
      <4>3. (station.iter + n) + j = station.iter + (n + j)
        BY <1>1, <4>1
      <4> QED BY <1>5, <4>1, <4>2, <4>3 DEF Unused
    <3>2. Unused \subseteq Slots
      BY <1>1, <2>1, AtType DEF Unused
    <3> QED BY <3>1, <3>2 DEF Unused
  <2>4. WinSlots' \subseteq Unused
    <3>1. ASSUME NEW i \in 1 .. n PROVE station'.win[i].iter \in Unused
      <4>1. i - 1 \in 0 .. IterMod - sinceClear - 1
        BY <1>4, <2>1
      <4> QED BY <1>6, <4>1 DEF Unused
    <3> QED BY <2>2, <3>1 DEF WinSlots
  <2>5. WinSlots' \cap Unused' = {}
    <3>1. ASSUME NEW i \in 1 .. n, NEW j \in 0 .. IterMod - sinceClear' - 1
          PROVE station'.win[i].iter # At(station'.iter + j)
      <4>1. /\ n \in Int /\ j \in Int /\ station.iter + n \in Int
            /\ station.iter + (i - 1) \in Int
            /\ (n + j) - (i - 1) \in 1 .. IterMod - 1
            /\ (station.iter + (i - 1)) + ((n + j) - (i - 1)) = (station.iter + n) + j
        BY <1>1, <1>4, <2>1
      <4>2. At(At(station.iter + n) + j) = At((station.iter + n) + j)
        BY <4>1, AtAdd
      <4>3. At((station.iter + n) + j) # At(station.iter + (i - 1))
        BY <4>1, AtApart
      <4> QED BY <1>5, <1>6, <4>2, <4>3
    <3> QED BY <2>2, <3>1 DEF WinSlots, Unused
  <2>6. \A s : /\ Counts(buf, s)' <=> Counts(buf, s)
               /\ Received(buf, s)' <=> Received(buf, s)
               /\ Named(s)' <=> Named(s)
    BY <1>0 DEF Counts, Received, Named
  <2>7. UnusedInv'
    BY <2>1, <2>3, <2>5, <2>6 DEF UnusedInv
  <2>8. GroupsApart'
    <3>1. \A s \in Slots : Received(buf, s) /\ IsStart(buf[s].f) =>
            /\ GroupFrom(s, buf[s].f.n) \cap Unused' = {}
            /\ GroupFrom(s, buf[s].f.n) \cap WinSlots' = {}
      BY <2>1, <2>3, <2>4 DEF GroupsApart
    <3> QED BY <1>0, <2>6, <3>1 DEF GroupsApart
  <2>9. KeptInv'
    <3>1. ASSUME NEW i \in 1 .. n, NEW s, s = station'.win[i].iter
          PROVE /\ ~(buf'[s].st \in {"RECEIVED", "PROCESSED"})
                /\ ~(buf'[s].st # "FREE" /\ buf'[s].f.msg = station'.offered)
                /\ ~(s = ackPkt'.iter \/ s \in ackPkt'.has)
                /\ ~(i > station'.wait /\ \A t \in station'.todo : i > t)
                /\ i = 1 /\ n > 1 => IsStart(station'.win[i])
      <4>1. s \in Unused /\ s \in Slots
        BY <2>2, <2>3, <2>4, <3>1 DEF WinSlots
      <4>2. ~Counts(buf, s) /\ ~Named(s)
        BY <2>1, <4>1 DEF UnusedInv
      <4>3. ~(buf'[s].st # "FREE" /\ buf'[s].f.msg = station'.offered)
        BY <1>0, <1>5, <1>8, <4>1
      <4>4. i \in station'.todo /\ ~(i > i)
        BY <1>4, <1>5
      <4>5. buf' = buf /\ ackPkt' = ackPkt
        BY <1>0
      <4>6. i = 1 /\ n > 1 => IsStart(station'.win[i])
        BY <1>6
      <4> QED BY <4>2, <4>3, <4>4, <4>5, <4>6 DEF Counts, Named
    <3>2. \A i \in 1 .. n :
            LET s == station'.win[i].iter IN
              /\ ~(buf'[s].st \in {"RECEIVED", "PROCESSED"})
              /\ ~(buf'[s].st # "FREE" /\ buf'[s].f.msg = station'.offered)
              /\ ~(s = ackPkt'.iter \/ s \in ackPkt'.has)
              /\ ~(i > station'.wait /\ \A t \in station'.todo : i > t)
              /\ i = 1 /\ n > 1 => IsStart(station'.win[i])
      BY <3>1
    <3> QED BY <2>2, <3>2 DEF KeptInv, Counts, Named, InRing, Past
  <2> QED BY <2>7, <2>8, <2>9
<1> QED BY <1>0, <1>5, <1>7, <1>9 DEF LapKept, LapInv, ConfirmedIsHanded

\* The CLEAR command is heard and a new lap begins, or it is lost.
LEMMA SendClearLap ==
    ASSUME ConfirmInv, SendClear
    PROVE LapKept
<1>0. /\ OnceInv /\ RxInv /\ WindowInv /\ StationOK /\ LapInv
      /\ sinceClear \in 0 .. IterMod + 1 /\ ConfirmedIsHanded
      /\ station.clear /\ ackPkt = NoAck
      /\ station' = [station EXCEPT !.clear = FALSE]
      /\ UNCHANGED <<ackPkt, log, confirmed>> /\ Handed' = Handed
  BY DEF ConfirmInv, OnceInv, RxInv, SendClear, Handed, devVars
<1>1. /\ ~station'.clear /\ station'.win = station.win /\ station'.iter = station.iter
      /\ Window = 0
  <2>1. station \in [offered : 0 .. MaxMsgs, iter : Slots, win : Seq(Frame),
                     todo : SUBSET Nat, wait : Nat, tries : Nat, clear : BOOLEAN]
    BY <1>0 DEF StationOK
  <2>2. station'.win = station.win /\ station'.iter = station.iter
    BY <1>0, <2>1
  <2>3. ~station'.clear
    BY <1>0, <2>1
  <2> QED BY <1>0, <2>2, <2>3 DEF WindowInv
<1>2. Len(station'.win) = 0
  BY <1>1 DEF Window
<1>3. CASE UNCHANGED <<devVars, sinceClear>>
  <2>1. buf' = buf /\ sinceClear' = sinceClear
    BY <1>3 DEF devVars
  <2>2. \A s \in Slots : /\ Counts(buf', s) <=> Counts(buf, s)
                         /\ Received(buf', s) => Received(buf, s)
                         /\ buf'[s].f = buf[s].f
    BY <2>1
  <2>3. LapInv'
    BY <1>0, <1>1, <1>2, <2>1, <2>2, NoWindowLap DEF LapInv
  <2> QED BY <1>0, <1>1, <2>1, <2>3 DEF LapKept, ConfirmedIsHanded
<1>4. CASE buf' = Clear(buf, None, FALSE) /\ sinceClear' = 0
  <2>1. \A s \in Slots : ~Counts(buf', s)
    <3>1. ASSUME NEW s \in Slots PROVE ~Counts(buf', s)
      <4>1. buf[s] \in Cell /\ (buf[s].st # "FREE" => buf[s].f.iter # None)
        BY <1>0 DEF RxInv, RingOK, None, Slots
      <4>2. buf'[s] = IF buf[s].st = "FREE" THEN buf[s] ELSE [buf[s] EXCEPT !.st = "CLEARED"]
        BY <1>4, <4>1 DEF Clear
      <4> QED BY <4>1, <4>2 DEF Counts, Cell
    <3> QED BY <3>1
  <2>2. \A s \in Slots : ~Received(buf', s)
    BY <2>1 DEF Counts, Received
  <2>3. /\ 1 .. Window' = {} /\ WinSlots' = {}
    BY <1>2 DEF Window, WinSlots
  <2>4. Unused' \subseteq Slots
    <3>1. station'.iter \in Int
      BY <1>0, <1>1 DEF StationOK, Slots
    <3> QED BY <3>1, AtType DEF Unused
  <2>5. \A s \in Slots : ~(s = ackPkt'.iter \/ s \in ackPkt'.has)
    BY <1>0 DEF NoAck, None, Slots
  <2>6. UnusedInv'
    <3>1. \A s \in Slots : ~Counts(buf, s)' /\ ~Named(s)'
      BY <2>1, <2>5 DEF Counts, Named
    <3> QED BY <2>3, <2>4, <3>1 DEF UnusedInv
  <2>7. GroupsApart'
    <3>1. \A s \in Slots : ~Received(buf, s)'
      BY <2>2 DEF Received
    <3> QED BY <3>1 DEF GroupsApart
  <2>8. KeptInv'
    BY <2>3 DEF KeptInv
  <2>9. sinceClear' \in 0 .. IterMod + 1
    BY <1>4, RxAssumption
  <2> QED BY <1>0, <1>1, <2>6, <2>7, <2>8, <2>9 DEF LapKept, LapInv, ConfirmedIsHanded
<1> QED BY <1>3, <1>4 DEF SendClear

\* The main loop reads, ten minutes pass between two windows, or nothing
\* happens.
LEMMA QuietLap ==
    ASSUME ConfirmInv, AppRead \/ TenMinutes \/ UNCHANGED vars
    PROVE LapKept
<1>0. /\ OnceInv /\ RxInv /\ WindowInv /\ StationOK /\ LapInv
      /\ sinceClear \in 0 .. IterMod + 1 /\ ConfirmedIsHanded
      /\ station.clear => ackPkt = NoAck
  BY DEF ConfirmInv, OnceInv, RxInv
<1>1. /\ UNCHANGED <<station, ackPkt, log, confirmed, sinceClear>> /\ Handed' = Handed
  BY DEF AppRead, TenMinutes, vars, devVars, histVars, Handed
<1>2. CASE AppRead \/ UNCHANGED vars
  <2>1. buf' = buf
    BY <1>2 DEF AppRead, vars, devVars
  <2>2. SameFrames /\ \A i \in 1 .. Window : Past(i)' => Past(i)
    BY <1>1 DEF SameFrames, Window, Past
  <2>3. LapInv'
    BY <1>0, <1>1, <2>1, <2>2, LostLap DEF LapInv
  <2> QED BY <1>0, <1>1, <2>3 DEF LapKept, ConfirmedIsHanded
<1>3. CASE TenMinutes
  <2>1. \A s \in Slots : /\ Counts(buf', s) <=> Counts(buf, s)
                         /\ Received(buf', s) => Received(buf, s)
                         /\ buf'[s].f = buf[s].f
    <3>1. \A s \in Slots : buf[s] \in Cell /\ buf'[s] = [buf[s] EXCEPT !.old = TRUE]
      BY <1>0, <1>3 DEF TenMinutes, RxInv, RingOK
    <3>2. \A s \in Slots : buf'[s].st = buf[s].st /\ buf'[s].f = buf[s].f
      BY <3>1 DEF Cell
    <3> QED BY <3>2 DEF Counts, Received
  <2>2. Len(station'.win) = 0
    BY <1>1, <1>3 DEF TenMinutes
  <2>3. station'.iter = station.iter
    BY <1>1
  <2>4. LapInv'
    BY <1>0, <1>1, <2>1, <2>2, <2>3, NoWindowLap DEF LapInv
  <2> QED BY <1>0, <1>1, <2>4 DEF LapKept, ConfirmedIsHanded
<1> QED BY <1>2, <1>3

LEMMA ConfirmInit == Mack = 1 /\ Init => ConfirmInv
<1> SUFFICES ASSUME Mack = 1, Init PROVE ConfirmInv
  OBVIOUS
<1>1. OnceInv /\ RxInv
  BY OnceInit DEF OnceInv
<1>2. /\ sinceClear = 0 /\ ackPkt = NoAck /\ ~station.clear /\ station.win = <<>>
      /\ confirmed = {} /\ station.iter = 0
      /\ \A s \in Slots : buf[s].st = "FREE"
  BY DEF Init
<1>3. Unused \subseteq Slots
  <2>1. station.iter \in Int
    BY <1>2
  <2> QED BY <2>1, AtType DEF Unused
<1>4. 1 .. Window = {} /\ WinSlots = {}
  BY <1>2 DEF Window, WinSlots
<1>5. \A s \in Slots : ~Counts(buf, s) /\ ~Received(buf, s) /\ ~Named(s)
  BY <1>2 DEF Counts, Received, Named, NoAck, None, Slots
<1>6. UnusedInv
  BY <1>3, <1>4, <1>5 DEF UnusedInv
<1>7. GroupsApart
  BY <1>5 DEF GroupsApart
<1>8. KeptInv
  BY <1>4 DEF KeptInv
<1>9. sinceClear \in 0 .. IterMod + 1 /\ ConfirmedIsHanded
  BY <1>2, RxAssumption DEF ConfirmedIsHanded
<1> QED BY <1>1, <1>2, <1>6, <1>7, <1>8, <1>9 DEF ConfirmInv, LapInv

LEMMA ConfirmStep == Mack = 1 /\ ConfirmInv /\ [Next]_vars => ConfirmInv'
<1> SUFFICES ASSUME Mack = 1, ConfirmInv, [Next]_vars PROVE ConfirmInv'
  OBVIOUS
<1>1. OnceInv'
  BY OnceStep DEF ConfirmInv
<1>2. CASE Offers
  BY <1>1, <1>2, OffersLap DEF LapKept, ConfirmInv
<1>3. CASE Transmits
  BY <1>1, <1>3, TransmitsLap DEF LapKept, ConfirmInv
<1>4. CASE SendAck
  BY <1>1, <1>4, SendAckLap DEF LapKept, ConfirmInv
<1>5. CASE Timeout
  BY <1>1, <1>5, TimeoutLap DEF LapKept, ConfirmInv
<1>6. CASE SendClear
  BY <1>1, <1>6, SendClearLap DEF LapKept, ConfirmInv
<1>7. CASE AppRead \/ TenMinutes \/ UNCHANGED vars
  BY <1>1, <1>7, QuietLap DEF LapKept, ConfirmInv
<1> QED BY <1>2, <1>3, <1>4, <1>5, <1>6, <1>7 DEF Next

\* What the base station takes from the ACK masks as delivered was handed to
\* the queue, whatever is lost, repeated or answered late, with either kind of
\* group start, as long as no more than one lap of ITERs was used since the
\* device last heard a CLEAR and no window lasts ten minutes
\* (nbfi_transport_misc.c:389-410).  In mack_mode 1.
THEOREM ConfirmedTruly ==
    ASSUME Mack = 1
    PROVE Spec => []ConfirmedIsHanded
<1>1. Init => ConfirmInv
  BY ConfirmInit
<1>2. ConfirmInv /\ [Next]_vars => ConfirmInv'
  BY ConfirmStep
<1>3. ConfirmInv => ConfirmedIsHanded
  BY DEF ConfirmInv
<1> QED BY <1>1, <1>2, <1>3, PTL DEF Spec

-----------------------------------------------------------------------------
(***************************************************************************)
(* What a reception completes is the message in the window: its start      *)
(* packet is of this message, since no older group reaches into the        *)
(* window, and no slot of the window holds a packet of another one.        *)
(***************************************************************************)
LEMMA WholeInLap == ConfirmInv => NoMixInLap
<1> SUFFICES ASSUME ConfirmInv, sinceClear <= IterMod, NEW j \in station.todo,
                    NEW s \in Complete(Written(station.win[j]))
             PROVE IsWhole(Written(station.win[j]), s)
  BY DEF NoMixInLap
<1>1. OnceInv /\ UnusedInv /\ GroupsApart /\ KeptInv
  BY DEF ConfirmInv, LapInv
<1>2. j \in 1 .. Window
  BY <1>1, WindowFacts DEF OnceInv
<1> QED BY <1>1, <1>2, CompletesWhole

\* A group is completed with packets of its own message only, whatever was
\* lost, repeated or left in the ring by an abandoned window, and without any
\* help of the CRC (so for both kinds of group start), as long as no more than
\* one lap of ITERs was used since the device last heard a CLEAR
\* (nbfi_transport.c:317-346, nbfi_transport_misc.c:482-530).  In mack_mode 1.
THEOREM GroupsApartInLap ==
    ASSUME Mack = 1
    PROVE Spec => []NoMixInLap
<1>1. Init => ConfirmInv
  BY ConfirmInit
<1>2. ConfirmInv /\ [Next]_vars => ConfirmInv'
  BY ConfirmStep
<1> QED BY <1>1, <1>2, WholeInLap, PTL DEF Spec
=============================================================================
