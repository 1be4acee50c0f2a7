--------------------------- MODULE NbfiTxWindows ---------------------------
(***************************************************************************)
(* Proofs about the windows of the uplink's acknowledgements.  A packet    *)
(* sent without an ACK request waits, as SENT_NOACKED, for the ACK of a    *)
(* later packet, whose window of mack_num ITERs must reach back to it; and *)
(* it keeps its slot from NBFi_AllocateTxPkt until then.  Send5 sets the   *)
(* windows from the counter not_acked, the walk over an ACK narrows them,  *)
(* timeouts, heartbeats, sleep and the stack's own packets come between.   *)
(*                                                                         *)
(* The proof numbers the packets as they are queued.  The numbers are not  *)
(* kept by the device: the ITER is the number modulo IterMod, and the      *)
(* invariant says that some numbering fits.                                *)
(***************************************************************************)
EXTENDS NbfiTxSafety

USE TxSizeAssumption, IterAssumption, IdAssumption, RetryAssumption

(***************************************************************************)
(* What the theorems assume: windows that fit the ITER field and the six   *)
(* bits of AskAgain, no ITER used twice, no downlink messages, and either  *)
(* an ACK for every message, or several messages per ACK that each fit     *)
(* into one packet, with neither heartbeats nor messages without handshake *)
(* in between.                                                             *)
(***************************************************************************)
Windowed ==
    /\ Mode = "CRX"
    /\ NoDownlinks
    /\ IterMod <= 64
    /\ \A flags \in FlagSets : "SAME_TX_ITER" \notin flags
    /\ \A len \in Lengths : Fragments(len) <= IterMod
    /\ \/ Mack = 1
       \/ /\ MaxHb = 0
          /\ \A len \in Lengths : len <= MaxPayload
          /\ \A flags \in FlagSets : "NOACK" \notin flags

-----------------------------------------------------------------------------
\* Packets that use up an ITER, and those among them that ask for an ACK,
\* wait for one, or go without one.
StampKinds  == AppKinds \cup {"HEARTBEAT"}
Stamped(p)  == p.st # "FREE" /\ p.kind \in StampKinds
Stamps(r)   == {c \in Slots : Stamped(r.pkt[c])}
Asking(p)   == p.ack /\ p.kind \in AppKinds /\ p.st \in Going
Awaiting(p) == p.ack /\ p.st \in {"QUEUED_AGAIN", "WAIT_ACK"}
Silent(p)   == /\ p.hs /\ ~p.ack /\ p.kind \in AppKinds
               /\ p.st \in {"QUEUED", "QUEUED_AGAIN", "SENT_NOACKED"}

\* x is one of the w last numbers before n; of the m last numbers up to y.
InTail(x, n, w) == x < n /\ n <= x + w
Inside(x, y, m) == x <= y /\ y < x + m

PktShaped(p) ==
    /\ p.st \in {"QUEUED", "QUEUED_AGAIN", "WAIT_ACK", "SENT_NOACKED", "DELIVERED", "LOST"}
          => p.kind \in StampKinds
    /\ p.st = "NEED_TO_SEND_RIGHT_NOW" => p.kind \notin StampKinds /\ ~p.ack
    /\ p.st # "WAIT_FOR_EXTRA_PACKETS"
    /\ p.ack => p.hs
    /\ p.ack /\ p.kind \in AppKinds => 0 < p.mack /\ p.mack <= IterMod
    /\ p.kind = "HEARTBEAT" => p.mack = 0 /\ p.ack = p.hs
    /\ p.st \in {"QUEUED_AGAIN", "WAIT_ACK", "SENT_NOACKED", "DELIVERED", "LOST"} => p.hs
    /\ p.st = "SENT_NOACKED" => ~p.ack
    /\ p.st = "WAIT_ACK" => p.ack

Shaped(r) == r.pkt[Idle].st = "FREE" /\ \A c \in Slots : PktShaped(r.pkt[c])

\* The numbers fit the ITERs, the order in the ring, and the order of sending.
Dated(r, f, n) == \A c \in Stamps(r) : f[c] < n /\ f[c] % IterMod = r.pkt[c].iter

Sorted(r, f) == \A c, d \in Stamps(r) : Ahead(r, c, d) => f[c] < f[d]

FirstOut(r) == \A c, d \in Stamps(r) :
    r.pkt[c].st = "QUEUED" /\ Ahead(r, c, d) => r.pkt[d].st = "QUEUED"

\* Retransmissions are over when the packet that asks for their ACK waits for
\* it; it is the newest of them.
OneRound(r, a) ==
    /\ r.pkt[a].st = "WAIT_ACK" => Again(r) = {}
    /\ \A c, t \in Again(r) : r.pkt[t].ack => c = t \/ Ahead(r, c, t)

\* What is newer than it has not been sent, or has its ACK, and is less than
\* a turn of the ITERs away from the oldest number of its window.
Younger(r, f) == \A q, d \in Stamps(r) : Awaiting(r.pkt[q]) =>
    /\ Ahead(r, q, d) => r.pkt[d].st \in {"QUEUED", "DELIVERED", "LOST"}
    /\ r.pkt[q].kind \in AppKinds /\ r.pkt[d].st # "QUEUED"
          => f[d] + r.pkt[q].mack < f[q] + 1 + IterMod

\* The tail of packets the next ACK request will reach, and the windows of
\* those that ask: no packet in them asks itself, every one is a packet of a
\* message with handshake, and none is missing as long as an older one is left.
Alone(r, f, n, w) == \A d \in Stamps(r) : r.pkt[d].ack =>
    /\ ~InTail(f[d], n, w)
    /\ \A t \in Stamps(r) : Asking(r.pkt[t]) /\ d # t => ~Inside(f[d], f[t], r.pkt[t].mack)

Members(r, f, n, w) == \A d \in Stamps(r) :
    \/ InTail(f[d], n, w)
    \/ \E t \in Stamps(r) : Asking(r.pkt[t]) /\ Inside(f[d], f[t], r.pkt[t].mack)
    => r.pkt[d].kind \in AppKinds /\ r.pkt[d].hs

Whole(r, f, n, w) == \A c \in Stamps(r), x \in Nat :
    /\ f[c] <= x
    /\ \/ InTail(x, n, w)
       \/ \E t \in Stamps(r) : Asking(r.pkt[t]) /\ Inside(x, f[t], r.pkt[t].mack)
    => \E d \in Stamps(r) : f[d] = x

\* Every packet that goes without an ACK request is in one of them.
Reached(r, f, n, w) == \A c \in Stamps(r) : Silent(r.pkt[c]) =>
    \/ InTail(f[c], n, w) /\ r.pkt[c].st # "QUEUED_AGAIN"
    \/ \E t \in Stamps(r) :
          /\ Asking(r.pkt[t]) /\ t # c /\ Inside(f[c], f[t], r.pkt[t].mack)
          /\ r.pkt[c].st = "QUEUED_AGAIN" => r.pkt[t].st = "QUEUED_AGAIN"

\* The tail is shorter than a window: it ends at the last ITER whose turn it was.
TailFits(n, w) ==
    /\ w <= n
    /\ Mack = 1 => w = 0
    /\ ~Handshake => w = 0
    /\ \A x \in Nat : InTail(x, n, w) => x % Mack # 0

Windows(r, a, f, n, w) ==
    /\ Shaped(r)
    /\ Dated(r, f, n)
    /\ Sorted(r, f)
    /\ FirstOut(r)
    /\ OneRound(r, a)
    /\ Younger(r, f)
    /\ Alone(r, f, n, w)
    /\ Members(r, f, n, w)
    /\ Whole(r, f, n, w)
    /\ Reached(r, f, n, w)
    /\ TailFits(n, w)

-----------------------------------------------------------------------------
\* Of two packets, the one with the smaller number is the older one.
LEMMA Ranked ==
    ASSUME NEW r \in Ring, NEW f \in [Slots -> Nat], Sorted(r, f),
           NEW c \in Stamps(r), NEW d \in Stamps(r)
    PROVE /\ f[c] \in Nat /\ f[d] \in Nat
          /\ f[c] < f[d] <=> Ahead(r, c, d)
          /\ f[c] = f[d] => c = d
<1>1. c \in Slots /\ d \in Slots /\ r.head \in Slots
  BY DEF Stamps, Ring
<1>2. f[c] \in Nat /\ f[d] \in Nat
  BY <1>1
<1>3. c = d \/ Ahead(r, c, d) \/ Ahead(r, d, c)
  BY <1>1, AgeFacts DEF Ahead
<1>4. ~Ahead(r, c, c)
  BY <1>1, AgeFacts DEF Ahead
<1>5. (Ahead(r, c, d) => f[c] < f[d]) /\ (Ahead(r, d, c) => f[d] < f[c])
  BY DEF Sorted
<1>6. QED BY <1>2, <1>3, <1>4, <1>5

\* While the active packet waits for its ACK, its window holds every packet
\* that was sent without asking for one.
LEMMA InFlight ==
    ASSUME NEW r \in Ring, NEW a \in Slots, NEW f \in [Slots -> Nat], NEW n \in Nat,
           NEW w \in Nat, Windows(r, a, f, n, w), OneWaits(r, a),
           r.pkt[a].st = "WAIT_ACK", NEW c \in Slots, r.pkt[c].st = "SENT_NOACKED"
    PROVE /\ r.pkt[a].kind \in AppKinds
          /\ Inside(f[c], f[a], r.pkt[a].mack)
<1>1. /\ a \in Stamps(r) /\ c \in Stamps(r) /\ c # a
      /\ r.pkt[a].ack /\ r.pkt[c].hs /\ ~r.pkt[c].ack
      /\ PktShaped(r.pkt[a]) /\ PktShaped(r.pkt[c])
  BY DEF Windows, Shaped, PktShaped, Stamps, Stamped
<1>2. \A d \in Stamps(r) : /\ f[d] \in Nat
                           /\ \A t \in Stamps(r) : f[d] < f[t] <=> Ahead(r, d, t)
  BY Ranked DEF Windows
<1>3. ~Ahead(r, a, c)
  BY <1>1 DEF Windows, Younger, Awaiting
<1>4. f[c] < f[a]
  BY <1>1, <1>2, <1>3, Ranked DEF Windows
<1>5. r.pkt[c].kind \in AppKinds
  BY <1>1 DEF PktShaped, StampKinds
<1>6. ~InTail(f[c], n, w)
  <2>1. ~InTail(f[a], n, w) /\ f[a] < n
    BY <1>1 DEF Windows, Alone, Dated
  <2>2. QED BY <1>1, <1>2, <1>4, <2>1 DEF InTail
<1>7. PICK t \in Stamps(r) : Asking(r.pkt[t]) /\ Inside(f[c], f[t], r.pkt[t].mack)
  BY <1>1, <1>5, <1>6 DEF Windows, Reached, Silent
<1>8. CASE t = a
  BY <1>7, <1>8 DEF Asking
<1>9. CASE t # a
  <2>1. r.pkt[t].st = "QUEUED"
    <3>1. r.pkt[t].st # "WAIT_ACK" /\ t \in Slots
      BY <1>9 DEF OneWaits, Stamps
    <3>2. r.pkt[t].st # "QUEUED_AGAIN"
      BY <3>1 DEF Windows, OneRound, Again, InState
    <3>3. QED BY <1>7, <3>1, <3>2 DEF Asking, Going
  <2>2. ~Ahead(r, t, a)
    BY <1>1, <2>1 DEF Windows, FirstOut
  <2>3. f[a] < f[t]
    BY <1>1, <1>2, <1>9, <2>2, Ranked DEF Windows
  <2>4. r.pkt[t].mack \in Nat
    BY RingPkt, CellFacts DEF Packet, Stamps
  <2>5. Inside(f[a], f[t], r.pkt[t].mack)
    BY <1>1, <1>2, <1>4, <1>7, <2>3, <2>4 DEF Inside
  <2>6. QED BY <1>1, <1>7, <1>9, <2>5 DEF Windows, Alone
<1>10. QED BY <1>8, <1>9

-----------------------------------------------------------------------------
\* Numbers of packets in the window of another one.
LEMMA StampFacts ==
    ASSUME NEW r \in Ring, NEW c \in Stamps(r)
    PROVE /\ c \in Slots /\ r.pkt[c] \in Packet /\ r.pkt[c].mack \in Nat
          /\ r.pkt[c].st \in States /\ r.pkt[c].ack \in BOOLEAN /\ r.pkt[c].hs \in BOOLEAN
BY RingPkt, CellFacts DEF Stamps, Packet

\* Packets leave the ring: the oldest ones to make room, or one that was sent
\* and needs no ACK.  None of them asks for an ACK that is awaited, and those
\* that were in a window were older than all that stay.
Dropped(r, q) ==
    /\ Stamps(q) \subseteq Stamps(r)
    /\ \A c \in Stamps(q) : q.pkt[c] = r.pkt[c]
    /\ \A c, d \in Stamps(q) : Ahead(q, c, d) <=> Ahead(r, c, d)
    /\ \A d \in Stamps(r) \ Stamps(q) :
          /\ ~Asking(r.pkt[d])
          /\ \/ ~r.pkt[d].hs
             \/ \A c \in Stamps(q) : ~Ahead(r, c, d)

LEMMA DroppedWindows ==
    ASSUME NEW r \in Ring, NEW q \in Ring, NEW a \in Cells, NEW b \in Cells,
           NEW f \in [Slots -> Nat],
           NEW n \in Nat, NEW w \in Nat, Windows(r, a, f, n, w), Dropped(r, q),
           Shaped(q), q.pkt[b].st = "WAIT_ACK" => Again(q) = {}
    PROVE Windows(q, b, f, n, w)
<1> DEFINE A == Stamps(r)
           B == Stamps(q)
           P(c) == r.pkt[c]
<1>1. /\ B \subseteq A
      /\ \A c \in B : q.pkt[c] = r.pkt[c]
      /\ \A c, d \in B : Ahead(q, c, d) <=> Ahead(r, c, d)
      /\ \A d \in A \ B : ~Asking(P(d)) /\ (~P(d).hs \/ \A c \in B : ~Ahead(r, c, d))
  BY DEF Dropped
<1>2. Again(q) \subseteq B /\ Again(q) \subseteq Again(r)
  <2>1. \A c \in Again(q) : c \in B
    BY DEF Shaped, PktShaped, Again, InState, Stamps, Stamped
  <2>2. QED BY <1>1, <2>1 DEF Again, InState
<1> HIDE DEF B
<1>3. Dated(q, f, n)
  BY <1>1 DEF Windows, Dated, B
<1>4. Sorted(q, f)
  BY <1>1 DEF Windows, Sorted, B
<1>5. FirstOut(q)
  BY <1>1 DEF Windows, FirstOut, B
<1>6. OneRound(q, b)
  <2>1. \A c, t \in Again(q) : q.pkt[t].ack => c = t \/ Ahead(q, c, t)
    <3>1. \A c, t \in Again(r) : r.pkt[t].ack => c = t \/ Ahead(r, c, t)
      BY DEF Windows, OneRound
    <3>2. QED BY <1>1, <1>2, <3>1
  <2>2. QED BY <2>1 DEF OneRound
<1>7. Younger(q, f)
  BY <1>1 DEF Windows, Younger, B
<1>8. Alone(q, f, n, w)
  BY <1>1 DEF Windows, Alone, B
<1>9. Members(q, f, n, w)
  BY <1>1 DEF Windows, Members, B
<1>10. Whole(q, f, n, w)
  <2> SUFFICES ASSUME NEW c \in B, NEW x \in Nat, f[c] <= x,
                      \/ InTail(x, n, w)
                      \/ \E t \in B : Asking(q.pkt[t]) /\ Inside(x, f[t], q.pkt[t].mack)
               PROVE \E d \in B : f[d] = x
    BY DEF Whole, B
  <2>1. \/ InTail(x, n, w)
        \/ \E t \in A : Asking(P(t)) /\ Inside(x, f[t], P(t).mack)
    BY <1>1
  <2>2. PICK d \in A : f[d] = x
    BY <1>1, <2>1 DEF Windows, Whole
  <2>3. P(d).hs
    BY <2>1, <2>2 DEF Windows, Members
  <2>4. CASE d \notin B
    <3>1. c \in A /\ c # d /\ ~Ahead(r, c, d)
      BY <1>1, <2>3, <2>4
    <3>2. Sorted(r, f)
      BY DEF Windows
    <3>3. f[c] \in Nat /\ f[d] \in Nat /\ ~(f[c] < f[d]) /\ f[c] # f[d]
      BY <3>1, <3>2, Ranked
    <3>4. QED BY <2>2, <3>3
  <2>5. QED BY <2>2, <2>4
<1>11. Reached(q, f, n, w)
  <2> SUFFICES ASSUME NEW c \in B, Silent(q.pkt[c])
               PROVE \/ InTail(f[c], n, w) /\ q.pkt[c].st # "QUEUED_AGAIN"
                     \/ \E t \in B :
                          /\ Asking(q.pkt[t]) /\ t # c /\ Inside(f[c], f[t], q.pkt[t].mack)
                          /\ q.pkt[c].st = "QUEUED_AGAIN" => q.pkt[t].st = "QUEUED_AGAIN"
    BY DEF Reached, B
  <2>1. c \in A /\ Silent(P(c)) /\ P(c) = q.pkt[c]
    BY <1>1
  <2>2. \/ InTail(f[c], n, w) /\ P(c).st # "QUEUED_AGAIN"
        \/ \E t \in A :
             /\ Asking(P(t)) /\ t # c /\ Inside(f[c], f[t], P(t).mack)
             /\ P(c).st = "QUEUED_AGAIN" => P(t).st = "QUEUED_AGAIN"
    BY <2>1 DEF Windows, Reached
  <2>3. \A t \in A : Asking(P(t)) => t \in B /\ q.pkt[t] = P(t)
    BY <1>1
  <2>4. QED BY <2>1, <2>2, <2>3
<1>12. TailFits(n, w)
  BY DEF Windows
<1>13. QED BY <1>3, <1>4, <1>5, <1>6, <1>7, <1>8, <1>9, <1>10, <1>11, <1>12 DEF Windows

\* New packets are queued behind all others, with the next numbers.
Behind(r, q, S) ==
    /\ S \subseteq Slots /\ S \cap Stamps(r) = {} /\ Stamps(q) = Stamps(r) \cup S
    /\ \A c \in Stamps(r) : q.pkt[c] = r.pkt[c]
    /\ \A d \in S : q.pkt[d].st = "QUEUED"
    /\ \A c, d \in Stamps(r) : Ahead(q, c, d) <=> Ahead(r, c, d)
    /\ \A c \in Stamps(r), d \in S : ~Ahead(q, d, c)

Numbers(r, q, S, f, g, n, m) ==
    /\ n <= m
    /\ \A c \in Stamps(r) : g[c] = f[c]
    /\ \A d \in S : n <= g[d] /\ g[d] < m /\ g[d] % IterMod = q.pkt[d].iter
    /\ \A c, d \in S : Ahead(q, c, d) => g[c] < g[d]

\* x is in the new tail or in the window of a new packet that asks.
Within(q, S, g, m, v, x) ==
    \/ InTail(x, m, v)
    \/ \E t \in S : Asking(q.pkt[t]) /\ Inside(x, g[t], q.pkt[t].mack)

\* The new windows take the place of the old tail and hold all new packets
\* that do not ask themselves.
Fits(q, S, g, n, w, m, v) ==
    /\ \A x \in Nat : Within(q, S, g, m, v, x) =>
          (n <= x + w) /\ (n <= x => \E d \in S : g[d] = x)
    /\ \A x \in Nat : InTail(x, n, w) => Within(q, S, g, m, v, x)
    /\ \A d \in S : Within(q, S, g, m, v, g[d]) => q.pkt[d].kind \in AppKinds /\ q.pkt[d].hs
    /\ \A d \in S : Silent(q.pkt[d]) =>
          \/ InTail(g[d], m, v)
          \/ \E t \in S : Asking(q.pkt[t]) /\ t # d /\ Inside(g[d], g[t], q.pkt[t].mack)
    /\ \A d \in S : q.pkt[d].ack =>
          /\ ~InTail(g[d], m, v)
          /\ \A t \in S : Asking(q.pkt[t]) /\ t # d => ~Inside(g[d], g[t], q.pkt[t].mack)

LEMMA BehindWindows ==
    ASSUME NEW r \in Ring, NEW q \in Ring, NEW a \in Cells,
           NEW f \in [Slots -> Nat], NEW g \in [Slots -> Nat],
           NEW n \in Nat, NEW w \in Nat, NEW m \in Nat, NEW v \in Nat,
           Windows(r, a, f, n, w), NEW S, Behind(r, q, S), Numbers(r, q, S, f, g, n, m),
           Fits(q, S, g, n, w, m, v), Shaped(q), TailFits(m, v)
    PROVE Windows(q, a, g, m, v)
<1> DEFINE A == Stamps(r)
           B == Stamps(q)
           P(c) == r.pkt[c]
           Q(c) == q.pkt[c]
           Old(x) == \/ InTail(x, n, w)
                     \/ \E t \in A : Asking(P(t)) /\ Inside(x, f[t], P(t).mack)
           New(x) == \/ InTail(x, m, v)
                     \/ \E t \in B : Asking(Q(t)) /\ Inside(x, g[t], Q(t).mack)
<1>1. /\ S \subseteq Slots /\ S \cap A = {} /\ B = A \cup S
      /\ \A c \in A : Q(c) = P(c) /\ g[c] = f[c]
      /\ \A d \in S : Q(d).st = "QUEUED"
      /\ \A c, d \in A : Ahead(q, c, d) <=> Ahead(r, c, d)
      /\ \A c \in A, d \in S : ~Ahead(q, d, c)
  BY DEF Behind, Numbers
<1>2. /\ n <= m
      /\ \A d \in S : n <= g[d] /\ g[d] < m /\ g[d] % IterMod = Q(d).iter
      /\ \A c, d \in S : Ahead(q, c, d) => g[c] < g[d]
  BY DEF Numbers
<1>3. \A c \in A : f[c] < n /\ f[c] % IterMod = P(c).iter
  BY DEF Windows, Dated
<1>4. \A c \in B : c \in Slots /\ g[c] \in Nat /\ Q(c).mack \in Nat
  BY StampFacts
<1>5. \A c \in A : c \in Slots /\ f[c] \in Nat /\ P(c).mack \in Nat
  BY StampFacts
<1>6. \A x \in Nat : Within(q, S, g, m, v, x) =>
          (n <= x + w) /\ (n <= x => \E d \in S : g[d] = x)
  BY DEF Fits
<1>7. \A x \in Nat : New(x) <=> \/ Within(q, S, g, m, v, x)
                                \/ \E t \in A : Asking(P(t)) /\ Inside(x, f[t], P(t).mack)
  BY <1>1 DEF Within
<1> HIDE DEF A, B
<1>8. \A x \in Nat : x < n => (Within(q, S, g, m, v, x) => InTail(x, n, w))
  BY <1>6 DEF InTail
<1>9. \A x \in Nat : x < n => (New(x) => Old(x))
  BY <1>7, <1>8
<1>10. \A x \in Nat : n <= x => (New(x) <=> Within(q, S, g, m, v, x))
  BY <1>3, <1>5, <1>7 DEF Inside
<1>11. Dated(q, g, m)
  BY <1>1, <1>2, <1>3, <1>4, <1>5 DEF Dated, B
<1>12. Sorted(q, g)
  <2> SUFFICES ASSUME NEW c \in B, NEW d \in B, Ahead(q, c, d) PROVE g[c] < g[d]
    BY DEF Sorted, B
  <2>1. CASE c \in A /\ d \in A
    BY <1>1, <2>1 DEF Windows, Sorted, A
  <2>2. CASE c \in A /\ d \in S
    BY <1>1, <1>2, <1>3, <1>4, <1>5, <2>2
  <2>3. CASE c \in S /\ d \in A
    BY <1>1, <2>3
  <2>4. CASE c \in S /\ d \in S
    BY <1>2, <2>4
  <2>5. QED BY <1>1, <2>1, <2>2, <2>3, <2>4
<1>13. FirstOut(q)
  <2> SUFFICES ASSUME NEW c \in B, NEW d \in B, Q(c).st = "QUEUED", Ahead(q, c, d)
               PROVE Q(d).st = "QUEUED"
    BY DEF FirstOut, B
  <2>1. CASE c \in A /\ d \in A
    BY <1>1, <2>1 DEF Windows, FirstOut, A
  <2>2. QED BY <1>1, <2>1
<1>14. Again(q) = Again(r)
  <2>1. \A c \in Again(q) : c \in B
    BY DEF Shaped, PktShaped, Again, InState, Stamps, Stamped, B
  <2>2. \A c \in Again(r) : c \in A
    BY DEF Windows, Shaped, PktShaped, Again, InState, Stamps, Stamped, A
  <2>3. \A c \in Slots : c \in Again(q) <=> c \in Again(r)
    BY <1>1, <2>1, <2>2 DEF Again, InState
  <2>4. QED BY <2>3 DEF Again, InState
<1>15. OneRound(q, a)
  <2>1. \A c, t \in Again(r) : P(t).ack => c = t \/ Ahead(r, c, t)
    BY DEF Windows, OneRound
  <2>2. Again(r) \subseteq A
    BY DEF Windows, Shaped, PktShaped, Again, InState, Stamps, Stamped, A
  <2>3. \A c, t \in Again(q) : Q(t).ack => c = t \/ Ahead(q, c, t)
    BY <1>1, <1>14, <2>1, <2>2
  <2>4. ASSUME Q(a).st = "WAIT_ACK" PROVE P(a).st = "WAIT_ACK"
    <3>1. a \in B
      BY <2>4, CellFacts DEF Shaped, PktShaped, Stamps, Stamped, B
    <3>2. QED BY <1>1, <2>4, <3>1
  <2>5. QED BY <1>14, <2>3, <2>4 DEF Windows, OneRound
<1>16. Younger(q, g)
  <2> SUFFICES ASSUME NEW x \in B, NEW d \in B, Awaiting(Q(x))
               PROVE /\ Ahead(q, x, d) => Q(d).st \in {"QUEUED", "DELIVERED", "LOST"}
                     /\ Q(x).kind \in AppKinds /\ Q(d).st # "QUEUED"
                           => g[d] + Q(x).mack < g[x] + 1 + IterMod
    BY DEF Younger, B
  <2>1. x \in A
    BY <1>1 DEF Awaiting
  <2>2. CASE d \in A
    BY <1>1, <2>1, <2>2 DEF Windows, Younger, A
  <2>3. CASE d \in S
    BY <1>1, <2>3
  <2>4. QED BY <1>1, <2>2, <2>3
<1>17. Alone(q, g, m, v)
  <2> SUFFICES ASSUME NEW d \in B, Q(d).ack
               PROVE /\ ~InTail(g[d], m, v)
                     /\ \A t \in B : Asking(Q(t)) /\ d # t => ~Inside(g[d], g[t], Q(t).mack)
    BY DEF Alone, B
  <2>1. CASE d \in A
    <3>1. /\ P(d).ack /\ g[d] = f[d] /\ f[d] \in Nat /\ f[d] < n /\ ~InTail(f[d], n, w)
          /\ \A t \in A : Asking(P(t)) /\ d # t => ~Inside(f[d], f[t], P(t).mack)
      BY <1>1, <1>3, <1>5, <2>1 DEF Windows, Alone, A
    <3>2. ~Within(q, S, g, m, v, g[d])
      BY <1>8, <3>1
    <3>3. QED BY <1>1, <3>1, <3>2 DEF Within
  <2>2. CASE d \in S
    <3>1. \A t \in A : ~Inside(g[d], f[t], P(t).mack)
      BY <1>2, <1>3, <1>4, <1>5, <2>2 DEF Inside
    <3>2. /\ ~InTail(g[d], m, v)
          /\ \A t \in S : Asking(Q(t)) /\ t # d => ~Inside(g[d], g[t], Q(t).mack)
      BY <2>2 DEF Fits
    <3>3. QED BY <1>1, <3>1, <3>2
  <2>3. QED BY <1>1, <2>1, <2>2
<1>18. Members(q, g, m, v)
  <2> SUFFICES ASSUME NEW d \in B, New(g[d]) PROVE Q(d).kind \in AppKinds /\ Q(d).hs
    BY DEF Members, B
  <2>1. CASE d \in A
    <3>1. Old(f[d])
      BY <1>1, <1>3, <1>5, <1>9, <2>1
    <3>2. QED BY <1>1, <2>1, <3>1 DEF Windows, Members, A
  <2>2. CASE d \in S
    <3>1. Within(q, S, g, m, v, g[d])
      BY <1>2, <1>4, <1>10, <2>2
    <3>2. QED BY <2>2, <3>1 DEF Fits
  <2>3. QED BY <1>1, <2>1, <2>2
<1>19. Whole(q, g, m, v)
  <2> SUFFICES ASSUME NEW c \in B, NEW x \in Nat, g[c] <= x, New(x)
               PROVE \E d \in B : g[d] = x
    BY DEF Whole, B
  <2>1. CASE n <= x
    BY <1>1, <1>6, <1>10, <2>1
  <2>2. CASE x < n
    <3>1. c \in A
      BY <1>1, <1>2, <1>4, <2>2
    <3>2. Old(x) /\ f[c] <= x
      BY <1>1, <1>9, <2>2, <3>1
    <3>3. PICK d \in A : f[d] = x
      BY <3>1, <3>2 DEF Windows, Whole, A
    <3>4. QED BY <1>1, <3>3
  <2>3. QED BY <2>1, <2>2
<1>20. Reached(q, g, m, v)
  <2> SUFFICES ASSUME NEW c \in B, Silent(Q(c))
               PROVE \/ InTail(g[c], m, v) /\ Q(c).st # "QUEUED_AGAIN"
                     \/ \E t \in B :
                          /\ Asking(Q(t)) /\ t # c /\ Inside(g[c], g[t], Q(t).mack)
                          /\ Q(c).st = "QUEUED_AGAIN" => Q(t).st = "QUEUED_AGAIN"
    BY DEF Reached, B
  <2>1. CASE c \in S
    <3>1. Q(c).st = "QUEUED"
      BY <1>1, <2>1
    <3>2. QED BY <1>1, <2>1, <3>1 DEF Fits
  <2>2. CASE c \in A
    <3>1. /\ Q(c) = P(c) /\ g[c] = f[c] /\ f[c] \in Nat
          /\ \/ InTail(f[c], n, w) /\ P(c).st # "QUEUED_AGAIN"
             \/ \E t \in A :
                  /\ Asking(P(t)) /\ t # c /\ Inside(f[c], f[t], P(t).mack)
                  /\ P(c).st = "QUEUED_AGAIN" => P(t).st = "QUEUED_AGAIN"
      BY <1>1, <1>5, <2>2 DEF Windows, Reached, A
    <3>2. CASE InTail(f[c], n, w) /\ P(c).st # "QUEUED_AGAIN"
      <4>1. Within(q, S, g, m, v, f[c])
        BY <3>1, <3>2 DEF Fits
      <4>2. \A t \in S : t \in B /\ t # c
        BY <1>1, <2>2
      <4>3. QED BY <3>1, <3>2, <4>1, <4>2 DEF Within
    <3>3. CASE \E t \in A :
                  /\ Asking(P(t)) /\ t # c /\ Inside(f[c], f[t], P(t).mack)
                  /\ P(c).st = "QUEUED_AGAIN" => P(t).st = "QUEUED_AGAIN"
      BY <1>1, <3>1, <3>3
    <3>4. QED BY <3>1, <3>2, <3>3
  <2>3. QED BY <1>1, <2>1, <2>2
<1>21. QED BY <1>11, <1>12, <1>13, <1>15, <1>16, <1>17, <1>18, <1>19, <1>20 DEF Windows

-----------------------------------------------------------------------------
\* The same packets in the same order, with other states.
Restated(r, q) ==
    /\ Stamps(q) = Stamps(r)
    /\ \A c \in Stamps(r) : /\ q.pkt[c].kind = r.pkt[c].kind
                            /\ q.pkt[c].hs <=> r.pkt[c].hs
                            /\ q.pkt[c].iter = r.pkt[c].iter
    /\ \A c, d \in Stamps(r) : Ahead(q, c, d) <=> Ahead(r, c, d)

LEMMA RestatedWindows ==
    ASSUME NEW r \in Ring, NEW q \in Ring, NEW a \in Cells, NEW f \in [Slots -> Nat],
           NEW n \in Nat, NEW w \in Nat, Windows(r, a, f, n, w), Restated(r, q)
    PROVE Dated(q, f, n) /\ Sorted(q, f) /\ TailFits(n, w)
<1>1. Dated(q, f, n)
  BY DEF Windows, Dated, Restated
<1>2. Sorted(q, f)
  BY DEF Windows, Sorted, Restated
<1>3. QED BY <1>1, <1>2 DEF Windows

\* A packet that asks keeps its window: nothing changes for the members.
LEMMA SameWindows ==
    ASSUME NEW r \in Ring, NEW q \in Ring, NEW a \in Cells, NEW f \in [Slots -> Nat],
           NEW n \in Nat, NEW w \in Nat, Windows(r, a, f, n, w), Restated(r, q),
           \A c \in Stamps(r) : q.pkt[c].ack <=> r.pkt[c].ack,
           \A c \in Stamps(r) : q.pkt[c].mack = r.pkt[c].mack,
           \A c \in Stamps(r) : Asking(q.pkt[c]) => Asking(r.pkt[c])
    PROVE Alone(q, f, n, w) /\ Members(q, f, n, w) /\ Whole(q, f, n, w)
<1>1. Alone(q, f, n, w)
  BY DEF Windows, Alone, Restated
<1>2. Members(q, f, n, w)
  BY DEF Windows, Members, Restated
<1>3. Whole(q, f, n, w)
  BY DEF Windows, Whole, Restated
<1>4. QED BY <1>1, <1>2, <1>3

\* NBFi_Receive_Timeout_cb, another try: the active packet is sent again.
LEMMA RetryWindows ==
    ASSUME NEW r \in Ring, NEW q \in Ring, NEW a \in Slots, NEW f \in [Slots -> Nat],
           NEW n \in Nat, NEW w \in Nat, Windows(r, a, f, n, w), OneWaits(r, a),
           r.pkt[a].st = "WAIT_ACK", Restated(r, q),
           \A c \in Stamps(r) : q.pkt[c].ack <=> r.pkt[c].ack,
           \A c \in Stamps(r) : q.pkt[c].mack = r.pkt[c].mack,
           \A c \in Stamps(r) : q.pkt[c].st = IF c = a THEN "QUEUED_AGAIN" ELSE r.pkt[c].st,
           Shaped(q)
    PROVE Windows(q, a, f, n, w)
<1> DEFINE A == Stamps(r)
           P(c) == r.pkt[c]
           Q(c) == q.pkt[c]
<1>1. /\ Stamps(q) = A
      /\ \A c \in A : /\ c \in Slots
                      /\ Q(c).kind = P(c).kind /\ (Q(c).hs <=> P(c).hs)
                      /\ (Q(c).ack <=> P(c).ack) /\ Q(c).mack = P(c).mack
      /\ \A c \in A : Q(c).st = IF c = a THEN "QUEUED_AGAIN" ELSE P(c).st
      /\ \A c, d \in A : Ahead(q, c, d) <=> Ahead(r, c, d)
  BY StampFacts DEF Restated
<1>2. a \in A /\ P(a).ack
  BY DEF Windows, Shaped, PktShaped, Stamps, Stamped
<1> HIDE DEF A
<1>3. Dated(q, f, n) /\ Sorted(q, f) /\ TailFits(n, w)
  BY RestatedWindows, CellFacts
<1>4. \A c \in A : Asking(Q(c)) <=> Asking(P(c))
  BY <1>1, <1>2 DEF Asking, Going
<1>5. Alone(q, f, n, w) /\ Members(q, f, n, w) /\ Whole(q, f, n, w)
  BY <1>1, <1>4, SameWindows, CellFacts DEF A
<1>6. Again(r) = {}
  BY DEF Windows, OneRound
<1>7. \A c \in Again(q) : c = a
  <2>1. \A c \in Again(q) : c \in A
    BY <1>1 DEF Shaped, PktShaped, Again, InState, Stamps, Stamped
  <2>2. QED BY <1>1, <1>6, <2>1 DEF Again, InState
<1>8. FirstOut(q)
  BY <1>1 DEF Windows, FirstOut, A
<1>9. OneRound(q, a)
  BY <1>1, <1>2, <1>7 DEF OneRound
<1>10. Younger(q, f)
  <2>1. \A c \in A : Awaiting(Q(c)) => Awaiting(P(c))
    BY <1>1, <1>2 DEF Awaiting
  <2>2. \A x \in A : Awaiting(P(x)) => ~Ahead(r, x, a)
    <3>1. \A x \in A : Awaiting(P(x)) => x = a
      BY <1>1, <1>6 DEF Awaiting, OneWaits, Again, InState
    <3>2. r.head \in Slots
      BY DEF Ring
    <3>3. QED BY <1>1, <3>1, <3>2, AgeFacts DEF Ahead
  <2>3. \A d \in A : Q(d).st = P(d).st \/ (d = a /\ P(d).st # "QUEUED" /\ Q(d).st # "QUEUED")
    BY <1>1
  <2>4. QED BY <1>1, <2>1, <2>2, <2>3 DEF Windows, Younger, A
<1>11. Reached(q, f, n, w)
  <2> SUFFICES ASSUME NEW c \in A, Silent(Q(c))
               PROVE \/ InTail(f[c], n, w) /\ Q(c).st # "QUEUED_AGAIN"
                     \/ \E t \in A :
                          /\ Asking(Q(t)) /\ t # c /\ Inside(f[c], f[t], Q(t).mack)
                          /\ Q(c).st = "QUEUED_AGAIN" => Q(t).st = "QUEUED_AGAIN"
    BY <1>1 DEF Reached
  <2>1. c # a
    BY <1>1, <1>2 DEF Silent
  <2>2. Silent(P(c)) /\ Q(c).st = P(c).st
    BY <1>1, <2>1 DEF Silent
  <2>3. \/ InTail(f[c], n, w) /\ P(c).st # "QUEUED_AGAIN"
        \/ \E t \in A :
             /\ Asking(P(t)) /\ t # c /\ Inside(f[c], f[t], P(t).mack)
             /\ P(c).st = "QUEUED_AGAIN" => P(t).st = "QUEUED_AGAIN"
    BY <2>2 DEF Windows, Reached, A
  <2>4. P(c).st # "QUEUED_AGAIN"
    BY <1>1, <1>6 DEF Again, InState
  <2>5. QED BY <1>1, <1>4, <2>2, <2>3, <2>4
<1>12. QED BY <1>3, <1>5, <1>8, <1>9, <1>10, <1>11 DEF Windows

\* NBFi_ProcessTasks hands a packet with handshake to the MAC.
LEMMA SentWindows ==
    ASSUME NEW r \in Ring, NEW q \in Ring, NEW a \in Cells, NEW s \in Slots,
           NEW f \in [Slots -> Nat],
           NEW n \in Nat, NEW w \in Nat, Windows(r, a, f, n, w), OneWaits(r, a),
           r.pkt[a].st # "WAIT_ACK", s \in Stamps(r), r.pkt[s].hs,
           \/ s \in Again(r) /\ \A c \in Again(r) : ~Ahead(r, c, s)
           \/ /\ Again(r) = {} /\ r.pkt[s].st = "QUEUED"
              /\ \A c \in InState(r, "QUEUED") : ~Ahead(r, c, s),
           Restated(r, q),
           \A c \in Stamps(r) : q.pkt[c].ack <=> r.pkt[c].ack,
           \A c \in Stamps(r) : q.pkt[c].mack = r.pkt[c].mack,
           \A c \in Stamps(r) : q.pkt[c].st =
               IF c # s THEN r.pkt[c].st
               ELSE IF r.pkt[s].ack THEN "WAIT_ACK" ELSE "SENT_NOACKED",
           Shaped(q)
    PROVE Windows(q, s, f, n, w)
<1> DEFINE A == Stamps(r)
           P(c) == r.pkt[c]
           Q(c) == q.pkt[c]
<1>1. /\ Stamps(q) = A /\ s \in A
      /\ \A c \in A : /\ c \in Slots
                      /\ Q(c).kind = P(c).kind /\ (Q(c).hs <=> P(c).hs)
                      /\ (Q(c).ack <=> P(c).ack) /\ Q(c).mack = P(c).mack
      /\ \A c \in A : Q(c).st =
               IF c # s THEN P(c).st
               ELSE IF P(s).ack THEN "WAIT_ACK" ELSE "SENT_NOACKED"
      /\ \A c, d \in A : Ahead(q, c, d) <=> Ahead(r, c, d)
  BY StampFacts DEF Restated
<1>2. \/ s \in Again(r) /\ \A c \in Again(r) : ~Ahead(r, c, s)
      \/ /\ Again(r) = {} /\ P(s).st = "QUEUED"
         /\ \A c \in InState(r, "QUEUED") : ~Ahead(r, c, s)
  OBVIOUS
<1>3. \A c \in A : P(c).st # "WAIT_ACK"
  BY <1>1 DEF OneWaits
<1>4. /\ Again(r) \subseteq A
      /\ \A c, t \in Again(r) : P(t).ack => c = t \/ Ahead(r, c, t)
      /\ P(s).st \in {"QUEUED", "QUEUED_AGAIN"}
  <2>1. Again(r) \subseteq A
    BY DEF Windows, Shaped, PktShaped, Again, InState, Stamps, Stamped
  <2>2. QED BY <1>2, <2>1 DEF Windows, OneRound, Again, InState
<1> HIDE DEF A
<1>5. Dated(q, f, n) /\ Sorted(q, f) /\ TailFits(n, w)
  BY RestatedWindows
<1>6. \A c \in A : Asking(Q(c)) <=> Asking(P(c))
  BY <1>1, <1>4 DEF Asking, Going
<1>7. Alone(q, f, n, w) /\ Members(q, f, n, w) /\ Whole(q, f, n, w)
  BY <1>1, <1>6, SameWindows DEF A
<1>8. \A c \in Slots : c \in Again(q) <=> c \in Again(r) /\ c # s
  <2>1. \A c \in Again(q) : c \in A
    BY <1>1 DEF Shaped, PktShaped, Again, InState, Stamps, Stamped
  <2>2. QED BY <1>1, <1>4, <2>1 DEF Again, InState
<1>9. FirstOut(q)
  <2> SUFFICES ASSUME NEW c \in A, NEW d \in A, Q(c).st = "QUEUED", Ahead(r, c, d)
               PROVE Q(d).st = "QUEUED"
    BY <1>1 DEF FirstOut
  <2>1. c # s /\ P(c).st = "QUEUED"
    BY <1>1
  <2>2. P(d).st = "QUEUED"
    BY <2>1 DEF Windows, FirstOut, A
  <2>3. d # s
    BY <1>1, <1>2, <2>1, <2>2 DEF InState, Again
  <2>4. QED BY <1>1, <2>2, <2>3
<1>10. P(s).ack => Again(q) = {}
  <2> SUFFICES ASSUME P(s).ack, NEW c \in Again(q) PROVE FALSE
    OBVIOUS
  <2>1. c \in Again(r) /\ c # s /\ c \in Slots
    BY <1>8 DEF Again, InState
  <2>2. s \in Again(r) /\ ~Ahead(r, c, s)
    BY <1>2, <2>1
  <2>3. QED BY <1>4, <2>1, <2>2
<1>11. OneRound(q, s)
  <2>1. \A c, t \in Again(q) : Q(t).ack => c = t \/ Ahead(q, c, t)
    <3>1. \A c \in Again(q) : c \in Again(r)
      BY <1>8 DEF Again, InState
    <3>2. QED BY <1>1, <1>4, <3>1
  <2>2. QED BY <1>1, <1>10, <2>1 DEF OneRound
<1>12. Younger(q, f)
  <2> SUFFICES ASSUME NEW x \in A, NEW d \in A, Awaiting(Q(x))
               PROVE /\ Ahead(r, x, d) => Q(d).st \in {"QUEUED", "DELIVERED", "LOST"}
                     /\ P(x).kind \in AppKinds /\ Q(d).st # "QUEUED"
                           => f[d] + P(x).mack < f[x] + 1 + IterMod
    BY <1>1 DEF Younger
  <2>1. r.head \in Slots /\ \A c \in A : c \in Slots /\ f[c] \in Nat /\ P(c).mack \in Nat
    BY StampFacts DEF Ring, A
  <2>2. ~Ahead(r, s, s)
    BY <1>1, <2>1, AgeFacts DEF Ahead
  <2>3. CASE Awaiting(P(x))
    <3>1. x \in Again(r) /\ P(x).ack
      BY <1>3, <2>1, <2>3 DEF Awaiting, Again, InState
    <3>2. s \in Again(r) /\ P(s).st = "QUEUED_AGAIN"
      BY <1>2, <3>1 DEF Again, InState
    <3>3. s = x \/ Ahead(r, s, x)
      BY <1>4, <3>1, <3>2
    <3>4. ~Ahead(r, x, s)
      BY <2>1, <2>2, <3>3, AgeFacts DEF Ahead
    <3>5. d = s => Q(d).st # "QUEUED" /\ P(d).st # "QUEUED"
      BY <1>1, <3>2
    <3>6. d # s => Q(d).st = P(d).st
      BY <1>1
    <3>7. /\ Ahead(r, x, d) => P(d).st \in {"QUEUED", "DELIVERED", "LOST"}
          /\ P(x).kind \in AppKinds /\ P(d).st # "QUEUED"
                => f[d] + P(x).mack < f[x] + 1 + IterMod
      BY <2>3 DEF Windows, Younger, A
    <3>8. QED BY <3>4, <3>5, <3>6, <3>7
  <2>4. CASE ~Awaiting(P(x))
    <3>1. x = s /\ P(s).ack /\ P(s).st = "QUEUED"
      BY <1>1, <1>4, <2>4 DEF Awaiting
    <3>2. Ahead(r, s, d) => P(d).st = "QUEUED" /\ d # s
      BY <1>1, <2>2, <3>1 DEF Windows, FirstOut, A
    <3>3. Ahead(r, s, d) => Q(d).st = "QUEUED"
      BY <1>1, <3>2
    <3>4. Q(d).st # "QUEUED" => f[d] <= f[s]
      BY <1>1, <2>1, <3>3, Ranked DEF Windows, A
    <3>5. P(s).kind \in AppKinds => P(s).mack <= IterMod
      BY <1>1, <3>1 DEF Windows, Shaped, PktShaped
    <3>6. P(s).kind \in AppKinds /\ Q(d).st # "QUEUED" => f[d] + P(s).mack < f[s] + 1 + IterMod
      <4>1. f[d] \in Nat /\ f[s] \in Nat /\ P(s).mack \in Nat /\ IterMod \in Nat
        BY <2>1 DEF A
      <4> HIDE DEF P, Q
      <4>2. QED BY <3>4, <3>5, <4>1
    <3>7. QED BY <3>1, <3>3, <3>6
  <2>5. QED BY <2>3, <2>4
<1>13. Reached(q, f, n, w)
  <2> SUFFICES ASSUME NEW c \in A, Silent(Q(c))
               PROVE \/ InTail(f[c], n, w) /\ Q(c).st # "QUEUED_AGAIN"
                     \/ \E t \in A :
                          /\ Asking(Q(t)) /\ t # c /\ Inside(f[c], f[t], Q(t).mack)
                          /\ Q(c).st = "QUEUED_AGAIN" => Q(t).st = "QUEUED_AGAIN"
    BY <1>1 DEF Reached
  <2>1. Silent(P(c))
    BY <1>1, <1>4 DEF Silent
  <2>2. \/ InTail(f[c], n, w) /\ P(c).st # "QUEUED_AGAIN"
        \/ \E t \in A :
             /\ Asking(P(t)) /\ t # c /\ Inside(f[c], f[t], P(t).mack)
             /\ P(c).st = "QUEUED_AGAIN" => P(t).st = "QUEUED_AGAIN"
    BY <2>1 DEF Windows, Reached, A
  <2>3. CASE c = s
    <3>1. Q(c).st = "SENT_NOACKED"
      BY <1>1, <2>1, <2>3 DEF Silent
    <3>2. QED BY <1>1, <1>6, <2>2, <3>1
  <2>4. CASE c # s
    <3>1. Q(c).st = P(c).st
      BY <1>1, <2>4
    <3>2. CASE Q(c).st = "QUEUED_AGAIN"
      <4>1. c \in Again(q)
        BY <1>1, <3>2 DEF Again, InState
      <4>2. PICK t \in A : Asking(P(t)) /\ t # c /\ Inside(f[c], f[t], P(t).mack)
                           /\ P(t).st = "QUEUED_AGAIN"
        BY <2>2, <3>1, <3>2
      <4>3. t # s
        BY <1>10, <4>1, <4>2 DEF Asking
      <4>4. Q(t).st = "QUEUED_AGAIN"
        BY <1>1, <4>2, <4>3
      <4>5. QED BY <1>1, <1>6, <4>2, <4>4
    <3>3. CASE Q(c).st # "QUEUED_AGAIN"
      BY <1>1, <1>6, <2>2, <3>1, <3>3
    <3>4. QED BY <3>2, <3>3
  <2>5. QED BY <2>3, <2>4
<1>14. QED BY <1>5, <1>7, <1>9, <1>11, <1>12, <1>13 DEF Windows

\* An ACK came for every packet, or the packets are given up: what was sent is
\* done, what is queued stays.
LEMMA DoneWindows ==
    ASSUME NEW r \in Ring, NEW q \in Ring, NEW a \in Cells, NEW f \in [Slots -> Nat],
           NEW n \in Nat, NEW w \in Nat, Windows(r, a, f, n, w), Restated(r, q),
           \A c \in Stamps(r) : q.pkt[c].ack <=> r.pkt[c].ack,
           \A c \in Stamps(r) : q.pkt[c].mack = r.pkt[c].mack,
           \A c \in Stamps(r) : IF r.pkt[c].st = "QUEUED" THEN q.pkt[c].st = "QUEUED"
                                ELSE q.pkt[c].st \in {"DELIVERED", "LOST"},
           Shaped(q)
    PROVE Windows(q, a, f, n, w)
<1> DEFINE A == Stamps(r)
           P(c) == r.pkt[c]
           Q(c) == q.pkt[c]
<1>1. /\ Stamps(q) = A
      /\ \A c \in A : /\ c \in Slots
                      /\ Q(c).kind = P(c).kind /\ (Q(c).hs <=> P(c).hs)
                      /\ (Q(c).ack <=> P(c).ack) /\ Q(c).mack = P(c).mack
      /\ \A c \in A : /\ P(c).st = "QUEUED" => Q(c).st = "QUEUED"
                      /\ P(c).st # "QUEUED" => Q(c).st \in {"DELIVERED", "LOST"}
      /\ \A c, d \in A : Ahead(q, c, d) <=> Ahead(r, c, d)
  BY StampFacts DEF Restated
<1> HIDE DEF A
<1>2. Dated(q, f, n) /\ Sorted(q, f) /\ TailFits(n, w)
  BY RestatedWindows
<1>3. \A c \in A : Asking(Q(c)) <=> Asking(P(c)) /\ P(c).st = "QUEUED"
  BY <1>1 DEF Asking, Going
<1>4. Alone(q, f, n, w) /\ Members(q, f, n, w) /\ Whole(q, f, n, w)
  BY <1>1, <1>3, SameWindows DEF A
<1>5. Again(q) = {} /\ q.pkt[a].st # "WAIT_ACK"
  <2>1. \A c \in Again(q) : c \in A
    BY <1>1 DEF Shaped, PktShaped, Again, InState, Stamps, Stamped
  <2>2. q.pkt[a].st = "WAIT_ACK" => a \in A
    BY <1>1, CellFacts DEF Shaped, PktShaped, Stamps, Stamped
  <2>3. QED BY <1>1, <2>1, <2>2 DEF Again, InState
<1>6. FirstOut(q)
  BY <1>1 DEF Windows, FirstOut, A
<1>7. OneRound(q, a)
  BY <1>5 DEF OneRound
<1>8. Younger(q, f)
  BY <1>1 DEF Younger, Awaiting
<1>9. Reached(q, f, n, w)
  <2> SUFFICES ASSUME NEW c \in A, Silent(Q(c))
               PROVE \/ InTail(f[c], n, w) /\ Q(c).st # "QUEUED_AGAIN"
                     \/ \E t \in A :
                          /\ Asking(Q(t)) /\ t # c /\ Inside(f[c], f[t], Q(t).mack)
                          /\ Q(c).st = "QUEUED_AGAIN" => Q(t).st = "QUEUED_AGAIN"
    BY <1>1 DEF Reached
  <2>1. P(c).st = "QUEUED" /\ Q(c).st = "QUEUED" /\ Silent(P(c))
    BY <1>1 DEF Silent
  <2>2. \/ InTail(f[c], n, w)
        \/ \E t \in A : Asking(P(t)) /\ t # c /\ Inside(f[c], f[t], P(t).mack)
    BY <2>1 DEF Windows, Reached, A
  <2>3. ASSUME NEW t \in A, Asking(P(t)), t # c, Inside(f[c], f[t], P(t).mack)
        PROVE Asking(Q(t)) /\ Q(t).mack = P(t).mack
    <3>1. f[c] <= f[t]
      BY <2>3 DEF Inside
    <3>2. Ahead(r, c, t)
      <4>1. Sorted(r, f)
        BY DEF Windows
      <4>2. f[c] \in Nat /\ f[t] \in Nat /\ f[c] # f[t]
        BY <2>3, <4>1, Ranked DEF A
      <4>3. QED BY <3>1, <4>1, <4>2, Ranked DEF A
    <3>3. P(t).st = "QUEUED"
      BY <2>1, <3>2 DEF Windows, FirstOut, A
    <3>4. QED BY <1>1, <1>3, <2>3, <3>3
  <2>4. QED BY <2>1, <2>2, <2>3
<1>10. QED BY <1>2, <1>4, <1>6, <1>7, <1>8, <1>9 DEF Windows

\* NBFi_Resend_Pkt: some packets of the window of the active one are sent
\* again, and the newest of them asks for the ACK, with the rest of the window.
LEMMA AskedWindows ==
    ASSUME NEW r \in Ring, NEW q \in Ring, NEW a \in Slots, NEW f \in [Slots -> Nat],
           NEW n \in Nat, NEW w \in Nat, Windows(r, a, f, n, w),
           r.pkt[a].st = "WAIT_ACK", r.pkt[a].kind \in AppKinds, Restated(r, q),
           NEW s \in Stamps(r), Inside(f[s], f[a], r.pkt[a].mack), s # a,
           q.pkt[s].st = "QUEUED_AGAIN", q.pkt[s].ack,
           q.pkt[s].mack + f[a] = r.pkt[a].mack + f[s],
           \A c \in Stamps(r) : c # s => (q.pkt[c].ack <=> r.pkt[c].ack),
           \A c \in Stamps(r) : c # s => q.pkt[c].mack = r.pkt[c].mack,
           \A c \in Stamps(r) :
               IF r.pkt[c].st = "QUEUED" THEN q.pkt[c].st = "QUEUED"
               ELSE \/ q.pkt[c].st \in {"DELIVERED", "LOST"}
                    \/ /\ q.pkt[c].st = "QUEUED_AGAIN"
                       /\ Inside(f[c], f[a], r.pkt[a].mack)
                       /\ c = s \/ Ahead(r, c, s),
           Shaped(q)
    PROVE Windows(q, a, f, n, w)
<1> DEFINE A == Stamps(r)
           P(c) == r.pkt[c]
           Q(c) == q.pkt[c]
           M == r.pkt[a].mack
<1>1. /\ Stamps(q) = A /\ s \in A
      /\ \A c \in A : /\ c \in Slots
                      /\ Q(c).kind = P(c).kind /\ (Q(c).hs <=> P(c).hs)
                      /\ c # s => (Q(c).ack <=> P(c).ack) /\ Q(c).mack = P(c).mack
      /\ \A c \in A : P(c).st = "QUEUED" => Q(c).st = "QUEUED"
      /\ \A c, d \in A : Ahead(q, c, d) <=> Ahead(r, c, d)
      /\ Q(s).st = "QUEUED_AGAIN" /\ Q(s).ack /\ s # a
  BY StampFacts DEF Restated
<1>2. \A c \in A : P(c).st # "QUEUED" =>
           \/ Q(c).st \in {"DELIVERED", "LOST"}
           \/ Q(c).st = "QUEUED_AGAIN" /\ Inside(f[c], f[a], M) /\ (c = s \/ Ahead(r, c, s))
  OBVIOUS
<1>3. a \in A /\ P(a).ack /\ Asking(P(a))
  BY DEF Windows, Shaped, PktShaped, Stamps, Stamped, Asking, Going
<1>4. \A c \in A : f[c] \in Nat /\ f[c] < n /\ P(c).mack \in Nat
  BY StampFacts DEF Windows, Dated
<1>5. \A c, d \in A : (f[c] < f[d] <=> Ahead(r, c, d)) /\ (f[c] = f[d] => c = d)
  BY Ranked DEF Windows
<1>6. f[s] < f[a] /\ f[a] < f[s] + M
  <2>1. f[s] # f[a] /\ f[s] <= f[a] /\ f[a] < f[s] + M
    BY <1>1, <1>3, <1>5 DEF Inside
  <2>2. QED BY <1>1, <1>3, <1>4, <2>1
<1>7. Q(s).mack \in Nat /\ Q(s).mack + f[a] = M + f[s] /\ M \in Nat /\ f[s] \in Nat /\ f[a] \in Nat
  BY <1>1, <1>3, <1>4, StampFacts
<1> HIDE DEF A, M, P, Q
<1>8. \A x \in Nat : Inside(x, f[s], Q(s).mack) => Inside(x, f[a], M) /\ x <= f[s]
  BY <1>6, <1>7 DEF Inside
<1>9. \A x \in Nat : Inside(x, f[a], M) /\ x <= f[s] => Inside(x, f[s], Q(s).mack)
  BY <1>6, <1>7 DEF Inside
<1>10. Dated(q, f, n) /\ Sorted(q, f) /\ TailFits(n, w)
  BY RestatedWindows, CellFacts
<1>11. \A d \in A : P(d).ack =>
           /\ ~InTail(f[d], n, w)
           /\ \A t \in A : Asking(P(t)) /\ d # t => ~Inside(f[d], f[t], P(t).mack)
  BY DEF Windows, Alone, A, P
<1>12. \A c, d \in A : P(c).st = "QUEUED" /\ Ahead(r, c, d) => P(d).st = "QUEUED"
  BY DEF Windows, FirstOut, A, P
<1>13. P(a).st = "WAIT_ACK"
  BY DEF P
\* Every other packet that asks is queued, and newer than the active one.
<1>14. ASSUME NEW t \in A, Asking(Q(t)), t # s
       PROVE Asking(P(t)) /\ P(t).st = "QUEUED" /\ f[a] < f[t] /\ Q(t).mack = P(t).mack
  <2>1. P(t).ack /\ Q(t).kind = P(t).kind /\ Q(t).mack = P(t).mack
    BY <1>1, <1>14 DEF Asking
  <2>2. P(t).st = "QUEUED"
    <3> SUFFICES ASSUME P(t).st # "QUEUED" PROVE FALSE
      OBVIOUS
    <3>1. Q(t).st = "QUEUED_AGAIN" /\ Inside(f[t], f[a], M) /\ Ahead(r, t, s)
      BY <1>2, <1>14 DEF Asking, Going
    <3>2. f[t] < f[s]
      BY <1>1, <1>5, <3>1
    <3>3. t # a
      BY <1>1, <1>3, <1>4, <1>6, <3>2
    <3>4. QED BY <1>3, <1>11, <2>1, <3>1, <3>3 DEF M, P
  <2>3. f[a] < f[t]
    <3>1. t # a /\ ~Ahead(r, t, a)
      BY <1>3, <1>12, <1>13, <2>2
    <3>2. f[t] # f[a] /\ ~(f[t] < f[a])
      BY <1>3, <1>5, <3>1
    <3>3. QED BY <1>3, <1>4, <3>2
  <2>4. Asking(P(t))
    BY <1>14, <2>1, <2>2 DEF Asking, Going
  <2>5. QED BY <2>1, <2>2, <2>3, <2>4
<1>15. \A c \in Again(q) : c \in A
  BY <1>1 DEF Shaped, PktShaped, Again, InState, Stamps, Stamped
<1>16. ASSUME NEW c \in Again(q)
       PROVE Inside(f[c], f[a], M) /\ (c = s \/ Ahead(r, c, s)) /\ f[c] <= f[s]
  <2>1. c \in A /\ Q(c).st = "QUEUED_AGAIN"
    BY <1>15 DEF Again, InState, Q
  <2>2. Inside(f[c], f[a], M) /\ (c = s \/ Ahead(r, c, s))
    BY <1>1, <1>2, <2>1
  <2>3. QED BY <1>1, <1>4, <1>5, <2>1, <2>2
<1>17. FirstOut(q)
  <2> SUFFICES ASSUME NEW c \in A, NEW d \in A, Q(c).st = "QUEUED", Ahead(r, c, d)
               PROVE Q(d).st = "QUEUED"
    BY <1>1 DEF FirstOut, Q
  <2>1. P(c).st = "QUEUED"
    BY <1>2
  <2>2. QED BY <1>1, <1>12, <2>1
<1>18. OneRound(q, a)
  <2>1. Q(a).st # "WAIT_ACK"
    BY <1>2, <1>3, <1>13
  <2>2. \A c, t \in Again(q) : Q(t).ack => c = t \/ Ahead(q, c, t)
    <3> SUFFICES ASSUME NEW c \in Again(q), NEW t \in Again(q), Q(t).ack
                 PROVE c = t \/ Ahead(q, c, t)
      OBVIOUS
    <3>1. c \in A /\ t \in A
      BY <1>15
    <3>2. t = s
      <4> SUFFICES ASSUME t # s PROVE FALSE
        OBVIOUS
      <4>1. P(t).ack
        BY <1>1, <3>1
      <4>2. Inside(f[t], f[a], M) /\ f[t] <= f[s]
        BY <1>16
      <4>3. t # a
        BY <1>1, <1>3, <1>4, <1>6, <4>2
      <4>4. QED BY <1>3, <1>11, <3>1, <4>1, <4>2, <4>3 DEF M, P
    <3>3. c = s \/ Ahead(r, c, s)
      BY <1>16
    <3>4. QED BY <1>1, <3>1, <3>2, <3>3
  <2>3. QED BY <2>1, <2>2 DEF OneRound, Q
<1>19. Younger(q, f)
  <2> SUFFICES ASSUME NEW x \in A, NEW d \in A, Awaiting(Q(x))
               PROVE /\ Ahead(r, x, d) => Q(d).st \in {"QUEUED", "DELIVERED", "LOST"}
                     /\ Q(x).kind \in AppKinds /\ Q(d).st # "QUEUED"
                           => f[d] + Q(x).mack < f[x] + 1 + IterMod
    BY <1>1 DEF Younger, Q
  <2>1. x = s
    <3> SUFFICES ASSUME x # s PROVE FALSE
      OBVIOUS
    <3>1. P(x).ack /\ Q(x).st # "QUEUED"
      BY <1>1 DEF Awaiting
    <3>2. P(x).st # "QUEUED"
      BY <1>1, <3>1
    <3>3. Inside(f[x], f[a], M) /\ Ahead(r, x, s)
      BY <1>2, <3>2 DEF Awaiting
    <3>4. x # a
      BY <1>1, <1>3, <1>4, <1>5, <1>6, <3>3
    <3>5. QED BY <1>3, <1>11, <3>1, <3>3, <3>4 DEF M, P
  <2>2. Ahead(r, s, d) => Q(d).st \in {"QUEUED", "DELIVERED", "LOST"}
    <3> SUFFICES ASSUME Ahead(r, s, d), Q(d).st \notin {"QUEUED", "DELIVERED", "LOST"}
                 PROVE FALSE
      OBVIOUS
    <3>1. d = s \/ Ahead(r, d, s)
      BY <1>1, <1>2
    <3>2. f[s] < f[d] /\ (d = s \/ f[d] < f[s])
      BY <1>1, <1>5, <3>1
    <3>3. QED BY <1>1, <1>4, <3>2
  <2>3. Q(d).st # "QUEUED" => f[d] + Q(s).mack < f[s] + 1 + IterMod
    <3> SUFFICES ASSUME Q(d).st # "QUEUED" PROVE f[d] + Q(s).mack < f[s] + 1 + IterMod
      OBVIOUS
    <3>1. P(d).st # "QUEUED"
      BY <1>1
    <3>2. Awaiting(P(a)) /\ P(a).kind \in AppKinds
      BY <1>3, <1>13 DEF Awaiting, P
    <3>3. f[d] + M < f[a] + 1 + IterMod
      BY <1>3, <3>1, <3>2 DEF Windows, Younger, A, P, M
    <3>4. f[d] \in Nat /\ IterMod \in Nat
      BY <1>4
    <3>5. QED BY <1>7, <3>3, <3>4
  <2>4. QED BY <2>1, <2>2, <2>3
<1>20. Alone(q, f, n, w)
  <2> SUFFICES ASSUME NEW d \in A, Q(d).ack
               PROVE /\ ~InTail(f[d], n, w)
                     /\ \A t \in A : Asking(Q(t)) /\ d # t => ~Inside(f[d], f[t], Q(t).mack)
    BY <1>1 DEF Alone, Q
  <2>1. CASE d = s
    <3>1. ~InTail(f[a], n, w) /\ f[a] < n
      BY <1>3, <1>4, <1>11
    <3>2. ~InTail(f[s], n, w)
      BY <1>6, <1>7, <3>1 DEF InTail
    <3>3. ASSUME NEW t \in A, Asking(Q(t)), t # s, Inside(f[s], f[t], Q(t).mack)
          PROVE FALSE
      <4>1. Asking(P(t)) /\ f[a] < f[t] /\ Q(t).mack = P(t).mack
        BY <1>14, <3>3
      <4>2. f[t] \in Nat /\ P(t).mack \in Nat /\ f[t] < f[s] + P(t).mack
        BY <1>4, <3>3, <4>1 DEF Inside
      <4>3. Inside(f[a], f[t], P(t).mack) /\ a # t
        BY <1>6, <1>7, <4>1, <4>2 DEF Inside
      <4>4. QED BY <1>3, <1>11, <4>1, <4>3
    <3>4. QED BY <2>1, <3>2, <3>3
  <2>2. CASE d # s
    <3>1. P(d).ack
      BY <1>1, <2>2
    <3>2. ~Inside(f[d], f[s], Q(s).mack)
      <4> SUFFICES ASSUME Inside(f[d], f[s], Q(s).mack) PROVE FALSE
        OBVIOUS
      <4>1. f[d] \in Nat /\ Inside(f[d], f[a], M) /\ f[d] <= f[s]
        BY <1>4, <1>8
      <4>2. d # a
        BY <1>6, <1>7, <4>1
      <4>3. QED BY <1>3, <1>11, <3>1, <4>1, <4>2 DEF M, P
    <3>3. ASSUME NEW t \in A, Asking(Q(t)), t # s, t # d
          PROVE ~Inside(f[d], f[t], Q(t).mack)
      BY <1>11, <1>14, <3>1, <3>3
    <3>4. QED BY <1>11, <3>1, <3>2, <3>3
  <2>3. QED BY <2>1, <2>2
<1>21. \A x \in Nat, t \in A : Asking(Q(t)) /\ Inside(x, f[t], Q(t).mack)
           => \E u \in A : Asking(P(u)) /\ Inside(x, f[u], P(u).mack)
  <2> SUFFICES ASSUME NEW x \in Nat, NEW t \in A, Asking(Q(t)), Inside(x, f[t], Q(t).mack)
               PROVE \E u \in A : Asking(P(u)) /\ Inside(x, f[u], P(u).mack)
    OBVIOUS
  <2>1. CASE t = s
    <3>1. Inside(x, f[a], P(a).mack)
      BY <1>8, <2>1 DEF M, P
    <3>2. QED BY <1>3, <3>1
  <2>2. CASE t # s
    BY <1>14, <2>2
  <2>3. QED BY <2>1, <2>2
<1>22. Members(q, f, n, w)
  <2> SUFFICES ASSUME NEW d \in A,
                      \/ InTail(f[d], n, w)
                      \/ \E t \in A : Asking(Q(t)) /\ Inside(f[d], f[t], Q(t).mack)
               PROVE Q(d).kind \in AppKinds /\ Q(d).hs
    BY <1>1 DEF Members, Q
  <2>1. \/ InTail(f[d], n, w)
        \/ \E t \in A : Asking(P(t)) /\ Inside(f[d], f[t], P(t).mack)
    BY <1>4, <1>21
  <2>2. P(d).kind \in AppKinds /\ P(d).hs
    BY <2>1 DEF Windows, Members, A, P
  <2>3. QED BY <1>1, <2>2
<1>23. Whole(q, f, n, w)
  <2> SUFFICES ASSUME NEW c \in A, NEW x \in Nat, f[c] <= x,
                      \/ InTail(x, n, w)
                      \/ \E t \in A : Asking(Q(t)) /\ Inside(x, f[t], Q(t).mack)
               PROVE \E d \in A : f[d] = x
    BY <1>1 DEF Whole, Q
  <2>1. \/ InTail(x, n, w)
        \/ \E t \in A : Asking(P(t)) /\ Inside(x, f[t], P(t).mack)
    BY <1>21
  <2>2. QED BY <2>1 DEF Windows, Whole, A, P
<1>24. Reached(q, f, n, w)
  <2> SUFFICES ASSUME NEW c \in A, Silent(Q(c))
               PROVE \/ InTail(f[c], n, w) /\ Q(c).st # "QUEUED_AGAIN"
                     \/ \E t \in A :
                          /\ Asking(Q(t)) /\ t # c /\ Inside(f[c], f[t], Q(t).mack)
                          /\ Q(c).st = "QUEUED_AGAIN" => Q(t).st = "QUEUED_AGAIN"
    BY <1>1 DEF Reached, Q
  <2>1. c # s /\ ~P(c).ack /\ P(c).kind = Q(c).kind /\ (P(c).hs <=> Q(c).hs)
    BY <1>1 DEF Silent
  <2>2. CASE P(c).st = "QUEUED"
    <3>1. Q(c).st = "QUEUED" /\ Silent(P(c))
      BY <1>1, <2>1, <2>2 DEF Silent
    <3>2. \/ InTail(f[c], n, w)
          \/ \E t \in A : Asking(P(t)) /\ t # c /\ Inside(f[c], f[t], P(t).mack)
      BY <3>1 DEF Windows, Reached, A, P
    <3>3. ASSUME NEW t \in A, Asking(P(t)), t # c, Inside(f[c], f[t], P(t).mack)
          PROVE Asking(Q(t)) /\ Q(t).mack = P(t).mack
      <4>1. f[c] <= f[t]
        BY <3>3 DEF Inside
      <4>2. Ahead(r, c, t)
        BY <1>4, <1>5, <3>3, <4>1
      <4>3. P(t).st = "QUEUED"
        BY <1>12, <2>2, <4>2
      <4>4. f[a] < f[t]
        <5>1. t # a /\ ~Ahead(r, t, a)
          BY <1>3, <1>12, <1>13, <4>3
        <5>2. f[t] # f[a] /\ ~(f[t] < f[a])
          BY <1>3, <1>5, <5>1
        <5>3. QED BY <1>3, <1>4, <5>2
      <4>5. t # s
        BY <1>6, <1>7, <4>4
      <4>6. QED BY <1>1, <3>3, <4>3, <4>5 DEF Asking, Going
    <3>4. QED BY <3>1, <3>2, <3>3
  <2>3. CASE P(c).st # "QUEUED"
    <3>1. Q(c).st = "QUEUED_AGAIN" /\ Inside(f[c], f[a], M) /\ Ahead(r, c, s)
      BY <1>2, <2>1, <2>3 DEF Silent
    <3>2. f[c] < f[s]
      BY <1>1, <1>5, <3>1
    <3>3. Inside(f[c], f[s], Q(s).mack)
      BY <1>4, <1>7, <1>9, <3>1, <3>2
    <3>4. Asking(Q(s))
      <4>1. P(s).kind \in AppKinds
        BY <1>1, <1>3 DEF Windows, Members, A, P
      <4>2. QED BY <1>1, <4>1 DEF Asking, Going
    <3>5. QED BY <1>1, <2>1, <3>3, <3>4
  <2>4. QED BY <2>2, <2>3
<1>25. QED BY <1>10, <1>17, <1>18, <1>19, <1>20, <1>22, <1>23, <1>24 DEF Windows

-----------------------------------------------------------------------------
(***************************************************************************)
(* The walk of NBFi_Resend_Pkt over the window of the active packet: step  *)
(* k meets the packet whose number is k less, or nothing.                  *)
(***************************************************************************)
Waiting(r, a, f, n, w) ==
    /\ Windows(r, a, f, n, w) /\ OneWaits(r, a)
    /\ r.pkt[a].st = "WAIT_ACK" /\ r.pkt[a].kind \in AppKinds

LEMMA WaitingFacts ==
    ASSUME NEW r \in Ring, NEW a \in Slots, NEW f \in [Slots -> Nat],
           NEW n \in Nat, NEW w \in Nat, Waiting(r, a, f, n, w)
    PROVE /\ a \in Stamps(r) /\ Asking(r.pkt[a]) /\ Awaiting(r.pkt[a])
          /\ r.pkt[a].mack \in 1 .. IterMod /\ f[a] \in Nat
          /\ Inside(f[a], f[a], r.pkt[a].mack)
          /\ Again(r) = {}
<1>1. a \in Stamps(r) /\ Asking(r.pkt[a]) /\ Awaiting(r.pkt[a])
  BY DEF Waiting, Windows, Shaped, PktShaped, Stamps, Stamped, Asking, Going, Awaiting
<1>2. r.pkt[a].mack \in Nat /\ 0 < r.pkt[a].mack /\ r.pkt[a].mack <= IterMod
  BY <1>1, StampFacts DEF Waiting, Windows, Shaped, PktShaped, Asking
<1>3. Inside(f[a], f[a], r.pkt[a].mack)
  BY <1>2 DEF Inside
<1>4. Again(r) = {}
  BY DEF Waiting, Windows, OneRound
<1>5. QED BY <1>1, <1>2, <1>3, <1>4

\* A number less k, and what is left of it less k.
LEMMA ModLess ==
    ASSUME NEW d \in Nat \ {0}, NEW x \in Int, NEW k \in Int
    PROVE ((x % d) - k) % d = (x - k) % d
<1> DEFINE q == x \div d
           b == x % d
<1>1. q \in Int /\ b \in 0 .. d - 1 /\ x = d * q + b
  BY DivMod
<1> HIDE DEF q, b
<1>2. d * q \in Int /\ b - k \in Int
  BY <1>1, MulSum
<1>3. x - k = (b - k) + d * q
  BY <1>1, <1>2
<1>4. ((b - k) + d * q) % d = (b - k) % d
  BY <1>1, <1>2, ModAdd
<1>5. QED BY <1>3, <1>4 DEF b

\* Every packet in the window has been sent.
LEMMA MemberOnAir ==
    ASSUME NEW r \in Ring, NEW a \in Slots, NEW f \in [Slots -> Nat],
           NEW n \in Nat, NEW w \in Nat, Waiting(r, a, f, n, w),
           NEW d \in Stamps(r), Inside(f[d], f[a], r.pkt[a].mack)
    PROVE r.pkt[d].kind \in AppKinds /\ r.pkt[d].hs /\ r.pkt[d].st \in OnAir
<1>1. a \in Stamps(r) /\ Asking(r.pkt[a]) /\ Again(r) = {}
  BY WaitingFacts
<1>2. r.pkt[d].kind \in AppKinds /\ r.pkt[d].hs
  BY <1>1 DEF Waiting, Windows, Members
<1>3. r.pkt[d].st # "QUEUED"
  <2> SUFFICES ASSUME r.pkt[d].st = "QUEUED" PROVE FALSE
    OBVIOUS
  <2>1. d # a
    BY DEF Waiting
  <2>2. f[d] <= f[a]
    BY DEF Inside
  <2>3. Sorted(r, f)
    BY DEF Waiting, Windows
  <2>4. Ahead(r, d, a)
    <3>1. f[d] \in Nat /\ f[a] \in Nat /\ f[d] # f[a]
      BY <1>1, <2>1, <2>3, Ranked
    <3>2. QED BY <1>1, <2>2, <2>3, <3>1, Ranked
  <2>5. r.pkt[a].st = "QUEUED"
    BY <1>1, <2>4 DEF Waiting, Windows, FirstOut
  <2>6. QED BY <2>5 DEF Waiting
<1>4. d \in Slots /\ r.pkt[d].st \in States /\ r.pkt[d].st # "FREE"
  BY StampFacts DEF Stamps, Stamped
<1>5. r.pkt[d].st # "QUEUED_AGAIN"
  BY <1>1, <1>4 DEF Again, InState
<1>6. PktShaped(r.pkt[d])
  BY <1>4 DEF Waiting, Windows, Shaped
<1>7. r.pkt[d].st \notin {"NEED_TO_SEND_RIGHT_NOW", "WAIT_FOR_EXTRA_PACKETS"}
  BY <1>2, <1>6 DEF PktShaped, StampKinds
<1>8. QED BY <1>2, <1>3, <1>4, <1>5, <1>7 DEF States, OnAir

LEMMA NewestFacts ==
    ASSUME NEW h \in Slots, NEW S \in SUBSET Slots, NEW d \in S
    PROVE Newest(h, S) \in S /\ Age(h, d) <= Age(h, Newest(h, S))
<1> DEFINE T == {Age(h, u) : u \in S}
<1>1. T \in SUBSET Nat /\ T # {} /\ \A i \in T : i <= TxSize
  BY AgeFacts
<1>2. TxSize \in Nat
  OBVIOUS
<1>3. PICK i \in T : \A j \in T : i >= j
  <2> HIDE DEF T
  <2> QED BY <1>1, <1>2, GreatestOf
<1>4. PICK s \in S : i = Age(h, s)
  OBVIOUS
<1>5. \A u \in S : Age(h, s) >= Age(h, u)
  BY <1>3, <1>4
<1>6. {v \in S : \A u \in S : Age(h, v) >= Age(h, u)} # {}
  BY <1>5
<1>7. \A u \in S : Age(h, Newest(h, S)) >= Age(h, u) /\ Newest(h, S) \in S
  BY <1>6 DEF Newest, AnyOf
<1>8. Age(h, d) \in Int /\ Age(h, Newest(h, S)) \in Int
  BY <1>7, AgeFacts
<1>9. QED BY <1>7, <1>8

\* Of the packets on the air that carry the ITER of a step, the newest is met.
LEMMA MetIsNewest ==
    ASSUME NEW r \in Ring, NEW a \in Cells, NEW k, NEW d \in Slots,
           r.pkt[d].kind \in AppKinds, r.pkt[d].st \in OnAir,
           r.pkt[d].iter = (r.pkt[a].iter - k) % IterMod
    PROVE At(r, a, k) # None /\ At(r, a, k) \in Slots /\ ~Ahead(r, At(r, a, k), d)
<1> DEFINE i == (r.pkt[a].iter - k) % IterMod
           S == {s \in Slots :
                   /\ r.pkt[s].kind \in AppKinds
                   /\ r.pkt[s].st \in {"SENT_NOACKED", "WAIT_ACK", "LOST", "DELIVERED"}
                   /\ r.pkt[s].iter = i}
<1>1. At(r, a, k) = Newest(r.head, S)
  BY DEF At, SentByIter
<1>2. S \in SUBSET Slots /\ d \in S /\ r.head \in Slots
  BY DEF OnAir, Ring
<1> HIDE DEF S
<1>3. At(r, a, k) \in S /\ Age(r.head, d) <= Age(r.head, At(r, a, k))
  BY <1>1, <1>2, NewestFacts
<1>4. At(r, a, k) \in Slots
  BY <1>2, <1>3
<1>5. Age(r.head, d) \in Int /\ Age(r.head, At(r, a, k)) \in Int
  BY <1>2, <1>4, AgeFacts
<1>6. QED BY <1>3, <1>4, <1>5 DEF Ahead, Slots, None

LEMMA WalkedNumber ==
    ASSUME NEW r \in Ring, NEW a \in Slots, NEW f \in [Slots -> Nat],
           NEW n \in Nat, NEW w \in Nat, Waiting(r, a, f, n, w),
           NEW k \in AckWindow(r, a), At(r, a, k) # None
    PROVE /\ At(r, a, k) \in Stamps(r) /\ f[At(r, a, k)] + k = f[a]
          /\ Inside(f[At(r, a, k)], f[a], r.pkt[a].mack)
<1> DEFINE c == At(r, a, k)
           M == r.pkt[a].mack
           I == IterMod
<1>1. a \in Stamps(r) /\ Awaiting(r.pkt[a]) /\ Asking(r.pkt[a]) /\ M \in 1 .. I /\ f[a] \in Nat
  BY WaitingFacts
<1>2. c \in Stamps(r) /\ r.pkt[c].st \in OnAir /\ r.pkt[c].kind \in AppKinds
  BY AtOnAir, AtApp DEF Stamps, Stamped, StampKinds, OnAir
<1>3. r.pkt[c].iter = (r.pkt[a].iter - k) % I
  BY AtOnAir
<1>4. k \in Nat /\ k < M
  BY <1>1 DEF AckWindow
<1>5. f[c] \in Nat /\ f[c] % I = r.pkt[c].iter /\ f[a] % I = r.pkt[a].iter
  BY <1>1, <1>2, StampFacts DEF Waiting, Windows, Dated
<1>6. f[c] + M < f[a] + 1 + I
  <2>1. r.pkt[c].st # "QUEUED"
    BY <1>2 DEF OnAir
  <2>2. QED BY <1>1, <1>2, <2>1 DEF Waiting, Windows, Younger
<1> DEFINE x == f[a] - k
<1> HIDE DEF c, M, x
<1>7. f[c] % I = x % I
  <2>1. f[c] % I = ((f[a] % I) - k) % I
    BY <1>3, <1>5
  <2>2. ((f[a] % I) - k) % I = (f[a] - k) % I
    BY <1>1, <1>4, ModLess
  <2>3. QED BY <2>1, <2>2 DEF x
<1>8. x \in Int /\ I \in Nat \ {0} /\ M \in Nat /\ I \in Int
  BY <1>1, <1>4 DEF x
<1>9. ~(f[c] > x)
  <2> SUFFICES ASSUME f[c] > x PROVE FALSE
    OBVIOUS
  <2> DEFINE e == f[c] - x
  <2>1. e \in 1 .. I - 1 /\ f[c] = x + e
    BY <1>1, <1>4, <1>5, <1>6, <1>8 DEF x
  <2> HIDE DEF e, I
  <2>2. (x + e) % I # x % I
    BY <1>8, <2>1, ModApart
  <2>3. QED BY <1>7, <2>1, <2>2
<1>10. ~(f[c] < x)
  <2> SUFFICES ASSUME f[c] < x PROVE FALSE
    OBVIOUS
  <2>1. x \in Nat /\ f[c] <= x /\ Inside(x, f[a], M)
    BY <1>1, <1>4, <1>5, <1>8 DEF x, Inside
  <2>2. PICK d \in Stamps(r) : f[d] = x
    BY <1>1, <1>2, <2>1 DEF Waiting, Windows, Whole, M
  <2>3. r.pkt[d].kind \in AppKinds /\ r.pkt[d].st \in OnAir
    BY <2>1, <2>2, MemberOnAir DEF M
  <2>4. d \in Slots /\ r.pkt[d].iter = (r.pkt[a].iter - k) % I
    BY <1>3, <1>5, <1>7, <2>2, StampFacts DEF Waiting, Windows, Dated
  <2>5. ~Ahead(r, c, d)
    BY <2>3, <2>4, MetIsNewest, CellFacts DEF c
  <2>6. Ahead(r, c, d)
    BY <1>2, <2>2, Ranked DEF Waiting, Windows
  <2>7. QED BY <2>5, <2>6
<1>11. f[c] = x
  BY <1>5, <1>8, <1>9, <1>10
<1>12. f[c] + k = f[a] /\ Inside(f[c], f[a], M)
  BY <1>1, <1>4, <1>5, <1>11 DEF x, Inside
<1>13. QED BY <1>2, <1>12 DEF c, M

LEMMA MemberWalked ==
    ASSUME NEW r \in Ring, NEW a \in Slots, NEW f \in [Slots -> Nat],
           NEW n \in Nat, NEW w \in Nat, Waiting(r, a, f, n, w),
           NEW d \in Stamps(r), Inside(f[d], f[a], r.pkt[a].mack)
    PROVE f[a] - f[d] \in AckWindow(r, a) /\ At(r, a, f[a] - f[d]) = d
<1> DEFINE k == f[a] - f[d]
           I == IterMod
<1>1. a \in Stamps(r) /\ r.pkt[a].mack \in 1 .. I /\ f[a] \in Nat
  BY WaitingFacts
<1>2. d \in Slots /\ f[d] \in Nat /\ f[d] % I = r.pkt[d].iter /\ f[a] % I = r.pkt[a].iter
  BY <1>1, StampFacts DEF Waiting, Windows, Dated
<1>3. k \in AckWindow(r, a) /\ k \in Nat
  BY <1>1, <1>2 DEF Inside, AckWindow
<1>4. r.pkt[d].iter = (r.pkt[a].iter - k) % I
  <2>1. f[a] - k = f[d]
    BY <1>1, <1>2
  <2> HIDE DEF k
  <2>2. PICK z \in Int : z = f[a]
    BY <1>1
  <2>3. I \in Nat \ {0} /\ k \in Int
    BY <1>3
  <2> HIDE DEF I
  <2>4. ((z % I) - k) % I = (z - k) % I
    BY <2>3, ModLess, Zenon
  <2>5. r.pkt[d].iter = (z - k) % I
    BY <1>2, <2>1, <2>2
  <2>6. r.pkt[a].iter = z % I
    BY <1>2, <2>2
  <2>7. QED BY <2>4, <2>5, <2>6 DEF I
<1> HIDE DEF k
<1>5. At(r, a, k) # None
  BY <1>2, <1>4, MemberOnAir, MetIsNewest, CellFacts
<1>6. At(r, a, k) \in Stamps(r) /\ f[At(r, a, k)] + k = f[a]
  BY <1>3, <1>5, WalkedNumber
<1>7. f[At(r, a, k)] = f[d]
  <2>1. f[At(r, a, k)] \in Nat
    BY <1>6, StampFacts
  <2>2. QED BY <1>1, <1>2, <1>6, <2>1 DEF k
<1>8. At(r, a, k) = d
  BY <1>6, <1>7, Ranked DEF Waiting, Windows
<1>9. QED BY <1>3, <1>8 DEF k

\* What the walk makes of the packets in the window.
LEMMA WalkedCell ==
    ASSUME NEW r \in Ring, NEW a \in Slots, NEW f \in [Slots -> Nat],
           NEW n \in Nat, NEW w \in Nat, Waiting(r, a, f, n, w), NEW has,
           NEW c \in Stamps(r), Inside(f[c], f[a], r.pkt[a].mack)
    PROVE f[a] - f[c] \in Walked(r, a, has) =>
              Marked(r, a, has).pkt[c].st \in {"QUEUED_AGAIN", "DELIVERED"}
<1> DEFINE p == r.pkt[c]
           m == Marked(r, a, has).pkt[c]
           k == f[a] - f[c]
<1>1. c \in Cells
  BY CellFacts DEF Stamps
<1>2. m = IF \E j \in Absent(r, a, has) : At(r, a, j) = c
          THEN [p EXCEPT !.st = "QUEUED_AGAIN", !.retry = @ + 1]
          ELSE IF \E j \in Walked(r, a, has) : At(r, a, j) = c
          THEN [p EXCEPT !.st = "DELIVERED"]
          ELSE IF \E j \in GivenUp(r, a, has) : At(r, a, j) = c
          THEN [p EXCEPT !.retry = @ + 1]
          ELSE p
  BY <1>1 DEF Marked, Ring
<1>3. k \in AckWindow(r, a) /\ At(r, a, k) = c
  BY MemberWalked
<1>4. k \in Walked(r, a, has) => \E j \in Walked(r, a, has) : At(r, a, j) = c
  BY <1>3
<1>5. p \in Packet
  BY <1>1, RingPkt
<1> HIDE DEF m, k, p
<1>6. QED BY <1>2, <1>4, <1>5 DEF m, k, Packet

\* The walk meets every packet of the window, or gives one up.
LEMMA WalkedAll ==
    ASSUME NEW r \in Ring, NEW a \in Slots, NEW f \in [Slots -> Nat],
           NEW n \in Nat, NEW w \in Nat, Waiting(r, a, f, n, w), NEW has,
           GivenUp(r, a, has) = {},
           NEW c \in Stamps(r), Inside(f[c], f[a], r.pkt[a].mack)
    PROVE f[a] - f[c] \in Walked(r, a, has)
<1> DEFINE k == f[a] - f[c]
           T == Stops(r, a, has)
<1>1. k \in AckWindow(r, a)
  BY MemberWalked
<1>2. a \in Stamps(r) /\ Asking(r.pkt[a]) /\ r.pkt[a].mack \in 1 .. IterMod /\ f[a] \in Nat
  BY WaitingFacts
<1>3. f[c] \in Nat /\ IterMod \in Nat
  BY StampFacts
<1>4. SUFFICES ASSUME NEW i \in T, i <= k PROVE FALSE
  <2>1. \A i \in T : i \in Int /\ k \in Int
    BY <1>2, <1>3 DEF Stops, AckWindow
  <2>2. \A i \in T : ~(i <= k) => k < i
    <3> HIDE DEF T, k
    <3> QED BY <2>1
  <2>3. QED BY <1>1, <2>2 DEF Walked
<1>5. T \in SUBSET Nat
  BY <1>2 DEF Stops, AckWindow
<1>6. PICK j \in T : \A i2 \in T : j <= i2
  <2> HIDE DEF T
  <2> QED BY <1>4, <1>5, LeastOf
<1>7. j \in Nat /\ j <= k /\ j \in AckWindow(r, a)
  <2>1. i \in Nat /\ j \in Nat /\ j <= i
    BY <1>4, <1>5, <1>6
  <2>2. k \in Int
    BY <1>2, <1>3
  <2> HIDE DEF k, T
  <2>3. QED BY <1>4, <1>6, <2>1, <2>2 DEF T, Stops
<1>8. PICK x \in Nat : x = f[a] - j /\ f[c] <= x /\ Inside(x, f[a], r.pkt[a].mack)
  <2>1. f[a] - j \in Nat /\ f[c] <= f[a] - j
    BY <1>2, <1>3, <1>7
  <2>2. j < r.pkt[a].mack
    BY <1>2, <1>7 DEF AckWindow
  <2>3. Inside(f[a] - j, f[a], r.pkt[a].mack)
    BY <1>2, <1>3, <1>7, <2>2 DEF Inside
  <2>4. QED BY <2>1, <2>3
<1>9. PICK d \in Stamps(r) : f[d] = x
  BY <1>2, <1>8 DEF Waiting, Windows, Whole
<1>10. At(r, a, j) = d
  <2>1. f[a] - f[d] = j
    BY <1>2, <1>7, <1>8, <1>9
  <2>2. Inside(f[d], f[a], r.pkt[a].mack)
    BY <1>8, <1>9
  <2>3. QED BY <2>1, <2>2, MemberWalked
<1>11. At(r, a, j) # None
  BY <1>10 DEF Stamps, Slots, None
<1>12. j \in GivenUp(r, a, has)
  BY <1>6, <1>11 DEF GivenUp
<1>13. QED BY <1>12

\* The packets after the walk, and after NBFi_Close_Active_Packet if it gave
\* one up.
Closed(r, a, has) == IF GivenUp(r, a, has) = {} THEN Marked(r, a, has)
                     ELSE CloseActive(Marked(r, a, has), a)

\* The packet is the same but for its state and its retries.
Twin(p, q) == /\ q.id = p.id /\ q.kind = p.kind /\ (q.hs <=> p.hs) /\ (q.ack <=> p.ack)
              /\ q.iter = p.iter /\ q.mack = p.mack

LEMMA ClosedCell ==
    ASSUME NEW r \in Ring, NEW a \in Slots, NEW f \in [Slots -> Nat],
           NEW n \in Nat, NEW w \in Nat, Waiting(r, a, f, n, w), NEW has,
           r.pkt[a].iter \in has, NEW c \in Cells
    PROVE LET p == r.pkt[c]
              q == Closed(r, a, has).pkt[c]
          IN  \/ q = p /\ (c = Idle \/ c \notin Stamps(r) \/ p.st = "QUEUED")
              \/ /\ c \in Stamps(r) /\ p.st \in OnAir /\ Twin(p, q) /\ p.hs
                 /\ \/ q.st \in {"DELIVERED", "LOST"}
                    \/ /\ q.st = "QUEUED_AGAIN"
                       /\ \E k \in Absent(r, a, has) : At(r, a, k) = c
<1> DEFINE p == r.pkt[c]
           mk == Marked(r, a, has)
           m == mk.pkt[c]
           q == Closed(r, a, has).pkt[c]
<1>1. mk \in Ring /\ p \in Packet /\ m \in Packet
  <2>1. mk \in Ring
    BY MarkedType, CellFacts
  <2>2. QED BY <2>1, RingPkt
<1>2. \/ q = m /\ GivenUp(r, a, has) = {}
      \/ q = m /\ GivenUp(r, a, has) # {} /\ c # a /\ (c = Idle \/ m.st # "SENT_NOACKED")
      \/ q = [m EXCEPT !.st = "LOST"] /\ (c = a \/ m.st = "SENT_NOACKED")
  BY <1>1, CloseActiveShape, CellFacts DEF Closed
<1>3. WalkMakes(p, m, c = a)
  BY MarkedShape, CellFacts
<1>4. p.st \notin OnAir => m = p
  BY <1>3 DEF WalkMakes
<1>5. m.st = "QUEUED_AGAIN" => p.st = "QUEUED_AGAIN" \/ \E k \in Absent(r, a, has) : At(r, a, k) = c
  <2>1. m = IF \E k \in Absent(r, a, has) : At(r, a, k) = c
            THEN [p EXCEPT !.st = "QUEUED_AGAIN", !.retry = @ + 1]
            ELSE IF \E k \in Walked(r, a, has) : At(r, a, k) = c
            THEN [p EXCEPT !.st = "DELIVERED"]
            ELSE IF \E k \in GivenUp(r, a, has) : At(r, a, k) = c
            THEN [p EXCEPT !.retry = @ + 1]
            ELSE p
    BY DEF Marked, Ring
  <2> HIDE DEF m, p
  <2>2. QED BY <1>1, <2>1 DEF Packet
<1>6. /\ p.st \in OnAir => c \in Stamps(r) /\ p.hs
      /\ c \in Stamps(r) /\ p.st \notin OnAir => p.st = "QUEUED"
  <2>1. c = Idle => p.st = "FREE"
    BY DEF Waiting, Windows, Shaped
  <2>2. c # Idle => c \in Slots /\ PktShaped(p)
    BY CellFacts DEF Waiting, Windows, Shaped
  <2>3. p.st \in OnAir => c \in Stamps(r) /\ p.hs
    BY <2>1, <2>2 DEF OnAir, PktShaped, Stamps, Stamped
  <2>4. ASSUME c \in Stamps(r), p.st \notin OnAir PROVE p.st = "QUEUED"
    <3>1. c \in Slots /\ p.st # "FREE" /\ p.kind \in StampKinds /\ PktShaped(p)
      BY <2>2, <2>4, CellFacts DEF Stamps, Stamped
    <3>2. p.st # "QUEUED_AGAIN"
      BY <3>1, WaitingFacts DEF Again, InState
    <3>3. p.st \notin {"NEED_TO_SEND_RIGHT_NOW", "WAIT_FOR_EXTRA_PACKETS"}
      BY <3>1 DEF PktShaped
    <3>4. p.st \in States
      BY <1>1 DEF Packet
    <3>5. QED BY <2>4, <3>1, <3>2, <3>3, <3>4 DEF States, OnAir
  <2>5. QED BY <2>3, <2>4
<1>7. a \in Stamps(r) /\ p.st \notin OnAir => c # a
  BY DEF Waiting, OnAir
<1>8. CASE p.st \notin OnAir
  <2>1. m = p /\ c # a
    <3>1. c # a
      BY <1>8 DEF Waiting, OnAir
    <3>2. QED BY <1>4, <1>8, <3>1
  <2>2. m.st # "SENT_NOACKED"
    BY <1>8, <2>1 DEF OnAir
  <2>3. q = p
    BY <1>2, <2>1, <2>2
  <2>4. c \notin Stamps(r) \/ p.st = "QUEUED"
    BY <1>6, <1>8
  <2>5. QED BY <2>3, <2>4
<1>9. CASE p.st \in OnAir
  <2>1. Twin(p, m)
    <3> HIDE DEF m, p, mk
    <3>1. \/ m = p \/ m = [p EXCEPT !.st = "DELIVERED"]
          \/ m = [p EXCEPT !.st = "QUEUED_AGAIN", !.retry = @ + 1]
          \/ m = [p EXCEPT !.retry = @ + 1]
      BY <1>3 DEF WalkMakes, p, m, mk
    <3>2. QED BY <1>1, <3>1 DEF Twin, Packet
  <2>2. Twin(p, q)
    <3> HIDE DEF m, p, mk, q
    <3>1. q = m \/ q = [m EXCEPT !.st = "LOST"]
      BY <1>2 DEF q, m, mk
    <3>2. Twin(m, q)
      BY <1>1, <3>1 DEF Twin, Packet
    <3>3. QED BY <2>1, <3>2 DEF Twin
  <2>3. c \in Stamps(r) /\ c # Idle /\ p.hs
    BY <1>6, <1>9, CellFacts DEF Stamps
  <2>4. m.st \in OnAir \/ m.st = "QUEUED_AGAIN"
    <3> HIDE DEF m, mk
    <3> QED BY <1>1, <1>3, <1>9 DEF WalkMakes, OnAir, Packet, m, mk
  <2>5. CASE q = [m EXCEPT !.st = "LOST"]
    <3>1. q.st = "LOST"
      BY <1>1, <2>5 DEF Packet
    <3>2. QED BY <1>9, <2>2, <2>3, <3>1
  <2>6. CASE q = m /\ m.st \in {"DELIVERED", "LOST"}
    BY <1>9, <2>2, <2>3, <2>6
  <2>7. CASE q = m /\ m.st = "QUEUED_AGAIN"
    <3>1. p.st # "QUEUED_AGAIN"
      BY <1>9 DEF OnAir
    <3>2. \E k \in Absent(r, a, has) : At(r, a, k) = c
      BY <1>5, <2>7, <3>1
    <3>3. QED BY <1>9, <2>2, <2>3, <2>7, <3>2
  <2>8. CASE q = m /\ m.st \in {"SENT_NOACKED", "WAIT_ACK"}
    <3>1. p.st = m.st
      <4> HIDE DEF m, mk
      <4> QED BY <1>1, <1>3, <2>8 DEF WalkMakes, Packet, m, mk
    <3>2. Inside(f[c], f[a], r.pkt[a].mack)
      <4>1. CASE m.st = "SENT_NOACKED"
        BY <2>3, <3>1, <4>1, InFlight DEF Waiting, Stamps
      <4>2. CASE m.st = "WAIT_ACK"
        <5>1. c = a
          BY <2>3, <3>1, <4>2 DEF Waiting, OneWaits, Stamps
        <5>2. QED BY <5>1, WaitingFacts
      <4>3. QED BY <2>8, <4>1, <4>2
    <3>3. GivenUp(r, a, has) = {} \/ (c # a /\ m.st # "SENT_NOACKED")
      <4>1. q.st # "LOST"
        BY <2>8
      <4>2. [m EXCEPT !.st = "LOST"].st = "LOST"
        BY <1>1 DEF Packet
      <4>3. QED BY <1>2, <2>3, <4>1, <4>2
    <3>4. c # a => m.st # "WAIT_ACK"
      BY <2>3, <3>1 DEF Waiting, OneWaits, Stamps
    <3>5. GivenUp(r, a, has) = {}
      BY <2>8, <3>3, <3>4
    <3>6. f[a] - f[c] \in Walked(r, a, has)
      BY <2>3, <3>2, <3>5, WalkedAll
    <3>7. m.st \in {"QUEUED_AGAIN", "DELIVERED"}
      BY <2>3, <3>2, <3>6, WalkedCell
    <3>8. QED BY <2>8, <3>7
  <2>9. QED BY <1>2, <2>4, <2>5, <2>6, <2>7, <2>8 DEF OnAir
<1>10. QED BY <1>8, <1>9

LEMMA ModSub ==
    ASSUME NEW d \in Nat \ {0}, NEW x \in Int, NEW y \in Int
    PROVE ((x % d) - (y % d)) % d = (x - y) % d
<1> DEFINE q == y \div d
           b == y % d
<1>1. q \in Int /\ b \in 0 .. d - 1 /\ y = d * q + b
  BY DivMod
<1> HIDE DEF q, b
<1>2. d * q \in Int /\ b \in Int
  BY <1>1, MulSum
<1>3. ((x % d) - b) % d = (x - b) % d
  BY <1>2, ModLess
<1>4. x - b = (x - y) + d * q /\ x - y \in Int
  BY <1>1, <1>2
<1>5. ((x - y) + d * q) % d = (x - y) % d
  BY <1>1, <1>4, ModAdd
<1>6. QED BY <1>3, <1>4, <1>5 DEF b

LEMMA TwinShaped ==
    ASSUME NEW p, NEW q, Twin(p, q), PktShaped(p), p.st \in OnAir, p.hs,
           q.st \in {"DELIVERED", "LOST", "QUEUED_AGAIN"}
    PROVE PktShaped(q)
BY DEF Twin, PktShaped, OnAir

LEMMA ClosedType ==
    ASSUME NEW r \in Ring, NEW a \in Cells, NEW has
    PROVE Closed(r, a, has) \in Ring /\ Closed(r, a, has).head = r.head
<1>1. Marked(r, a, has) \in Ring /\ Marked(r, a, has).head = r.head
  <2>1. Marked(r, a, has).head = r.head
    BY DEF Marked, Ring
  <2>2. QED BY <2>1, MarkedType
<1>2. QED BY <1>1, CloseActiveType, CloseActiveShape DEF Closed

LEMMA ClosedShape ==
    ASSUME NEW r \in Ring, NEW a \in Slots, NEW f \in [Slots -> Nat],
           NEW n \in Nat, NEW w \in Nat, Waiting(r, a, f, n, w), NEW has,
           r.pkt[a].iter \in has
    PROVE LET t == Closed(r, a, has) IN
          /\ Restated(r, t) /\ Shaped(t)
          /\ \A c \in Stamps(r) : t.pkt[c].ack <=> r.pkt[c].ack
          /\ \A c \in Stamps(r) : t.pkt[c].mack = r.pkt[c].mack
<1> DEFINE t == Closed(r, a, has)
<1>1. t.head = r.head
  BY ClosedType, CellFacts
<1>2. ASSUME NEW c \in Cells
      PROVE \/ t.pkt[c] = r.pkt[c]
            \/ /\ c \in Stamps(r) /\ r.pkt[c].st \in OnAir /\ Twin(r.pkt[c], t.pkt[c])
               /\ r.pkt[c].hs /\ t.pkt[c].st \in {"DELIVERED", "LOST", "QUEUED_AGAIN"}
  BY ClosedCell
<1> HIDE DEF t
<1>3. Shaped(t)
  <2>1. t.pkt[Idle].st = "FREE"
    <3>1. Idle \notin Stamps(r)
      BY CellFacts DEF Stamps
    <3>2. QED BY <1>2, <3>1, CellFacts DEF Waiting, Windows, Shaped
  <2>2. ASSUME NEW c \in Slots PROVE PktShaped(t.pkt[c])
    <3>1. PktShaped(r.pkt[c])
      BY DEF Waiting, Windows, Shaped
    <3>2. QED BY <1>2, <3>1, TwinShaped, CellFacts
  <2>3. QED BY <2>1, <2>2 DEF Shaped
<1>4. \A c \in Slots : c \in Stamps(t) <=> c \in Stamps(r)
  <2> SUFFICES ASSUME NEW c \in Slots PROVE Stamped(t.pkt[c]) <=> Stamped(r.pkt[c])
    BY DEF Stamps
  <2>1. CASE t.pkt[c] = r.pkt[c]
    BY <2>1
  <2>2. CASE /\ c \in Stamps(r) /\ Twin(r.pkt[c], t.pkt[c])
             /\ t.pkt[c].st \in {"DELIVERED", "LOST", "QUEUED_AGAIN"}
    BY <2>2 DEF Stamps, Stamped, Twin
  <2>3. QED BY <1>2, <2>1, <2>2, CellFacts
<1>5. Stamps(t) = Stamps(r)
  BY <1>4 DEF Stamps
<1>6. \A c \in Stamps(r) : Twin(r.pkt[c], t.pkt[c])
  <2> SUFFICES ASSUME NEW c \in Stamps(r) PROVE Twin(r.pkt[c], t.pkt[c])
    OBVIOUS
  <2>1. c \in Cells
    BY CellFacts DEF Stamps
  <2>2. QED BY <1>2, <2>1 DEF Twin
<1>7. Restated(r, t)
  BY <1>1, <1>5, <1>6 DEF Restated, Twin, Ahead
<1>8. QED BY <1>3, <1>6, <1>7 DEF t, Twin

\* Every packet is there, or the walk gave one up and closed the others.
LEMMA ClosedWindows ==
    ASSUME NEW r \in Ring, NEW a \in Slots, NEW f \in [Slots -> Nat],
           NEW n \in Nat, NEW w \in Nat, Waiting(r, a, f, n, w), NEW has,
           r.pkt[a].iter \in has, Absent(r, a, has) = {}
    PROVE Windows(Closed(r, a, has), a, f, n, w)
<1> DEFINE t == Closed(r, a, has)
<1>1. /\ t \in Ring /\ Restated(r, t) /\ Shaped(t)
      /\ \A c \in Stamps(r) : t.pkt[c].ack <=> r.pkt[c].ack
      /\ \A c \in Stamps(r) : t.pkt[c].mack = r.pkt[c].mack
  BY ClosedType, ClosedShape, CellFacts
<1>2. \A c \in Stamps(r) : IF r.pkt[c].st = "QUEUED" THEN t.pkt[c].st = "QUEUED"
                           ELSE t.pkt[c].st \in {"DELIVERED", "LOST"}
  <2> SUFFICES ASSUME NEW c \in Stamps(r)
               PROVE IF r.pkt[c].st = "QUEUED" THEN t.pkt[c].st = "QUEUED"
                     ELSE t.pkt[c].st \in {"DELIVERED", "LOST"}
    OBVIOUS
  <2>1. c \in Cells /\ c # Idle
    BY CellFacts DEF Stamps
  <2>2. \/ t.pkt[c] = r.pkt[c] /\ r.pkt[c].st = "QUEUED"
        \/ r.pkt[c].st \in OnAir /\ t.pkt[c].st \in {"DELIVERED", "LOST"}
    BY <2>1, ClosedCell
  <2>3. QED BY <2>2 DEF OnAir
<1> HIDE DEF t
<1>3. Windows(r, a, f, n, w)
  BY DEF Waiting
<1>4. QED BY <1>1, <1>2, <1>3, DoneWindows, CellFacts DEF t

LEMMA FirstAbsentFacts ==
    ASSUME NEW r \in Ring, NEW a \in Cells, NEW has
    PROVE /\ FirstAbsent(r, a, has) = None => Absent(r, a, has) = {}
          /\ FirstAbsent(r, a, has) # None =>
                /\ FirstAbsent(r, a, has) \in Absent(r, a, has)
                /\ \A j \in Absent(r, a, has) : FirstAbsent(r, a, has) <= j
<1> DEFINE T == Absent(r, a, has)
           L == {k \in T : \A j \in T : k <= j}
<1>1. T \in SUBSET Nat
  <2>1. r.pkt[a].mack \in Nat
    BY RingPkt DEF Packet
  <2>2. QED BY <2>1 DEF Absent, Walked, AckWindow
<1>2. T # {} => L # {}
  <2> HIDE DEF T
  <2> QED BY <1>1, LeastOf
<1>3. FirstAbsent(r, a, has) = AnyOf(L)
  BY DEF FirstAbsent
<1> HIDE DEF T
<1>4. L # {} => AnyOf(L) \in L
  <2> HIDE DEF L
  <2> QED BY DEF AnyOf
<1>5. L = {} => AnyOf(L) = None
  <2> HIDE DEF L
  <2> QED BY DEF AnyOf
<1>6. None \notin T
  BY <1>1 DEF None
<1>7. CASE L = {}
  BY <1>2, <1>3, <1>5, <1>7 DEF T
<1>8. CASE L # {}
  BY <1>3, <1>4, <1>6, <1>8 DEF T
<1>9. QED BY <1>7, <1>8

\* The newest packet that is missing asks for the next ACK.
LEMMA AskedAgainWindows ==
    ASSUME NEW r \in Ring, NEW a \in Slots, NEW f \in [Slots -> Nat],
           NEW n \in Nat, NEW w \in Nat, Waiting(r, a, f, n, w), NEW has,
           r.pkt[a].iter \in has, IterMod <= 64, NEW k \in Absent(r, a, has),
           \A j \in Absent(r, a, has) : k <= j
    PROVE LET s == At(r, a, k)
              v == AskAgain(Closed(r, a, has), a, s)
          IN  /\ s \in Stamps(r) /\ s # a /\ Ahead(r, s, a)
              /\ v \in Ring /\ Windows(v, a, f, n, w)
              /\ v.pkt[s].st = "QUEUED_AGAIN" /\ v.pkt[s].kind \in AppKinds
              /\ v.head = r.head /\ \A c \in Cells : c # s => v.pkt[c] = Closed(r, a, has).pkt[c]
<1> DEFINE s == At(r, a, k)
           t == Closed(r, a, has)
           v == AskAgain(t, a, s)
           M == r.pkt[a].mack
           I == IterMod
           x == (t.pkt[a].mack - ((t.pkt[a].iter - t.pkt[s].iter) % IterMod)) % 64
<1>1. /\ t \in Ring /\ t.head = r.head /\ Restated(r, t) /\ Shaped(t)
      /\ \A c \in Stamps(r) : t.pkt[c].ack <=> r.pkt[c].ack
      /\ \A c \in Stamps(r) : t.pkt[c].mack = r.pkt[c].mack
  BY ClosedType, ClosedShape, CellFacts
<1>2. \A j \in Absent(r, a, has) :
          /\ j \in AckWindow(r, a) /\ j > 0
          /\ At(r, a, j) \in Stamps(r) /\ f[At(r, a, j)] + j = f[a]
          /\ Inside(f[At(r, a, j)], f[a], M)
  <2> SUFFICES ASSUME NEW j \in Absent(r, a, has)
               PROVE /\ j \in AckWindow(r, a) /\ j > 0
                     /\ At(r, a, j) \in Stamps(r) /\ f[At(r, a, j)] + j = f[a]
                     /\ Inside(f[At(r, a, j)], f[a], M)
    OBVIOUS
  <2>1. j \in Walked(r, a, has) /\ j > 0
    BY DEF Absent, Missing
  <2>2. j \in AckWindow(r, a)
    BY <2>1 DEF Walked
  <2>3. At(r, a, j) # None
    BY <2>1, WalkedAt, CellFacts
  <2>4. QED BY <2>1, <2>2, <2>3, WalkedNumber
<1>3. a \in Stamps(r) /\ M \in 1 .. I /\ f[a] \in Nat /\ Again(r) = {}
  BY WaitingFacts
<1>4. /\ s \in Stamps(r) /\ f[s] \in Nat /\ f[s] + k = f[a] /\ Inside(f[s], f[a], M)
      /\ k \in Nat /\ 0 < k /\ k < M
  BY <1>2, <1>3, StampFacts DEF AckWindow
<1>5. s # a /\ f[s] < f[a]
  BY <1>3, <1>4
<1>6. Ahead(r, s, a)
  BY <1>3, <1>4, <1>5, Ranked DEF Waiting, Windows
<1>7. s \in Slots /\ s \in Cells /\ s # Idle /\ a \in Cells
  BY <1>4, CellFacts DEF Stamps
<1>8. t.pkt[s].st = "QUEUED_AGAIN"
  <2>1. Marked(r, a, has).pkt[s].st = "QUEUED_AGAIN"
    <3> DEFINE p == r.pkt[s]
               m == Marked(r, a, has).pkt[s]
    <3>1. m = IF \E j \in Absent(r, a, has) : At(r, a, j) = s
              THEN [p EXCEPT !.st = "QUEUED_AGAIN", !.retry = @ + 1]
              ELSE IF \E j \in Walked(r, a, has) : At(r, a, j) = s
              THEN [p EXCEPT !.st = "DELIVERED"]
              ELSE IF \E j \in GivenUp(r, a, has) : At(r, a, j) = s
              THEN [p EXCEPT !.retry = @ + 1]
              ELSE p
      BY <1>7 DEF Marked, Ring
    <3>2. \E j \in Absent(r, a, has) : At(r, a, j) = s
      OBVIOUS
    <3>3. p \in Packet
      BY <1>7, RingPkt
    <3> HIDE DEF m, p, s
    <3>4. QED BY <3>1, <3>2, <3>3 DEF Packet, m
  <2>2. Marked(r, a, has) \in Ring
    BY MarkedType, <1>7
  <2>3. CloseActive(Marked(r, a, has), a).pkt[s] = Marked(r, a, has).pkt[s]
    <3> DEFINE mk == Marked(r, a, has)
    <3>1. mk \in Ring /\ mk.pkt[s].st # "SENT_NOACKED" /\ s \in Cells /\ s # a
      BY <1>5, <1>7, <2>1, <2>2
    <3> HIDE DEF mk, s
    <3>2. CloseActive(mk, a).pkt[s] = mk.pkt[s]
      BY <3>1 DEF CloseActive
    <3>3. QED BY <3>2 DEF mk
  <2>4. QED BY <2>1, <2>3 DEF Closed
<1>9. x + k = M /\ x \in 1 .. I
  <2>1. t.pkt[a].mack = M /\ t.pkt[a].iter = f[a] % I /\ t.pkt[s].iter = f[s] % I
    BY <1>1, <1>3, <1>4 DEF Restated, Waiting, Windows, Dated
  <2>2. I \in Nat \ {0}
    OBVIOUS
  <2>3. ((f[a] % I) - (f[s] % I)) % I = (f[a] - f[s]) % I
    BY <1>3, <1>4, <2>2, ModSub
  <2>4. f[a] - f[s] = k /\ k \in 0 .. I - 1
    BY <1>3, <1>4, <2>2
  <2>5. k % I = k
    <3> HIDE DEF I
    <3> QED BY <2>2, <2>4, ModSmall
  <2>6. x = (M - k) % 64
    BY <2>1, <2>3, <2>4, <2>5
  <2>7. M - k \in 0 .. 63
    BY <1>3, <1>4, <2>2
  <2>8. (M - k) % 64 = M - k
    BY <2>7
  <2> HIDE DEF x
  <2>9. QED BY <1>3, <1>4, <2>2, <2>6, <2>8
<1> DEFINE y == [t.pkt[s] EXCEPT !.ack = TRUE, !.mack = x]
<1>10. v.head = r.head /\ \A c \in Cells : v.pkt[c] = IF c = s THEN y ELSE t.pkt[c]
  <2> HIDE DEF t, s
  <2>1. v = SetPkt(t, s, y)
    BY <1>1, <1>7 DEF AskAgain, SetPkt, Ring
  <2> HIDE DEF v, y
  <2>2. QED BY <1>1, <1>7, <2>1 DEF SetPkt, Ring
<1>11. t.pkt[s] \in Packet /\ x \in Nat
  <2>1. x \in Nat
    <3> HIDE DEF x
    <3> QED BY <1>9
  <2>2. QED BY <1>1, <1>7, <2>1, RingPkt
<1>12. v \in Ring
  BY <1>1, <1>7, AskAgainType
<1> HIDE DEF x, t, s, v
<1>13. /\ y.st = t.pkt[s].st /\ y.kind = t.pkt[s].kind /\ (y.hs <=> t.pkt[s].hs)
       /\ y.ack /\ y.iter = t.pkt[s].iter /\ y.mack = x
  BY <1>11 DEF Packet
<1> HIDE DEF y
<1>14. r.pkt[s].kind \in AppKinds /\ r.pkt[s].hs
  BY <1>4, MemberOnAir
<1>15. y.kind \in AppKinds /\ y.hs
  BY <1>1, <1>4, <1>13, <1>14 DEF Restated
<1>16. Shaped(v)
  <2>1. PktShaped(y)
    <3>1. 0 < y.mack /\ y.mack <= IterMod
      BY <1>9, <1>13
    <3>2. QED BY <1>8, <1>13, <1>15, <3>1 DEF PktShaped, StampKinds, AppKinds
  <2>2. QED BY <1>1, <1>7, <1>10, <2>1, CellFacts DEF Shaped
<1>17. Restated(r, v)
  <2>1. \A c \in Slots : c \in Stamps(v) <=> c \in Stamps(t)
    <3>1. Stamped(y) /\ Stamped(t.pkt[s])
      BY <1>8, <1>13, <1>15 DEF Stamped, StampKinds
    <3>2. QED BY <1>10, <3>1, CellFacts DEF Stamps
  <2>2. Stamps(v) = Stamps(r)
    BY <1>1, <2>1 DEF Restated, Stamps
  <2>3. \A c \in Stamps(r) : /\ v.pkt[c].kind = t.pkt[c].kind /\ (v.pkt[c].hs <=> t.pkt[c].hs)
                             /\ v.pkt[c].iter = t.pkt[c].iter
    BY <1>10, <1>13, CellFacts DEF Stamps
  <2>4. QED BY <1>1, <1>10, <2>2, <2>3 DEF Restated, Ahead
<1>18. \A c \in Stamps(r) : c # s =>
          (v.pkt[c].ack <=> r.pkt[c].ack) /\ v.pkt[c].mack = r.pkt[c].mack
  BY <1>1, <1>10, CellFacts DEF Stamps
<1>19. ASSUME NEW c \in Stamps(r)
       PROVE IF r.pkt[c].st = "QUEUED" THEN v.pkt[c].st = "QUEUED"
             ELSE \/ v.pkt[c].st \in {"DELIVERED", "LOST"}
                  \/ /\ v.pkt[c].st = "QUEUED_AGAIN"
                     /\ Inside(f[c], f[a], M)
                     /\ c = s \/ Ahead(r, c, s)
  <2>1. c \in Cells /\ c # Idle
    BY CellFacts DEF Stamps
  <2>2. v.pkt[c].st = t.pkt[c].st
    BY <1>10, <1>13, <2>1
  <2>3. \/ t.pkt[c] = r.pkt[c] /\ r.pkt[c].st = "QUEUED"
        \/ /\ r.pkt[c].st \in OnAir
           /\ \/ t.pkt[c].st \in {"DELIVERED", "LOST"}
              \/ /\ t.pkt[c].st = "QUEUED_AGAIN"
                 /\ \E j \in Absent(r, a, has) : At(r, a, j) = c
    BY <2>1, ClosedCell DEF t
  <2>4. ASSUME NEW j \in Absent(r, a, has), At(r, a, j) = c
        PROVE Inside(f[c], f[a], M) /\ (c = s \/ Ahead(r, c, s))
    <3>1. j \in Int /\ k <= j /\ f[c] + j = f[a] /\ Inside(f[c], f[a], M)
      BY <1>2, <2>4 DEF AckWindow
    <3>2. f[c] \in Nat /\ f[c] <= f[s]
      BY <1>4, <3>1, StampFacts
    <3>3. Sorted(r, f)
      BY DEF Waiting, Windows
    <3>4. (f[c] < f[s] <=> Ahead(r, c, s)) /\ (f[c] = f[s] => c = s)
      BY <1>4, <3>3, Ranked
    <3>5. QED BY <1>4, <3>1, <3>2, <3>4
  <2>5. QED BY <2>2, <2>3, <2>4 DEF OnAir
<1>20. v.pkt[s].st = "QUEUED_AGAIN" /\ v.pkt[s].ack /\ v.pkt[s].mack + f[a] = M + f[s]
  <2>1. v.pkt[s] = y
    BY <1>7, <1>10
  <2>2. y.mack + f[a] = M + f[s]
    BY <1>3, <1>4, <1>9, <1>13
  <2>3. QED BY <1>8, <1>13, <2>1, <2>2
<1>21. Windows(v, a, f, n, w)
  <2>1. Windows(r, a, f, n, w) /\ r.pkt[a].st = "WAIT_ACK" /\ r.pkt[a].kind \in AppKinds
    BY DEF Waiting
  <2> HIDE DEF M
  <2>2. \A c \in Stamps(r) : c # s => (v.pkt[c].ack <=> r.pkt[c].ack)
    BY <1>18
  <2>3. \A c \in Stamps(r) : c # s => v.pkt[c].mack = r.pkt[c].mack
    BY <1>18
  <2>4. QED BY <1>4, <1>5, <1>12, <1>16, <1>17, <1>19, <1>20, <2>1, <2>2, <2>3, AskedWindows DEF M
<1>22. v.pkt[s].kind \in AppKinds
  BY <1>7, <1>10, <1>15
<1>23. \A c \in Cells : c # s => v.pkt[c] = t.pkt[c]
  BY <1>10
<1>24. QED BY <1>4, <1>5, <1>6, <1>10, <1>12, <1>20, <1>21, <1>22, <1>23 DEF s, t, v

-----------------------------------------------------------------------------
(***************************************************************************)
(* The stack's own packets.                                                *)
(***************************************************************************)
OwnSys(p) == p.kind \notin StampKinds /\ p.st = "NEED_TO_SEND_RIGHT_NOW" /\ ~p.ack

\* No packet is left that uses up an ITER.
LEMMA EmptyWindows ==
    ASSUME NEW q \in Ring, NEW b, NEW f, NEW n \in Nat, NEW w \in Nat,
           Stamps(q) = {}, Shaped(q), TailFits(n, w)
    PROVE Windows(q, b, f, n, w)
<1>1. Again(q) = {}
  <2>1. \A c \in Again(q) : c \in Stamps(q)
    BY DEF Shaped, PktShaped, Again, InState, Stamps, Stamped
  <2>2. QED BY <2>1
<1>2. Dated(q, f, n) /\ Sorted(q, f) /\ FirstOut(q)
  BY DEF Dated, Sorted, FirstOut
<1>3. OneRound(q, b)
  BY <1>1 DEF OneRound
<1>4. Younger(q, f) /\ Alone(q, f, n, w) /\ Members(q, f, n, w)
  BY DEF Younger, Alone, Members
<1>5. Whole(q, f, n, w) /\ Reached(q, f, n, w)
  BY DEF Whole, Reached
<1>6. QED BY <1>2, <1>3, <1>4, <1>5 DEF Windows

\* NBFi_AllocateTxPkt for a packet of the stack's own.
LEMMA OwnWindows ==
    ASSUME NEW r \in Ring, NEW p \in Packet, OwnSys(p), NEW a \in Cells,
           NEW f \in [Slots -> Nat], NEW n \in Nat, NEW w \in Nat, Windows(r, a, f, n, w)
    PROVE Windows(Alloc(r, p), a, f, n, w)
<1> DEFINE q == Alloc(r, p)
           h == r.head
<1>1. CASE ~CanAlloc(r)
  BY <1>1 DEF Alloc
<1>2. CASE CanAlloc(r)
  <2>1. /\ h \in Slots /\ ~Blocked(r.pkt[h])
        /\ q.pkt[h] = p /\ q.pkt[Idle] = r.pkt[Idle]
        /\ \A c \in Slots : c # h => q.pkt[c] = r.pkt[c]
        /\ \A c, d \in Slots : c # h /\ d # h => (Ahead(q, c, d) <=> Ahead(r, c, d))
    BY <1>2, AllocCells
  <2>2. q \in Ring
    BY AllocType
  <2>3. \A c \in Slots : ~Ahead(r, c, h)
    <3>1. Age(h, h) = 0
      BY <2>1 DEF Age, Slots
    <3>2. \A c \in Slots : Age(h, c) \in Nat
      BY <2>1, AgeFacts
    <3>3. QED BY <3>1, <3>2 DEF Ahead
  <2> HIDE DEF q, h
  <2>4. ~Stamped(p) /\ PktShaped(p)
    BY DEF OwnSys, Stamped, PktShaped, StampKinds, AppKinds
  <2>5. Stamps(q) = Stamps(r) \ {h}
    BY <2>1, <2>4 DEF Stamps
  <2>6. Shaped(q)
    BY <2>1, <2>4 DEF Windows, Shaped
  <2>7. Dropped(r, q)
    <3>1. ~Asking(r.pkt[h])
      BY <2>1 DEF Asking, Going, Blocked
    <3>2. \A c \in Stamps(r) : c \in Slots
      BY DEF Stamps
    <3>3. \A c \in Stamps(q) : c \in Slots /\ c # h /\ c \in Stamps(r)
      BY <2>5, <3>2
    <3>4. QED BY <2>1, <2>3, <2>5, <3>1, <3>3 DEF Dropped
  <2>8. q.pkt[a].st = "WAIT_ACK" => Again(q) = {}
    <3>1. SUFFICES ASSUME q.pkt[a].st = "WAIT_ACK" PROVE Again(q) = {}
      OBVIOUS
    <3>2. a # h
      BY <2>1, <3>1 DEF OwnSys
    <3>3. r.pkt[a] = q.pkt[a]
      BY <2>1, <3>2, CellFacts
    <3>4. Again(r) = {}
      BY <3>1, <3>3 DEF Windows, OneRound
    <3>5. \A c \in Again(q) : c \in Again(r)
      BY <2>1 DEF OwnSys, Again, InState
    <3>6. QED BY <3>4, <3>5
  <2>9. Windows(q, a, f, n, w)
    BY <2>2, <2>6, <2>7, <2>8, DroppedWindows
  <2>10. QED BY <2>9 DEF q
<1>3. QED BY <1>1, <1>2

\* Packets are freed that use no ITER, or that go without handshake.
LEMMA FreedWindows ==
    ASSUME NEW r \in Ring, NEW q \in Ring, NEW a \in Cells, NEW b \in Cells,
           NEW f \in [Slots -> Nat], NEW n \in Nat, NEW w \in Nat, Windows(r, a, f, n, w),
           q.head = r.head, q.pkt[Idle] = r.pkt[Idle],
           \A c \in Slots : \/ q.pkt[c] = r.pkt[c]
                            \/ q.pkt[c] = FreePkt /\ (c \notin Stamps(r) \/ ~r.pkt[c].hs),
           q.pkt[b].st = "WAIT_ACK" => Again(r) = {}
    PROVE Windows(q, b, f, n, w)
<1>1. ~Stamped(FreePkt) /\ PktShaped(FreePkt) /\ FreePkt.st # "QUEUED_AGAIN"
  BY DEF FreePkt, Stamped, PktShaped, StampKinds, AppKinds
<1>2. \A c \in Stamps(q) : c \in Slots /\ c \in Stamps(r) /\ q.pkt[c] = r.pkt[c]
  BY <1>1 DEF Stamps
<1>3. Shaped(q)
  BY <1>1 DEF Windows, Shaped
<1>4. \A d \in Stamps(r) \ Stamps(q) : ~Asking(r.pkt[d]) /\ ~r.pkt[d].hs
  <2> SUFFICES ASSUME NEW d \in Stamps(r) \ Stamps(q)
               PROVE ~Asking(r.pkt[d]) /\ ~r.pkt[d].hs
    OBVIOUS
  <2>1. d \in Slots /\ q.pkt[d] # r.pkt[d]
    BY DEF Stamps
  <2>2. ~r.pkt[d].hs
    BY <2>1
  <2>3. QED BY <2>1, <2>2 DEF Windows, Shaped, PktShaped, Asking
<1>5. Dropped(r, q)
  BY <1>2, <1>4 DEF Dropped, Ahead
<1>6. \A c \in Again(q) : c \in Again(r)
  BY <1>1 DEF Again, InState
<1>7. QED BY <1>3, <1>5, <1>6, DroppedWindows

\* NBFi_Config_Send_Sync, NBFi_Send_Clear_Cmd.
LEMMA SendSyncWindows ==
    ASSUME NEW r \in Ring, NEW i \in Iters, NEW a \in Cells,
           NEW f \in [Slots -> Nat], NEW n \in Nat, NEW w \in Nat, Windows(r, a, f, n, w)
    PROVE Windows(SendSync(r, i), a, f, n, w)
<1> DEFINE g == [c \in Cells |-> IF c \in SysQueued(r, "SYNC") THEN FreePkt ELSE r.pkt[c]]
           q == [r EXCEPT !.pkt = g]
           p == SysPkt("SYNC", "NEED_TO_SEND_RIGHT_NOW", i)
<1>1. g \in [Cells -> Packet]
  BY RingPkt, FreePktType
<1>2. q \in Ring /\ q.pkt = g /\ q.head = r.head
  <2> HIDE DEF g
  <2> QED BY <1>1, PktsType DEF Ring
<1>3. g[Idle] = r.pkt[Idle]
  BY CellFacts DEF SysQueued
<1>4. \A c \in Slots : \/ g[c] = r.pkt[c]
                       \/ g[c] = FreePkt /\ c \notin Stamps(r)
  <2>1. \A c \in SysQueued(r, "SYNC") : c \notin Stamps(r)
    BY DEF SysQueued, Stamps, Stamped, StampKinds, AppKinds
  <2>2. QED BY <2>1, CellFacts
<1>5. SendSync(r, i) = Alloc(q, p)
  BY DEF SendSync
<1>6. p \in Packet /\ OwnSys(p)
  <2>1. p \in Packet
    BY SysPktType DEF SysKinds, States
  <2>2. OwnSys(p)
    BY DEF OwnSys, SysPkt, FreePkt, StampKinds, AppKinds
  <2>3. QED BY <2>1, <2>2
<1>7. g[a].st = "WAIT_ACK" => Again(r) = {}
  <2>1. g[a] = r.pkt[a] \/ g[a] = FreePkt
    OBVIOUS
  <2> HIDE DEF g
  <2>2. QED BY <2>1 DEF Windows, OneRound, FreePkt
<1> HIDE DEF g, q, p
<1>8. Windows(q, a, f, n, w)
  BY <1>2, <1>3, <1>4, <1>7, FreedWindows
<1>9. QED BY <1>2, <1>5, <1>6, <1>8, OwnWindows

LEMMA SendClearWindows ==
    ASSUME NEW r \in Ring, NEW i \in Iters, NEW a \in Cells,
           NEW f \in [Slots -> Nat], NEW n \in Nat, NEW w \in Nat, Windows(r, a, f, n, w)
    PROVE Windows(SendClear(r, i), a, f, n, w)
<1> DEFINE p == SysPkt("CLEAR_EXT", "NEED_TO_SEND_RIGHT_NOW", i)
<1>1. p \in Packet
  BY SysPktType DEF SysKinds, States
<1>2. OwnSys(p)
  BY DEF OwnSys, SysPkt, FreePkt, StampKinds, AppKinds
<1> HIDE DEF p
<1>3. QED BY <1>1, <1>2, OwnWindows DEF SendClear, p

LEMMA AfterLossWindows ==
    ASSUME TypeOK, NEW r \in Ring, NEW policy, NEW a \in Cells,
           NEW f \in [Slots -> Nat], NEW n \in Nat, NEW w \in Nat, Windows(r, a, f, n, w)
    PROVE Windows(AfterLoss(r, policy), a, f, n, w)
BY SendSyncWindows DEF AfterLoss, TypeOK

-----------------------------------------------------------------------------
(***************************************************************************)
(* NBFi_Resend_Pkt, with what follows a loss.                              *)
(***************************************************************************)
LEMMA SameRing ==
    ASSUME NEW r \in Ring, NEW q \in Ring, q.head = r.head,
           \A c \in Cells : q.pkt[c] = r.pkt[c]
    PROVE q = r
BY DEF Ring

SyncFreed(r, i, c) == IF c \in SysQueued(r, "SYNC") THEN FreePkt ELSE r.pkt[c]

LEMMA SendSyncCells ==
    ASSUME NEW r \in Ring, NEW i
    PROVE LET q == SendSync(r, i)
              h == r.head
          IN  IF Blocked(SyncFreed(r, i, h))
              THEN q.head = h /\ \A c \in Cells : q.pkt[c] = SyncFreed(r, i, c)
              ELSE /\ q.head = (h + 1) % TxSize
                   /\ \A c \in Cells : q.pkt[c] =
                         IF c = h THEN SysPkt("SYNC", "NEED_TO_SEND_RIGHT_NOW", i)
                         ELSE SyncFreed(r, i, c)
<1> DEFINE g == [c \in Cells |-> IF c \in SysQueued(r, "SYNC") THEN FreePkt ELSE r.pkt[c]]
           q == [r EXCEPT !.pkt = g]
           p == SysPkt("SYNC", "NEED_TO_SEND_RIGHT_NOW", i)
           h == r.head
<1>1. g \in [Cells -> Packet]
  BY RingPkt, FreePktType
<1>2. q \in Ring /\ q.pkt = g /\ q.head = h
  <2> HIDE DEF g
  <2> QED BY <1>1, PktsType DEF Ring
<1>3. h \in Cells
  BY CellFacts DEF Ring
<1>4. \A c \in Cells : g[c] = SyncFreed(r, i, c)
  BY DEF SyncFreed
<1>5. SendSync(r, i) = Alloc(q, p)
  BY DEF SendSync
<1> HIDE DEF g, q, p
<1>6. CASE Blocked(g[h])
  BY <1>2, <1>3, <1>4, <1>5, <1>6 DEF Alloc, CanAlloc
<1>7. CASE ~Blocked(g[h])
  <2>1. Alloc(q, p) = [pkt |-> [q.pkt EXCEPT ![q.head] = p], head |-> (q.head + 1) % TxSize]
    BY <1>2, <1>7 DEF Alloc, CanAlloc
  <2>2. /\ Alloc(q, p).head = (h + 1) % TxSize
        /\ \A c \in Cells : Alloc(q, p).pkt[c] = IF c = h THEN p ELSE g[c]
    BY <1>1, <1>2, <1>3, <2>1
  <2>3. QED BY <1>3, <1>4, <1>5, <1>7, <2>2 DEF p
<1>8. QED BY <1>6, <1>7

\* What a packet that asks again looks like.
LEMMA AskAgainIs ==
    ASSUME NEW r \in Ring, NEW a \in Cells, NEW s \in Cells
    PROVE AskAgain(r, a, s) =
            SetPkt(r, s, [r.pkt[s] EXCEPT !.ack = TRUE,
                             !.mack = (r.pkt[a].mack
                                         - ((r.pkt[a].iter - r.pkt[s].iter) % IterMod)) % 64])
BY DEF AskAgain, SetPkt, Ring

\* A packet asks for the next ACK before or after the SYNC is queued.
LEMMA AskedSync ==
    ASSUME NEW t \in Ring, NEW i \in Iters, NEW a \in Slots, NEW s \in Slots,
           t.pkt[a].kind \in AppKinds, t.pkt[s].kind \in AppKinds,
           t.pkt[s].st = "QUEUED_AGAIN", Ahead(t, s, a)
    PROVE AskAgain(SendSync(t, i), a, s) = SendSync(AskAgain(t, a, s), i)
<1> DEFINE u == SendSync(t, i)
           x == (t.pkt[a].mack - ((t.pkt[a].iter - t.pkt[s].iter) % IterMod)) % 64
           y == [t.pkt[s] EXCEPT !.ack = TRUE, !.mack = x]
           v == AskAgain(t, a, s)
           h == t.head
           p == SysPkt("SYNC", "NEED_TO_SEND_RIGHT_NOW", i)
           e == AskAgain(u, a, s)
           z == SendSync(v, i)
<1>1. a \in Cells /\ s \in Cells /\ h \in Slots /\ h \in Cells
  BY CellFacts DEF Ring
<1>2. a # h
  <2>1. Age(h, h) = 0 /\ Age(h, s) \in Nat
    BY <1>1, AgeFacts DEF Age, Slots
  <2> HIDE DEF h
  <2>2. QED BY <2>1 DEF Ahead, h
<1>3. u \in Ring /\ v \in Ring
  BY <1>1, SendSyncType, AskAgainType
<1>4. e \in Ring /\ z \in Ring
  <2> HIDE DEF u, v
  <2> QED BY <1>1, <1>3, SendSyncType, AskAgainType
<1>5. v = SetPkt(t, s, y)
  BY <1>1, AskAgainIs
<1>6. y.st = t.pkt[s].st /\ y.kind = t.pkt[s].kind
  <2>1. t.pkt[s] \in Packet
    BY <1>1, RingPkt
  <2> HIDE DEF x
  <2>2. QED BY <2>1 DEF Packet
<1>7. v.head = h /\ \A c \in Cells : v.pkt[c] = IF c = s THEN y ELSE t.pkt[c]
  <2> HIDE DEF v, y
  <2> QED BY <1>1, <1>5 DEF SetPkt, Ring
<1>8. \A c \in Cells : c \in SysQueued(v, "SYNC") <=> c \in SysQueued(t, "SYNC")
  <2> HIDE DEF v, y
  <2> QED BY <1>1, <1>6, <1>7 DEF SysQueued, AppKinds, Blocked
<1>9. s \notin SysQueued(t, "SYNC") /\ a \notin SysQueued(t, "SYNC")
  BY DEF SysQueued, AppKinds
<1>10. \A c \in Cells : SyncFreed(v, i, c) = IF c = s THEN y ELSE SyncFreed(t, i, c)
  <2> HIDE DEF v, y
  <2> QED BY <1>7, <1>8, <1>9 DEF SyncFreed
<1>11. Blocked(SyncFreed(v, i, h)) <=> Blocked(SyncFreed(t, i, h))
  <2>1. SyncFreed(t, i, s) = t.pkt[s]
    BY <1>9 DEF SyncFreed
  <2> HIDE DEF y, v, h
  <2>2. QED BY <1>1, <1>6, <1>10, <2>1 DEF Blocked
<1>12. h = s => Blocked(SyncFreed(t, i, h))
  BY <1>9 DEF SyncFreed, Blocked
<1>13. u.pkt[a] = t.pkt[a] /\ u.pkt[s] = t.pkt[s]
  <2>1. SyncFreed(t, i, s) = t.pkt[s] /\ SyncFreed(t, i, a) = t.pkt[a]
    BY <1>9 DEF SyncFreed
  <2>2. \A c \in Cells : c = h \/ u.pkt[c] = SyncFreed(t, i, c)
    BY SendSyncCells
  <2>3. Blocked(SyncFreed(t, i, h)) => \A c \in Cells : u.pkt[c] = SyncFreed(t, i, c)
    BY SendSyncCells
  <2> HIDE DEF u, h
  <2>4. QED BY <1>1, <1>2, <1>12, <2>1, <2>2, <2>3
<1>14. e = SetPkt(u, s, y)
  <2> DEFINE xu == (u.pkt[a].mack - ((u.pkt[a].iter - u.pkt[s].iter) % IterMod)) % 64
  <2>1. e = SetPkt(u, s, [u.pkt[s] EXCEPT !.ack = TRUE, !.mack = xu])
    <3> HIDE DEF u
    <3>1. u \in Ring /\ a \in Cells /\ s \in Cells
      BY <1>1, <1>3
    <3>2. QED BY <3>1, AskAgainIs, Zenon
  <2>2. xu = x
    BY <1>13
  <2> HIDE DEF e, u, xu, x
  <2>3. QED BY <1>13, <2>1, <2>2
<1>15. e.head = u.head /\ \A c \in Cells : e.pkt[c] = IF c = s THEN y ELSE u.pkt[c]
  <2> HIDE DEF e, y, u
  <2> QED BY <1>1, <1>3, <1>14 DEF SetPkt, Ring
<1>16. CASE Blocked(SyncFreed(t, i, h))
  <2>1. u.head = h /\ \A c \in Cells : u.pkt[c] = SyncFreed(t, i, c)
    BY <1>16, SendSyncCells
  <2>2. z.head = h /\ \A c \in Cells : z.pkt[c] = SyncFreed(v, i, c)
    <3> HIDE DEF v, z, h
    <3>1. Blocked(SyncFreed(v, i, v.head))
      BY <1>7, <1>11, <1>16
    <3>2. QED BY <1>3, <1>7, <3>1, SendSyncCells DEF z
  <2> HIDE DEF e, y, u, z, v, h
  <2>3. e.head = z.head /\ \A c \in Cells : e.pkt[c] = z.pkt[c]
    BY <1>10, <1>15, <2>1, <2>2
  <2>4. e = z
    BY <1>4, <2>3, SameRing
  <2>5. QED BY <2>4 DEF e, z, u, v
<1>17. CASE ~Blocked(SyncFreed(t, i, h))
  <2>1. /\ u.head = (h + 1) % TxSize
        /\ \A c \in Cells : u.pkt[c] = IF c = h THEN p ELSE SyncFreed(t, i, c)
    BY <1>17, SendSyncCells
  <2>2. /\ z.head = (h + 1) % TxSize
        /\ \A c \in Cells : z.pkt[c] = IF c = h THEN p ELSE SyncFreed(v, i, c)
    <3> HIDE DEF v, z, h, p
    <3>1. ~Blocked(SyncFreed(v, i, v.head))
      BY <1>7, <1>11, <1>17
    <3>2. QED BY <1>3, <1>7, <3>1, SendSyncCells DEF z, p
  <2> HIDE DEF e, y, u, z, v, h, p
  <2>3. e.head = z.head /\ \A c \in Cells : e.pkt[c] = z.pkt[c]
    BY <1>10, <1>12, <1>15, <1>17, <2>1, <2>2
  <2>4. e = z
    BY <1>4, <2>3, SameRing
  <2>5. QED BY <2>4 DEF e, z, u, v
<1>18. QED BY <1>16, <1>17

LEMMA AskedSame ==
    ASSUME NEW t \in Ring, NEW a \in Cells, NEW s \in Cells
    PROVE /\ t.pkt[s].kind = AskAgain(t, a, s).pkt[s].kind
          /\ t.pkt[s].st = AskAgain(t, a, s).pkt[s].st
<1> DEFINE x == (t.pkt[a].mack - ((t.pkt[a].iter - t.pkt[s].iter) % IterMod)) % 64
           y == [t.pkt[s] EXCEPT !.ack = TRUE, !.mack = x]
<1>1. AskAgain(t, a, s) = SetPkt(t, s, y)
  BY DEF AskAgain, SetPkt, Ring
<1>2. y.st = t.pkt[s].st /\ y.kind = t.pkt[s].kind
  <2>1. t.pkt[s] \in Packet
    BY RingPkt
  <2> HIDE DEF x
  <2>2. QED BY <2>1 DEF Packet
<1> HIDE DEF y
<1>3. SetPkt(t, s, y).pkt[s] = y
  BY DEF SetPkt, Ring
<1>4. QED BY <1>1, <1>2, <1>3

LEMMA ResendWindows ==
    ASSUME TypeOK, NEW r \in Ring, NEW f \in [Slots -> Nat], NEW n \in Nat, NEW w \in Nat,
           NEW has, NEW policy, Windows(r, active, f, n, w), OneWaits(r, active),
           r.pkt[active].st = "WAIT_ACK", r.pkt[active].iter \in has, IterMod <= 64
    PROVE Windows(Resend(r, active, has, policy).ring, active, f, n, w)
<1> DEFINE a == active
           t == Closed(r, a, has)
           r1 == IF GivenUp(r, a, has) = {} THEN Marked(r, a, has)
                 ELSE AfterLoss(CloseActive(Marked(r, a, has), a), policy)
           u1 == GaveUpStatus(r, a, has, ul)
           k0 == FirstAbsent(r, a, has)
           s  == At(r, a, k0)
           r2 == IF LeftOver(r, a, has) = {} THEN SendClear(r1, r1.pkt[a].iter) ELSE r1
           q  == Resend(r, a, has, policy).ring
<1>1. a \in Slots /\ a \in Cells /\ ulIter \in Iters
  BY CellFacts DEF TypeOK, Windows, Shaped
<1>2. t \in Ring
  BY <1>1, ClosedType
<1>3. r1 = t \/ r1 = AfterLoss(t, policy)
  BY DEF Closed
<1>4. r1 \in Ring
  <2> HIDE DEF t, r1
  <2>1. AfterLoss(t, policy) \in Ring
    BY <1>1, <1>2, AfterLossType
  <2>2. QED BY <1>2, <1>3, <2>1
<1>5. q = IF k0 # None THEN AskAgain(r1, a, s) ELSE r2
  BY DEF Resend
<1>6. ASSUME Windows(r1, a, f, n, w) PROVE Windows(r2, a, f, n, w)
  <2>1. r1.pkt[a].iter \in Iters
    <3> HIDE DEF r1
    <3>1. r1.pkt[a] \in Packet
      BY <1>1, <1>4, RingPkt
    <3>2. QED BY <3>1 DEF Packet
  <2> HIDE DEF r1
  <2>2. Windows(SendClear(r1, r1.pkt[a].iter), a, f, n, w)
    BY <1>1, <1>4, <1>6, <2>1, SendClearWindows
  <2>3. QED BY <1>6, <2>2
<1> HIDE DEF q, r2
<1>7. CASE r.pkt[a].kind \in AppKinds
  <2>1. Waiting(r, a, f, n, w)
    BY <1>7 DEF Waiting
  <2>2. CASE k0 = None
    <3>1. Absent(r, a, has) = {}
      BY <1>1, <2>2, FirstAbsentFacts
    <3>2. Windows(t, a, f, n, w)
      BY <1>1, <2>1, <3>1, ClosedWindows
    <3> HIDE DEF t, r1
    <3>3. Windows(AfterLoss(t, policy), a, f, n, w)
      BY <1>1, <1>2, <3>2, AfterLossWindows
    <3>4. Windows(r1, a, f, n, w)
      BY <1>3, <3>2, <3>3
    <3>5. QED BY <1>5, <1>6, <2>2, <3>4 DEF q
  <2>3. CASE k0 # None
    <3>1. k0 \in Absent(r, a, has) /\ \A j \in Absent(r, a, has) : k0 <= j
      BY <1>1, <2>3, FirstAbsentFacts
    <3> DEFINE v == AskAgain(t, a, s)
    <3>2. /\ s \in Stamps(r) /\ s # a /\ Ahead(r, s, a)
          /\ v \in Ring /\ Windows(v, a, f, n, w)
          /\ v.pkt[s].st = "QUEUED_AGAIN" /\ v.pkt[s].kind \in AppKinds
      <4> HIDE DEF k0
      <4> QED BY <1>1, <2>1, <3>1, AskedAgainWindows
    <3>3. CASE r1 = t
      BY <1>5, <2>3, <3>2, <3>3 DEF q
    <3>4. CASE r1 = AfterLoss(t, policy) /\ r1 # t
      <4>1. r1 = SendSync(t, ulIter)
        BY <3>4 DEF AfterLoss
      <4>2. s \in Slots /\ t.head = r.head
        BY <1>1, <3>2, ClosedType DEF Stamps
      <4>3. t.pkt[s].kind = v.pkt[s].kind /\ t.pkt[s].st = v.pkt[s].st
        <5>1. s \in Cells
          BY <4>2, CellFacts
        <5> HIDE DEF t, s
        <5>2. QED BY <1>1, <1>2, <5>1, AskedSame
      <4>4. t.pkt[a].kind \in AppKinds
        <5>1. Restated(r, t)
          BY <1>1, <2>1, ClosedShape
        <5>2. a \in Stamps(r)
          BY <1>1, <2>1, WaitingFacts
        <5> HIDE DEF t
        <5>3. QED BY <1>7, <5>1, <5>2 DEF Restated
      <4>5. Ahead(t, s, a)
        BY <3>2, <4>2 DEF Ahead
      <4> HIDE DEF t, s, r1
      <4>6. AskAgain(SendSync(t, ulIter), a, s) = SendSync(AskAgain(t, a, s), ulIter)
        BY <1>1, <1>2, <3>2, <4>2, <4>3, <4>4, <4>5, AskedSync
      <4> HIDE DEF v
      <4>7. Windows(SendSync(v, ulIter), a, f, n, w)
        BY <1>1, <3>2, SendSyncWindows
      <4>8. QED BY <1>5, <2>3, <4>1, <4>6, <4>7 DEF q, v
    <3>5. QED BY <1>3, <3>3, <3>4
  <2>4. QED BY <2>2, <2>3
<1>8. CASE r.pkt[a].kind \notin AppKinds
  <2>1. r.pkt[a].mack = 0
    <3>1. PktShaped(r.pkt[a]) /\ r.pkt[a].st = "WAIT_ACK"
      BY <1>1 DEF Windows, Shaped
    <3>2. QED BY <1>8, <3>1 DEF PktShaped, StampKinds
  <2>2. AckWindow(r, a) = {}
    BY <2>1 DEF AckWindow
  <2>3. Stops(r, a, has) = {} /\ Walked(r, a, has) = {}
    BY <2>2 DEF Stops, Walked
  <2>4. GivenUp(r, a, has) = {} /\ Absent(r, a, has) = {}
    BY <2>3 DEF GivenUp, Absent
  <2>5. \A c \in Cells : Marked(r, a, has).pkt[c] = r.pkt[c]
    BY <2>3, <2>4 DEF Marked, Ring
  <2>6. Marked(r, a, has) \in Ring /\ Marked(r, a, has).head = r.head
    <3>1. t = Marked(r, a, has)
      BY <2>4 DEF Closed
    <3>2. t.head = r.head
      BY <1>1, ClosedType
    <3>3. QED BY <1>2, <3>1, <3>2
  <2>7. Marked(r, a, has) = r
    <3> DEFINE m == Marked(r, a, has)
    <3>1. m \in Ring /\ m.head = r.head /\ \A c \in Cells : m.pkt[c] = r.pkt[c]
      BY <2>5, <2>6
    <3> HIDE DEF m
    <3>2. m = r
      BY <3>1, SameRing
    <3>3. QED BY <3>2 DEF m
  <2>8. r1 = r
    BY <2>4, <2>7
  <2>9. k0 = None
    BY <1>1, <2>4, FirstAbsentFacts
  <2> HIDE DEF r1, k0
  <2>10. Windows(r1, a, f, n, w)
    BY <2>8
  <2>11. QED BY <1>5, <1>6, <2>9, <2>10 DEF q
<1>9. QED BY <1>7, <1>8

-----------------------------------------------------------------------------
(***************************************************************************)
(* NBFi_Receive_Timeout_cb, and the other ways to end the wait.            *)
(***************************************************************************)
LEMMA EndedWindows ==
    ASSUME NEW r \in Ring, NEW q \in Ring, NEW a \in Slots, NEW f \in [Slots -> Nat],
           NEW n \in Nat, NEW w \in Nat, Windows(r, a, f, n, w), OneWaits(r, a),
           r.pkt[a].st = "WAIT_ACK", q.head = r.head,
           \A c \in Cells :
              \/ q.pkt[c] = r.pkt[c] /\ c # a /\ r.pkt[c].st # "SENT_NOACKED"
              \/ /\ Twin(r.pkt[c], q.pkt[c]) /\ q.pkt[c].st \in {"DELIVERED", "LOST"}
                 /\ c \in Slots /\ r.pkt[c].st \in {"WAIT_ACK", "SENT_NOACKED"}
    PROVE Windows(q, a, f, n, w)
<1>1. ASSUME NEW c \in Slots
      PROVE /\ PktShaped(q.pkt[c])
            /\ Twin(r.pkt[c], q.pkt[c])
            /\ Stamped(q.pkt[c]) <=> Stamped(r.pkt[c])
            /\ IF r.pkt[c].st \in {"WAIT_ACK", "SENT_NOACKED"}
               THEN q.pkt[c].st \in {"DELIVERED", "LOST"} ELSE q.pkt[c] = r.pkt[c]
  <2>1. PktShaped(r.pkt[c]) /\ c \in Cells
    BY CellFacts DEF Windows, Shaped
  <2>2. CASE q.pkt[c] = r.pkt[c] /\ c # a /\ r.pkt[c].st # "SENT_NOACKED"
    BY <2>1, <2>2 DEF Twin, OneWaits
  <2>3. CASE /\ Twin(r.pkt[c], q.pkt[c]) /\ q.pkt[c].st \in {"DELIVERED", "LOST"}
             /\ r.pkt[c].st \in {"WAIT_ACK", "SENT_NOACKED"}
    <3>1. r.pkt[c].hs /\ r.pkt[c].st \in OnAir
      BY <2>1, <2>3 DEF PktShaped, OnAir
    <3>2. PktShaped(q.pkt[c])
      BY <2>1, <2>3, <3>1, TwinShaped
    <3>3. Stamped(q.pkt[c]) <=> Stamped(r.pkt[c])
      BY <2>3 DEF Stamped, Twin
    <3>4. QED BY <2>3, <3>2, <3>3
  <2>4. QED BY <2>1, <2>2, <2>3
<1>2. q.pkt[Idle] = r.pkt[Idle] /\ Stamps(q) = Stamps(r)
  BY <1>1, CellFacts DEF Stamps
<1>3. Shaped(q)
  BY <1>1, <1>2 DEF Windows, Shaped
<1>4. \A c \in Stamps(r) : c \in Slots
  BY DEF Stamps
<1>5. Restated(r, q)
  BY <1>1, <1>2, <1>4 DEF Restated, Twin, Ahead
<1>6. \A c \in Stamps(r) : IF r.pkt[c].st = "QUEUED" THEN q.pkt[c].st = "QUEUED"
                           ELSE q.pkt[c].st \in {"DELIVERED", "LOST"}
  <2> SUFFICES ASSUME NEW c \in Stamps(r)
               PROVE IF r.pkt[c].st = "QUEUED" THEN q.pkt[c].st = "QUEUED"
                     ELSE q.pkt[c].st \in {"DELIVERED", "LOST"}
    OBVIOUS
  <2>1. CASE r.pkt[c].st \in {"WAIT_ACK", "SENT_NOACKED"}
    BY <1>1, <1>4, <2>1
  <2>2. CASE r.pkt[c].st \notin {"WAIT_ACK", "SENT_NOACKED"}
    <3>1. q.pkt[c] = r.pkt[c] /\ PktShaped(r.pkt[c]) /\ r.pkt[c].st \in States
      BY <1>1, <1>4, <2>2, StampFacts DEF Windows, Shaped
    <3>2. Again(r) = {}
      BY DEF Windows, OneRound
    <3>3. r.pkt[c].st # "QUEUED_AGAIN"
      BY <1>4, <3>2 DEF Again, InState
    <3>4. r.pkt[c].st \in {"QUEUED", "DELIVERED", "LOST"}
      BY <2>2, <3>1, <3>3 DEF PktShaped, States, Stamps, Stamped
    <3>5. QED BY <3>1, <3>4
  <2>3. QED BY <2>1, <2>2
<1>7. \A c \in Stamps(r) : q.pkt[c].ack <=> r.pkt[c].ack
  BY <1>1, <1>4 DEF Twin
<1>8. \A c \in Stamps(r) : q.pkt[c].mack = r.pkt[c].mack
  BY <1>1, <1>4 DEF Twin
<1>9. QED BY <1>3, <1>5, <1>6, <1>7, <1>8, DoneWindows, CellFacts

LEMMA BoundedWaits ==
    ASSUME NEW r, NEW a, RingBounded(r, a) PROVE OneWaits(r, a)
BY CellFacts DEF RingBounded, PktBounded, OneWaits

LEMMA TimeoutWindows ==
    ASSUME NoDownlinks, BoundedInv, ReceiveTimeout, NEW f \in [Slots -> Nat],
           NEW n \in Nat, NEW w \in Nat, Windows(ring, active, f, n, w)
    PROVE Windows(ring', active, f, n, w)
<1> DEFINE a  == active
           p  == ring.pkt[a]
           p1 == [p EXCEPT !.retry = p.retry + 1]
           R  == [ring EXCEPT !.pkt[a].retry = @ + 1]
<1>1. a \in Cells /\ ring \in Ring /\ OneWaits(ring, a) /\ p \in Packet /\ p.retry \in Nat
  <2>1. p \in Packet
    BY RingPkt DEF BoundedInv, TypeOK
  <2>2. QED BY <2>1, BoundedWaits DEF BoundedInv, TypeOK, Packet
<1>2. CASE p.st # "WAIT_ACK"
  BY <1>2 DEF ReceiveTimeout
<1>3. ASSUME p.st = "WAIT_ACK" PROVE a \in Slots /\ PktShaped(p) /\ p.hs
  BY <1>1, <1>3, CellFacts DEF Windows, Shaped, PktShaped
<1>4. R = SetPkt(ring, a, p1) /\ R \in Ring /\ p1 \in Packet
  <2>1. p1 \in Packet
    <3> HIDE DEF p
    <3> QED BY <1>1, PktRetryType
  <2>2. R = SetPkt(ring, a, p1)
    BY <1>1 DEF SetPkt, Ring
  <2> HIDE DEF R, p1
  <2>3. QED BY <1>1, <2>1, <2>2, SetPktType
<1>5. Twin(p, p1) /\ p1.st = p.st
  BY <1>1 DEF Twin, Packet
<1>6. ASSUME p.st = "WAIT_ACK", TimeoutRetry PROVE Windows(ring', a, f, n, w)
  <2> DEFINE p2 == [p1 EXCEPT !.st = "QUEUED_AGAIN"]
  <2>1. ring' = SetPkt(ring, a, p2)
    BY <1>1, <1>6 DEF TimeoutRetry, SetPkt, Ring, Packet
  <2>2. p2.st = "QUEUED_AGAIN" /\ Twin(p1, p2) /\ p2 \in Packet
    <3> HIDE DEF p1, p
    <3>1. p2 \in Packet
      BY <1>4, PktStType DEF States
    <3>2. QED BY <1>4, <3>1 DEF Twin, Packet
  <2>3. a \in Slots /\ PktShaped(p) /\ p.hs
    BY <1>3, <1>6
  <2>4. Twin(p, p2)
    <3> HIDE DEF p1, p2
    <3> QED BY <1>5, <2>2 DEF Twin
  <2>5. PktShaped(p2)
    <3> HIDE DEF p1, p2, p
    <3> QED BY <1>6, <2>2, <2>3, <2>4, TwinShaped DEF OnAir
  <2> HIDE DEF p2, p1, R
  <2>6. ring' \in Ring /\ ring'.head = ring.head
        /\ \A c \in Cells : ring'.pkt[c] = IF c = a THEN p2 ELSE ring.pkt[c]
    BY <1>1, <2>1, <2>2, SetPktType DEF SetPkt, Ring
  <2>7. \A c \in Slots : Twin(ring.pkt[c], ring'.pkt[c])
    BY <2>4, <2>6, CellFacts DEF Twin
  <2>8. Shaped(ring')
    BY <2>3, <2>5, <2>6, CellFacts DEF Windows, Shaped
  <2>9. Restated(ring, ring')
    <3>1. \A c \in Slots : Stamped(ring.pkt[c]) <=> Stamped(ring'.pkt[c])
      <4>1. Stamped(p2) <=> Stamped(p)
        BY <1>6, <2>2, <2>4 DEF Stamped, Twin
      <4>2. QED BY <2>6, <4>1, CellFacts
    <3>2. Stamps(ring') = Stamps(ring) /\ Stamps(ring) \subseteq Slots
      BY <3>1 DEF Stamps
    <3>3. QED BY <2>6, <2>7, <3>2 DEF Restated, Twin, Ahead
  <2>10. \A c \in Stamps(ring) : ring'.pkt[c].ack <=> ring.pkt[c].ack
    BY <2>7 DEF Twin, Stamps
  <2>11. \A c \in Stamps(ring) : ring'.pkt[c].mack = ring.pkt[c].mack
    BY <2>7 DEF Twin, Stamps
  <2>12. \A c \in Stamps(ring) : ring'.pkt[c].st = IF c = a THEN "QUEUED_AGAIN"
                                                   ELSE ring.pkt[c].st
    BY <2>2, <2>6, CellFacts DEF Stamps
  <2>13. QED BY <1>1, <1>6, <2>3, <2>6, <2>8, <2>9, <2>10, <2>11, <2>12, RetryWindows
<1>7. ASSUME p.st = "WAIT_ACK", NEW policy \in LossPolicies, TimeoutLost(policy)
      PROVE Windows(ring', a, f, n, w)
  <2> DEFINE t == CloseActive(R, a)
  <2>1. ring' = AfterLoss(t, policy)
    BY <1>7 DEF TimeoutLost, NoDownlinks
  <2>2. a \in Slots
    BY <1>3, <1>7
  <2> HIDE DEF R, p1
  <2>3. /\ t \in Ring /\ t.head = R.head
        /\ \A c \in Cells : t.pkt[c] =
              IF c = a \/ (c \in Slots /\ R.pkt[c].st = "SENT_NOACKED")
              THEN [R.pkt[c] EXCEPT !.st = "LOST"] ELSE R.pkt[c]
    BY <1>1, <1>4, CloseActiveType, CloseActiveShape
  <2>4. R.head = ring.head /\ \A c \in Cells : R.pkt[c] = IF c = a THEN p1 ELSE ring.pkt[c]
    BY <1>1, <1>4 DEF SetPkt, Ring
  <2>5. ASSUME NEW c \in Cells
        PROVE \/ t.pkt[c] = ring.pkt[c] /\ c # a /\ ring.pkt[c].st # "SENT_NOACKED"
              \/ /\ Twin(ring.pkt[c], t.pkt[c]) /\ t.pkt[c].st \in {"DELIVERED", "LOST"}
                 /\ c \in Slots /\ ring.pkt[c].st \in {"WAIT_ACK", "SENT_NOACKED"}
    <3> DEFINE e == R.pkt[c]
               d == [e EXCEPT !.st = "LOST"]
    <3>1. e \in Packet
      BY <1>4, RingPkt
    <3>2. d.st = "LOST" /\ Twin(e, d)
      <4> HIDE DEF e
      <4> QED BY <3>1 DEF Packet, Twin
    <3>3. Twin(ring.pkt[c], e) /\ e.st = ring.pkt[c].st
      BY <1>5, <2>4 DEF Twin
    <3>4. t.pkt[c] = IF c = a \/ (c \in Slots /\ e.st = "SENT_NOACKED") THEN d ELSE e
      BY <2>3
    <3>5. c # a => e = ring.pkt[c]
      BY <2>4
    <3>6. ring.pkt[Idle].st = "FREE"
      BY DEF Windows, Shaped
    <3>7. Twin(ring.pkt[c], d)
      <4> HIDE DEF d, e
      <4> QED BY <3>2, <3>3 DEF Twin
    <3> HIDE DEF d, e, t
    <3>8. CASE c = a \/ (c \in Slots /\ e.st = "SENT_NOACKED")
      BY <1>7, <2>2, <3>2, <3>3, <3>4, <3>7, <3>8
    <3>9. CASE ~(c = a \/ (c \in Slots /\ e.st = "SENT_NOACKED"))
      BY <3>3, <3>4, <3>5, <3>6, <3>9, CellFacts
    <3>10. QED BY <3>8, <3>9
  <2> HIDE DEF t
  <2>6. Windows(t, a, f, n, w)
    BY <1>1, <1>7, <2>2, <2>3, <2>4, <2>5, EndedWindows
  <2>7. TypeOK
    BY DEF BoundedInv
  <2>8. QED BY <1>1, <2>1, <2>3, <2>6, <2>7, AfterLossWindows
<1>8. QED BY <1>2, <1>6, <1>7 DEF ReceiveTimeout

LEMMA RxAckWindows ==
    ASSUME BoundedInv, IterMod <= 64, RxAck, NEW f \in [Slots -> Nat],
           NEW n \in Nat, NEW w \in Nat, Windows(ring, active, f, n, w)
    PROVE Windows(ring', active, f, n, w)
<1> DEFINE a == active
<1>1. /\ a \in Cells /\ ring \in Ring /\ RingBounded(ring, a) /\ OneWaits(ring, a) /\ TypeOK
      /\ Restored(ring) = ring
  BY RestoredIs, BoundedWaits DEF BoundedInv, TypeOK
<1>2. CASE AckAccepted(ring, station.reply)
  <2>1. PICK policy \in LossPolicies :
          ring' = LookAtQueue(TakeAck(ring, station.reply, policy).ring, a)
    BY <1>1, <1>2 DEF RxAck
  <2> DEFINE t == TakeAck(ring, station.reply, policy).ring
             p == ring.pkt[a]
  <2>2. t \in Ring
    BY <1>1, TakeAckType
  <2>3. p.st = "WAIT_ACK" /\ p.iter = station.reply.iter
    BY <1>2 DEF AckAccepted
  <2>4. a \in Slots
    BY <1>1, <2>3, CellFacts DEF Windows, Shaped
  <2>5. CASE station.reply.type = "ACK" /\ p.mack # 0
    <3>1. p.iter \in station.reply.has
      BY <2>3, <2>5 DEF BoundedInv, ReplyHolds
    <3>2. t = Resend(ring, a, station.reply.has, policy).ring
      BY <2>5 DEF TakeAck
    <3>3. Windows(t, a, f, n, w)
      BY <1>1, <2>3, <3>1, <3>2, ResendWindows
    <3>4. RingBounded(t, a)
      BY <1>1, <3>1, <3>2, ResendBounded
    <3> HIDE DEF t
    <3>5. ring' = t
      BY <1>1, <2>1, <2>2, <3>4, SweepBounded DEF t
    <3>6. QED BY <3>3, <3>5
  <2>6. CASE p.mack = 0
    <3> DEFINE z == TakeAck(ring, station.reply, policy)
    <3> HIDE DEF z, p
    <3>1. PICK d \in Packet, r1 \in Ring :
            /\ AsDelivered(d, p)
            /\ r1 = SetPkt(ring, a, d) /\ r1.head = ring.head
            /\ \A c \in Cells : r1.pkt[c] = IF c = a THEN d ELSE ring.pkt[c]
            /\ z.ring = r1 \/ z.ring = SendClear(r1, d.iter)
      BY <1>1, <2>6, TakeAckEmpty DEF z, p
    <3>2. RingBounded(r1, a) /\ RingBounded(z.ring, a)
      <4>1. PktBounded(p, a = a)
        BY <1>1 DEF RingBounded, p
      <4>2. PktBounded(d, a = a)
        BY <3>1, <4>1 DEF PktBounded, AsDelivered
      <4>3. RingBounded(r1, a)
        BY <1>1, <3>1, <4>2, BoundedSet
      <4>4. QED BY <3>1, <4>3, SendClearBounded
    <3>3. ring' = z.ring
      BY <1>1, <2>1, <2>2, <3>2, SweepBounded DEF z
    <3>4. d.st = "DELIVERED" /\ Twin(p, d)
      BY <3>1 DEF Twin, AsDelivered
    <3>5. \A c \in Cells : ring.pkt[c].st # "SENT_NOACKED"
      <4>1. SUFFICES ASSUME NEW c \in Cells, ring.pkt[c].st = "SENT_NOACKED" PROVE FALSE
        OBVIOUS
      <4>2. c \in Slots
        BY <4>1, CellFacts DEF Windows, Shaped
      <4>3. p.kind \in AppKinds
        BY <1>1, <2>3, <2>4, <4>1, <4>2, InFlight DEF p
      <4>4. PktShaped(p)
        BY <2>4 DEF Windows, Shaped, p
      <4>5. QED BY <2>3, <2>6, <4>3, <4>4 DEF PktShaped
    <3>6. Windows(r1, a, f, n, w)
      BY <1>1, <2>3, <2>4, <3>1, <3>4, <3>5, EndedWindows DEF p
    <3>7. d.iter \in Iters
      BY <3>1 DEF Packet
    <3>8. QED BY <1>1, <3>1, <3>3, <3>6, <3>7, SendClearWindows
  <2>7. CASE station.reply.type # "ACK" /\ p.mack # 0
    <3>1. t = ring
      BY <2>7 DEF TakeAck
    <3>2. ring' = ring
      BY <1>1, <2>1, <3>1, SweepBounded
    <3>3. QED BY <3>2
  <2>8. QED BY <2>5, <2>6, <2>7
<1>3. CASE ~AckAccepted(ring, station.reply)
  <2>1. ring' = LookAtQueue(ring, a)
    BY <1>1, <1>3 DEF RxAck
  <2>2. ring' = ring
    BY <1>1, <2>1, SweepBounded
  <2>3. QED BY <2>2
<1>4. QED BY <1>2, <1>3

-----------------------------------------------------------------------------
(***************************************************************************)
(* NBFi_ProcessTasks hands a packet to the MAC.                            *)
(***************************************************************************)
LEMMA SendNextIs ==
    ASSUME BoundedInv, TypeOK', Mode = "CRX", SendNext
    PROVE \E s \in Slots :
            /\ s = Queued(ring, active) /\ ring.pkt[active].st # "WAIT_ACK"
            /\ ring.pkt[s].st \in {"QUEUED", "QUEUED_AGAIN", "NEED_TO_SEND_RIGHT_NOW"}
            /\ ring'.head = ring.head
            /\ \A c \in Cells : c # s => ring'.pkt[c] = ring.pkt[c]
            /\ IF ring.pkt[s].hs
               THEN /\ active' = s /\ Twin(ring.pkt[s], ring'.pkt[s])
                    /\ ring'.pkt[s].st = IF ring.pkt[s].ack THEN "WAIT_ACK" ELSE "SENT_NOACKED"
               ELSE active' = Idle /\ ring'.pkt[s] = FreePkt
<1> DEFINE s  == Queued(ring, active)
           p  == ring.pkt[s]
           st == StateOnAir(p)
           r1 == SetPkt(ring, s, AfterAir(p))
           r2 == IF ~p.ack /\ IsSystem(p) THEN Sweep(r1, s) ELSE r1
           more == Queued(r1, s) # None
           e  == AfterAir(p)
           d  == ring'.pkt[s]
<1>1. /\ ring \in Ring /\ active \in Cells /\ RingBounded(ring, active)
      /\ ring.pkt[active].st # "WAIT_ACK" /\ s \in Slots /\ s \in Cells
  BY QueuedIn, CellFacts DEF BoundedInv, TypeOK, SendNext
<1>2. Sweep(ring, active) = ring
  BY <1>1, SweepBounded
<1>3. Transmit(ring, s)
  BY <1>2 DEF SendNext
<1>4. p \in Packet /\ p.st \in {"QUEUED", "QUEUED_AGAIN", "NEED_TO_SEND_RIGHT_NOW"}
  BY <1>1, RingPkt, QueuedBounded
<1>5. AckMode(mode)
  BY DEF SendNext, BoundedInv, TypeOK, AckMode
<1>6. RingBounded(ring, s)
  BY <1>1, BoundedMoved
<1>7. PktBounded(e, TRUE) /\ e \in Packet
  <2>1. PktBounded(p, FALSE)
    <3>1. PktBounded(p, s = s)
      BY <1>1, <1>6 DEF RingBounded
    <3> HIDE DEF p
    <3>2. QED BY <1>4, <3>1 DEF PktBounded
  <2> HIDE DEF p
  <2>2. QED BY <1>4, <2>1, AfterAirBounded, AfterAirType
<1>8. r1 \in Ring /\ RingBounded(r1, s)
  <2>1. PktBounded(e, s = s)
    BY <1>7
  <2> HIDE DEF e, p, s
  <2>2. SetPkt(ring, s, e) \in Ring /\ RingBounded(SetPkt(ring, s, e), s)
    BY <1>1, <1>6, <1>7, <2>1, SetPktType, BoundedSet
  <2>3. QED BY <2>2 DEF e
<1>9. r2 = r1
  <2> HIDE DEF r1, p, s
  <2> QED BY <1>1, <1>8, SweepBounded
<1>10. r1.head = ring.head /\ \A c \in Cells : r1.pkt[c] = IF c = s THEN e ELSE ring.pkt[c]
  <2> HIDE DEF e, p, s
  <2>1. LET q == SetPkt(ring, s, e)
        IN  q.head = ring.head /\ \A c \in Cells : q.pkt[c] = IF c = s THEN e ELSE ring.pkt[c]
    BY <1>1 DEF SetPkt, Ring
  <2>2. QED BY <2>1 DEF e
<1>11. \/ ring' = r1
       \/ st # "SENT" /\ ring' = [r1 EXCEPT !.pkt[s].multi = more]
  <2>1. ring' = IF (~p.ack /\ IsSystem(p)) /\ st # "SENT"
                THEN [r2 EXCEPT !.pkt[s].multi = more] ELSE r2
    BY <1>3 DEF Transmit
  <2> HIDE DEF p, s, r1, r2, more, st
  <2>2. QED BY <1>9, <2>1
<1>12. /\ ring'.head = ring.head
       /\ \A c \in Cells : c # s => ring'.pkt[c] = ring.pkt[c]
       /\ d = e \/ (st # "SENT" /\ d = [e EXCEPT !.multi = more])
  <2> HIDE DEF r1, s, more, st, e
  <2>1. CASE ring' = r1
    BY <1>1, <1>10, <2>1
  <2>2. CASE st # "SENT" /\ ring' = [r1 EXCEPT !.pkt[s].multi = more]
    <3>1. /\ ring'.head = r1.head /\ \A c \in Cells : c # s => ring'.pkt[c] = r1.pkt[c]
          /\ ring'.pkt[s] = [r1.pkt[s] EXCEPT !.multi = more]
      BY <1>1, <1>8, <2>2 DEF Ring
    <3>2. QED BY <1>1, <1>10, <2>2, <3>1
  <2>3. QED BY <1>11, <2>1, <2>2
<1>13. active' = IF st = "SENT" THEN Idle ELSE s
  BY <1>3 DEF Transmit
<1>14. CASE p.hs
  <2>1. st = IF p.ack THEN "WAIT_ACK" ELSE "SENT_NOACKED"
    BY <1>5, <1>14 DEF StateOnAir
  <2>2. st # "SENT"
    BY <2>1
  <2>3. e = [p EXCEPT !.st = StateOnAir(p), !.sent = Bump(p.sent)]
    BY <2>2 DEF AfterAir
  <2>4. e.st = st /\ Twin(p, e)
    <3> HIDE DEF p, e
    <3>1. e.st = StateOnAir(p) /\ Twin(p, e)
      BY <1>4, <2>3 DEF Twin, Packet
    <3>2. QED BY <3>1
  <2>5. d.st = e.st /\ Twin(e, d)
    <3> HIDE DEF e, more, d, st
    <3>1. CASE d = e
      BY <3>1 DEF Twin
    <3>2. CASE d = [e EXCEPT !.multi = more]
      BY <1>7, <3>2 DEF Twin, Packet
    <3>3. QED BY <1>12, <3>1, <3>2
  <2>6. Twin(p, d)
    <3> HIDE DEF p, e, d
    <3> QED BY <2>4, <2>5 DEF Twin
  <2>7. d.st = IF p.ack THEN "WAIT_ACK" ELSE "SENT_NOACKED"
    <3> HIDE DEF d, e, p, st
    <3> QED BY <2>1, <2>4, <2>5
  <2>8. active' = s
    BY <1>13, <2>2
  <2>9. QED BY <1>1, <1>4, <1>12, <1>14, <2>6, <2>7, <2>8
<1>15. CASE ~p.hs
  <2>1. st = "SENT"
    BY <1>15 DEF StateOnAir
  <2>2. e = FreePkt
    BY <2>1 DEF AfterAir
  <2>3. d = FreePkt
    <3> HIDE DEF st, e, d
    <3> QED BY <1>12, <2>1, <2>2
  <2>4. active' = Idle
    BY <1>13, <2>1
  <2>5. QED BY <1>1, <1>4, <1>12, <1>15, <2>3, <2>4
<1>16. QED BY <1>14, <1>15

LEMMA SendNextWindows ==
    ASSUME BoundedInv, TypeOK', Mode = "CRX", SendNext, NEW f \in [Slots -> Nat],
           NEW n \in Nat, NEW w \in Nat, Windows(ring, active, f, n, w)
    PROVE Windows(ring', active', f, n, w)
<1>1. /\ ring \in Ring /\ active \in Cells /\ ring' \in Ring /\ active' \in Cells
      /\ OneWaits(ring, active) /\ RingBounded(ring, active)
  BY BoundedWaits DEF BoundedInv, TypeOK
<1>2. PICK s \in Slots :
            /\ s = Queued(ring, active) /\ ring.pkt[active].st # "WAIT_ACK"
            /\ ring.pkt[s].st \in {"QUEUED", "QUEUED_AGAIN", "NEED_TO_SEND_RIGHT_NOW"}
            /\ ring'.head = ring.head
            /\ \A c \in Cells : c # s => ring'.pkt[c] = ring.pkt[c]
            /\ IF ring.pkt[s].hs
               THEN /\ active' = s /\ Twin(ring.pkt[s], ring'.pkt[s])
                    /\ ring'.pkt[s].st = IF ring.pkt[s].ack THEN "WAIT_ACK" ELSE "SENT_NOACKED"
               ELSE active' = Idle /\ ring'.pkt[s] = FreePkt
  BY SendNextIs
<1>3. ring'.pkt[Idle] = ring.pkt[Idle] /\ ring.pkt[Idle].st = "FREE" /\ s \in Cells
  BY <1>2, CellFacts DEF Windows, Shaped
<1>4. CASE ~ring.pkt[s].hs
  <2>1. \A c \in Slots : \/ ring'.pkt[c] = ring.pkt[c]
                         \/ ring'.pkt[c] = FreePkt /\ (c \notin Stamps(ring) \/ ~ring.pkt[c].hs)
    BY <1>2, <1>4, CellFacts
  <2>2. active' = Idle /\ ring'.pkt[active'].st # "WAIT_ACK"
    BY <1>2, <1>3, <1>4
  <2>3. QED BY <1>1, <1>2, <1>3, <2>1, <2>2, FreedWindows
<1>5. CASE ring.pkt[s].hs
  <2> DEFINE p == ring.pkt[s]
             d == ring'.pkt[s]
  <2>1. PktShaped(p) /\ p.st # "NEED_TO_SEND_RIGHT_NOW"
    <3>1. PktBounded(p, s = active)
      BY <1>1, <1>3 DEF RingBounded
    <3>2. p.st # "NEED_TO_SEND_RIGHT_NOW"
      BY <1>5, <3>1 DEF PktBounded
    <3>3. QED BY <3>2 DEF Windows, Shaped
  <2>2. p.st \in {"QUEUED", "QUEUED_AGAIN"} /\ p.kind \in StampKinds /\ s \in Stamps(ring)
    BY <1>2, <2>1 DEF PktShaped, Stamps, Stamped
  <2>3. Urgent(ring) = {}
    <3>1. Urgent(ring) # {} => s \in Urgent(ring)
      <4>1. s # None
        BY DEF Slots, None
      <4>2. QED BY <1>2, <4>1, OldestFacts DEF Queued
    <3>2. QED BY <2>1, <3>1 DEF Urgent, InState
  <2>4. \/ s \in Again(ring) /\ \A c \in Again(ring) : ~Ahead(ring, c, s)
        \/ /\ Again(ring) = {} /\ p.st = "QUEUED"
           /\ \A c \in InState(ring, "QUEUED") : ~Ahead(ring, c, s)
    <3>1. s # None /\ ring.head \in Slots
      BY <1>1 DEF Slots, None, Ring
    <3>2. \A c \in Slots : Age(ring.head, c) \in Int
      BY <3>1, AgeFacts
    <3>3. CASE Again(ring) # {}
      <4>1. s = Oldest(ring.head, Again(ring))
        BY <1>2, <2>3, <3>3 DEF Queued
      <4>2. s \in Again(ring) /\ \A c \in Again(ring) : Age(ring.head, s) <= Age(ring.head, c)
        BY <3>1, <4>1, OldestFacts
      <4>3. Again(ring) \subseteq Slots
        BY DEF Again, InState
      <4>4. QED BY <3>2, <4>2, <4>3 DEF Ahead
    <3>4. CASE Again(ring) = {}
      <4>1. s = Oldest(ring.head, Fresh(ring, active))
        BY <1>2, <2>3, <3>4 DEF Queued
      <4>2. \A c \in Fresh(ring, active) : Age(ring.head, s) <= Age(ring.head, c)
        BY <3>1, <4>1, OldestFacts
      <4>3. InState(ring, "QUEUED") \subseteq Slots
            /\ InState(ring, "QUEUED") \subseteq Fresh(ring, active)
        BY DEF Fresh, InState
      <4>4. p.st = "QUEUED"
        BY <2>2, <3>4 DEF Again, InState
      <4>5. QED BY <3>2, <3>4, <4>2, <4>3, <4>4 DEF Ahead
    <3>5. QED BY <3>3, <3>4
  <2>5. Twin(p, d) /\ d.st = (IF p.ack THEN "WAIT_ACK" ELSE "SENT_NOACKED") /\ active' = s
    BY <1>2, <1>5
  <2> HIDE DEF d, p
  <2>6. PktShaped(d) /\ Stamped(d) /\ Stamped(p)
    <3>1. p.ack => p.hs
      BY <2>1 DEF PktShaped
    <3>2. PktShaped(d)
      BY <1>5, <2>1, <2>2, <2>5 DEF PktShaped, Twin, p
    <3>3. QED BY <2>2, <2>5, <3>2 DEF Stamped, Twin
  <2>7. \A c \in Slots : Twin(ring.pkt[c], ring'.pkt[c])
    BY <1>2, <2>5, CellFacts DEF Twin, d, p
  <2>8. Shaped(ring')
    BY <1>2, <1>3, <2>6, CellFacts DEF Windows, Shaped, d
  <2>9. Restated(ring, ring')
    <3>1. \A c \in Slots : Stamped(ring.pkt[c]) <=> Stamped(ring'.pkt[c])
      BY <1>2, <2>6, CellFacts DEF d, p
    <3>2. Stamps(ring') = Stamps(ring) /\ Stamps(ring) \subseteq Slots
      BY <3>1 DEF Stamps
    <3>3. QED BY <1>2, <2>7, <3>2 DEF Restated, Twin, Ahead
  <2>10. \A c \in Stamps(ring) : ring'.pkt[c].ack <=> ring.pkt[c].ack
    BY <2>7 DEF Twin, Stamps
  <2>11. \A c \in Stamps(ring) : ring'.pkt[c].mack = ring.pkt[c].mack
    BY <2>7 DEF Twin, Stamps
  <2>12. \A c \in Stamps(ring) : ring'.pkt[c].st =
           IF c # s THEN ring.pkt[c].st
           ELSE IF ring.pkt[s].ack THEN "WAIT_ACK" ELSE "SENT_NOACKED"
    BY <1>2, <2>5, CellFacts DEF Stamps, d, p
  <2>13. Windows(ring', s, f, n, w)
    BY <1>1, <1>2, <1>5, <2>2, <2>4, <2>8, <2>9, <2>10, <2>11, <2>12, SentWindows DEF p
  <2>14. QED BY <2>5, <2>13
<1>6. QED BY <1>4, <1>5

-----------------------------------------------------------------------------
(***************************************************************************)
(* Packets are queued: k of them, from the slot at head on.                *)
(***************************************************************************)
LEMMA ModPlus ==
    ASSUME NEW d \in Nat \ {0}, NEW x \in Int, NEW k \in Int
    PROVE ((x % d) + k) % d = (x + k) % d
<1> DEFINE b == x % d
           y == -k
<1>1. y \in Int /\ b \in Int
  BY DivMod
<1>2. (b - y) % d = (x - y) % d
  <2> HIDE DEF y
  <2> QED BY <1>1, ModLess
<1>3. b - y = b + k /\ x - y = x + k
  BY <1>1
<1> HIDE DEF y, b
<1>4. QED BY <1>2, <1>3 DEF b

LEMMA AgeAdd ==
    ASSUME NEW h \in Slots, NEW k \in 1 .. TxSize, NEW c \in Slots
    PROVE /\ (h + k) % TxSize \in Slots
          /\ Age((h + k) % TxSize, c) =
                IF Age(h, c) < k THEN Age(h, c) + TxSize - k ELSE Age(h, c) - k
<1> DEFINE T == TxSize
           g == (h + k) % T
<1>1. /\ T \in Nat \ {0} /\ h \in Int /\ c \in Int /\ 0 <= h /\ h < T /\ 0 <= c /\ c < T
      /\ k \in Int /\ 1 <= k /\ k <= T
  BY DEF Slots
<1>2. g = IF h + k < T THEN h + k ELSE h + k - T
  <2> HIDE DEF T
  <2>1. CASE h + k < T
    <3>1. h + k \in 0 .. T - 1
      BY <1>1, <2>1
    <3>2. QED BY <1>1, <2>1, <3>1, ModSmall
  <2>2. CASE ~(h + k < T)
    <3> DEFINE y == h + k - T
    <3>1. y \in 0 .. T - 1 /\ y \in Int
      BY <1>1, <2>2
    <3> PICK z \in Int : z = 1
      OBVIOUS
    <3>2. h + k = y + T * z
      BY <1>1
    <3> HIDE DEF y
    <3>3. (y + T * z) % T = y % T
      BY <1>1, <3>1, ModAdd
    <3>4. y % T = y
      BY <1>1, <3>1, ModSmall
    <3>5. QED BY <2>2, <3>2, <3>3, <3>4 DEF y
  <2>3. QED BY <2>1, <2>2
<1> HIDE DEF g
<1>3. g \in Slots
  BY <1>1, <1>2 DEF Slots
<1>4. Age(g, c) = IF Age(h, c) < k THEN Age(h, c) + T - k ELSE Age(h, c) - k
  <2> HIDE DEF T
  <2>1. Age(g, c) = IF c >= g THEN c - g ELSE c + T - g
    BY DEF Age, T
  <2>2. Age(h, c) = IF c >= h THEN c - h ELSE c + T - h
    BY DEF Age, T
  <2>3. QED BY <1>1, <1>2, <2>1, <2>2
<1>5. QED BY <1>3, <1>4 DEF g

NewSlots(r, k) == {c \in Slots : Age(r.head, c) < k}

Renumber(r, f, k, n) ==
    [c \in Slots |-> IF Age(r.head, c) < k THEN n + Age(r.head, c) ELSE f[c]]

Appended(r, q, k, n) ==
    /\ q.head = (r.head + k) % TxSize
    /\ \A c \in Cells : c \notin NewSlots(r, k) => q.pkt[c] = r.pkt[c]
    /\ \A c \in NewSlots(r, k) :
          /\ ~Blocked(r.pkt[c])
          /\ q.pkt[c].st = "QUEUED" /\ q.pkt[c].kind \in StampKinds /\ PktShaped(q.pkt[c])
          /\ q.pkt[c].iter = (n + Age(r.head, c)) % IterMod

LEMMA AppendWindows ==
    ASSUME NEW r \in Ring, NEW q \in Ring, NEW a \in Cells, NEW f \in [Slots -> Nat],
           NEW n \in Nat, NEW w \in Nat, Windows(r, a, f, n, w), NEW k \in 1 .. TxSize,
           Appended(r, q, k, n), NEW v \in Nat, TailFits(n + k, v),
           Fits(q, NewSlots(r, k), Renumber(r, f, k, n), n, w, n + k, v)
    PROVE /\ Windows(q, a, Renumber(r, f, k, n), n + k, v)
          /\ Renumber(r, f, k, n) \in [Slots -> Nat]
<1> DEFINE S == NewSlots(r, k)
           g == Renumber(r, f, k, n)
           h == r.head
           m == n + k
           e == [c \in Cells |-> IF c \in S THEN FreePkt ELSE r.pkt[c]]
           u == [pkt |-> e, head |-> q.head]
<1>1. h \in Slots /\ q.head \in Slots /\ m \in Nat /\ k \in Int /\ 1 <= k /\ k <= TxSize
      /\ TxSize \in Int /\ S \subseteq Slots
  BY DEF Ring, NewSlots
<1>2. \A c \in Slots : Age(h, c) \in Nat /\ (c \in S <=> Age(h, c) < k)
  BY <1>1, AgeFacts DEF NewSlots
<1>3. \A c \in Slots : Age(q.head, c) = IF Age(h, c) < k THEN Age(h, c) + TxSize - k
                                        ELSE Age(h, c) - k
  BY <1>1, AgeAdd DEF Appended
<1>4. g \in [Slots -> Nat] /\ \A c \in Slots : g[c] = IF c \in S THEN n + Age(h, c) ELSE f[c]
  BY <1>2 DEF Renumber
<1>5. /\ \A c \in Cells : c \notin S => q.pkt[c] = r.pkt[c]
      /\ \A c \in S : /\ ~Blocked(r.pkt[c])
                      /\ q.pkt[c].st = "QUEUED" /\ Stamped(q.pkt[c]) /\ PktShaped(q.pkt[c])
                      /\ q.pkt[c].iter = (n + Age(h, c)) % IterMod
  BY DEF Appended, Stamped
<1>6. e \in [Cells -> Packet]
  BY RingPkt, FreePktType
<1>7. u \in Ring /\ u.pkt = e /\ u.head = q.head
  BY <1>1, <1>6 DEF Ring
<1>8. \A c \in Cells : u.pkt[c] = IF c \in S THEN FreePkt ELSE r.pkt[c]
  BY <1>7
<1> HIDE DEF S, g, h, m, e, u
<1>9. ~Stamped(FreePkt) /\ PktShaped(FreePkt) /\ FreePkt.st = "FREE"
  BY DEF FreePkt, Stamped, PktShaped, StampKinds, AppKinds
<1>10. Stamps(u) = Stamps(r) \ S /\ Stamps(r) \subseteq Slots
  BY <1>8, <1>9, CellFacts DEF Stamps
<1>11. ASSUME NEW c \in Slots, NEW d \in Slots
       PROVE /\ c \notin S /\ d \notin S =>
                   (Age(q.head, c) < Age(q.head, d) <=> Age(h, c) < Age(h, d))
             /\ c \notin S /\ d \in S =>
                   ~(Age(h, c) < Age(h, d)) /\ ~(Age(q.head, d) < Age(q.head, c))
             /\ c \in S /\ d \in S => (Age(q.head, c) < Age(q.head, d) <=> Age(h, c) < Age(h, d))
  <2>1. /\ Age(h, c) \in Nat /\ Age(h, d) \in Nat
        /\ Age(h, c) <= TxSize - 1 /\ Age(h, d) <= TxSize - 1
        /\ (c \in S <=> Age(h, c) < k) /\ (d \in S <=> Age(h, d) < k)
    BY <1>1, <1>2, AgeFacts
  <2>2. /\ Age(q.head, c) = IF Age(h, c) < k THEN Age(h, c) + TxSize - k ELSE Age(h, c) - k
        /\ Age(q.head, d) = IF Age(h, d) < k THEN Age(h, d) + TxSize - k ELSE Age(h, d) - k
    BY <1>3
  <2>3. QED BY <1>1, <2>1, <2>2
<1>12. Shaped(u)
  BY <1>1, <1>8, <1>9, CellFacts DEF Windows, Shaped
<1>13. Dropped(r, u)
  <2>1. \A c \in Stamps(u) : c \in Slots /\ c \in Stamps(r) /\ c \notin S /\ u.pkt[c] = r.pkt[c]
    BY <1>8, <1>10, CellFacts
  <2>2. \A c, d \in Stamps(u) : Ahead(u, c, d) <=> Ahead(r, c, d)
    BY <1>7, <1>11, <2>1 DEF Ahead, h
  <2>3. \A d \in Stamps(r) \ Stamps(u) :
           ~Asking(r.pkt[d]) /\ \A c \in Stamps(u) : ~Ahead(r, c, d)
    <3> SUFFICES ASSUME NEW d \in Stamps(r) \ Stamps(u)
                 PROVE ~Asking(r.pkt[d]) /\ \A c \in Stamps(u) : ~Ahead(r, c, d)
      OBVIOUS
    <3>1. d \in S /\ d \in Slots
      BY <1>10
    <3>2. ~Asking(r.pkt[d])
      BY <1>5, <3>1 DEF Asking, Going, Blocked
    <3>3. QED BY <1>11, <2>1, <3>1, <3>2 DEF Ahead, h
  <2>4. QED BY <1>10, <2>1, <2>2, <2>3 DEF Dropped
<1>14. u.pkt[a].st = "WAIT_ACK" => Again(u) = {}
  <2>1. SUFFICES ASSUME u.pkt[a].st = "WAIT_ACK" PROVE Again(u) = {}
    OBVIOUS
  <2>2. r.pkt[a].st = "WAIT_ACK"
    BY <1>8, <1>9, <2>1
  <2>3. Again(r) = {}
    BY <2>2 DEF Windows, OneRound
  <2>4. \A c \in Again(u) : c \in Again(r)
    BY <1>8, <1>9, CellFacts DEF Again, InState
  <2>5. QED BY <2>3, <2>4
<1>15. Windows(u, a, f, n, w)
  BY <1>7, <1>12, <1>13, <1>14, DroppedWindows
<1>16. Shaped(q)
  BY <1>1, <1>5, CellFacts DEF Windows, Shaped
<1>17. Stamps(q) = Stamps(u) \cup S
  <2>1. \A c \in Slots : c \in Stamps(q) <=> c \in Stamps(u) \/ c \in S
    BY <1>5, <1>10, CellFacts DEF Stamps
  <2>2. Stamps(q) \subseteq Slots
    BY DEF Stamps
  <2>3. QED BY <1>1, <1>10, <2>1, <2>2
<1>18. Behind(u, q, S)
  <2>1. \A c \in Stamps(u) : c \in Slots /\ c \notin S /\ q.pkt[c] = u.pkt[c]
    BY <1>5, <1>8, <1>10, CellFacts
  <2>2. \A c, d \in Stamps(u) : Ahead(q, c, d) <=> Ahead(u, c, d)
    BY <1>7 DEF Ahead
  <2>3. \A c \in Stamps(u), d \in S : ~Ahead(q, d, c)
    BY <1>1, <1>11, <2>1 DEF Ahead
  <2>4. QED BY <1>1, <1>5, <1>10, <1>17, <2>1, <2>2, <2>3 DEF Behind
<1>19. Numbers(u, q, S, f, g, n, m)
  <2>1. n <= m
    BY <1>1 DEF m
  <2>2. \A c \in Stamps(u) : g[c] = f[c]
    BY <1>4, <1>10
  <2>3. ASSUME NEW d \in S
        PROVE n <= g[d] /\ g[d] < m /\ g[d] % IterMod = q.pkt[d].iter
    <3>1. d \in Slots /\ Age(h, d) \in Nat /\ Age(h, d) < k /\ g[d] = n + Age(h, d)
      BY <1>1, <1>2, <1>4
    <3>2. QED BY <1>1, <1>5, <3>1 DEF m
  <2>4. ASSUME NEW c \in S, NEW d \in S, Ahead(q, c, d) PROVE g[c] < g[d]
    <3>1. /\ c \in Slots /\ d \in Slots /\ Age(h, c) \in Nat /\ Age(h, d) \in Nat
          /\ g[c] = n + Age(h, c) /\ g[d] = n + Age(h, d)
      BY <1>1, <1>2, <1>4
    <3>2. Age(h, c) < Age(h, d)
      BY <1>11, <2>4, <3>1 DEF Ahead
    <3>3. QED BY <3>1, <3>2
  <2>5. QED BY <2>1, <2>2, <2>3, <2>4 DEF Numbers
<1>20. Fits(q, S, g, n, w, m, v) /\ TailFits(m, v)
  BY DEF S, g, m
<1>21. Windows(q, a, g, m, v)
  BY <1>1, <1>4, <1>7, <1>15, <1>16, <1>18, <1>19, <1>20, BehindWindows
<1>22. QED BY <1>4, <1>21 DEF g, m

\* The step keeps the windows, numbers being given to what it queues.
WindowsHold(r, a, it, w) ==
    \E f \in [Slots -> Nat], n \in Nat : n % IterMod = it /\ Windows(r, a, f, n, w)

LEMMA WrapPlus ==
    ASSUME NEW n \in Nat, NEW k \in Nat PROVE Wrap((n % IterMod) + k) = (n + k) % IterMod
<1>1. IterMod \in Nat \ {0} /\ n \in Int /\ k \in Int
  OBVIOUS
<1>2. ((n % IterMod) + k) % IterMod = (n + k) % IterMod
  BY <1>1, ModPlus
<1>3. QED BY <1>2 DEF Wrap

LEMMA NewSlotFacts ==
    ASSUME NEW r \in Ring
    PROVE /\ NewSlots(r, 1) = {r.head} /\ Age(r.head, r.head) = 0 /\ r.head \in Slots
          /\ \A k \in 1 .. TxSize : \A x \in 0 .. k - 1 :
                \E d \in NewSlots(r, k) : Age(r.head, d) = x
<1> DEFINE h == r.head
<1>1. h \in Slots
  BY DEF Ring
<1> HIDE DEF h
<1>2. \A c \in Slots : Age(h, c) \in Nat /\ (Age(h, c) < 1 <=> c = h)
  BY <1>1 DEF Age, Slots
<1>3. Age(h, h) = 0
  BY <1>1 DEF Age, Slots
<1>4. ASSUME NEW k \in 1 .. TxSize, NEW x \in 0 .. k - 1
      PROVE \E d \in NewSlots(r, k) : Age(h, d) = x
  <2>1. x \in 0 .. TxSize - 1 /\ x < k
    OBVIOUS
  <2>2. PICK d \in Slots : Age(h, d) = x
    BY <1>1, <2>1, SlotBehind
  <2>3. QED BY <2>1, <2>2 DEF NewSlots, h
<1>5. NewSlots(r, 1) = {h}
  BY <1>1, <1>2 DEF NewSlots, h
<1>6. QED BY <1>1, <1>3, <1>4, <1>5 DEF h

LEMMA HeartBeatWindows ==
    ASSUME Windowed, BoundedInv, TypeOK', HeartBeat, NEW f \in [Slots -> Nat], NEW n \in Nat,
           n % IterMod = ulIter, Windows(ring, active, f, n, notAcked)
    PROVE WindowsHold(ring', active', ulIter', notAcked')
<1> DEFINE r == ring
           p == [SysPkt("HEARTBEAT", "QUEUED", ulIter) EXCEPT
                   !.hs = Handshake /\ AckMode(mode), !.ack = Handshake /\ AckMode(mode)]
           h == r.head
           S == NewSlots(r, 1)
           g == Renumber(r, f, 1, n)
           m == n + 1
           w == notAcked
<1>1. /\ r \in Ring /\ active \in Cells /\ ring' \in Ring /\ ulIter \in Iters
      /\ w \in Nat /\ hbLeft \in 0 .. MaxHb /\ active' = active /\ notAcked' = w
  BY DEF BoundedInv, TypeOK, HeartBeat
<1>2. CASE ring' = r /\ ulIter' = ulIter
  BY <1>1, <1>2 DEF WindowsHold
<1>3. CASE CanAlloc(r) /\ ring' = Alloc(r, p) /\ ulIter' = Wrap(ulIter + 1)
  <2>1. w = 0
    <3>1. hbLeft > 0 /\ MaxHb # 0
      BY <1>1, BoundAssumption DEF HeartBeat
    <3>2. Mack = 1
      BY <3>1 DEF Windowed
    <3>3. QED BY <3>2 DEF Windows, TailFits
  <2>2. /\ p.st = "QUEUED" /\ p.kind = "HEARTBEAT" /\ p.iter = ulIter /\ p.mack = 0
        /\ p.ack = p.hs /\ p.kind \in StampKinds /\ p.kind \notin AppKinds
    BY DEF SysPkt, FreePkt, StampKinds, AppKinds
  <2> HIDE DEF p
  <2>3. PktShaped(p)
    BY <2>2 DEF PktShaped, StampKinds, AppKinds
  <2>4. S = {h} /\ Age(h, h) = 0 /\ h \in Slots
    BY <1>1, NewSlotFacts
  <2>5. ~Blocked(r.pkt[h]) /\ ring'.pkt[h] = p
        /\ \A c \in Cells : c # h => ring'.pkt[c] = r.pkt[c]
    <3>1. /\ ~Blocked(r.pkt[h]) /\ Alloc(r, p).pkt[h] = p
          /\ Alloc(r, p).pkt[Idle] = r.pkt[Idle]
          /\ \A c \in Slots : c # h => Alloc(r, p).pkt[c] = r.pkt[c]
      BY <1>1, <1>3, AllocCells
    <3>2. QED BY <1>3, <3>1, CellFacts
  <2>6. ring'.head = (h + 1) % TxSize
    BY <1>3 DEF Alloc
  <2>7. Appended(r, ring', 1, n)
    <3>1. (n + 0) % IterMod = ulIter
      <4>1. n + 0 = n
        OBVIOUS
      <4>2. QED BY <4>1
    <3> HIDE DEF h, S
    <3>2. QED BY <2>2, <2>3, <2>4, <2>5, <2>6, <3>1 DEF Appended, h, S
  <2>8. TailFits(m, 0)
    <3>1. \A x \in Nat : ~InTail(x, m, 0)
      BY DEF InTail
    <3>2. QED BY <3>1 DEF TailFits
  <2>9. Fits(ring', S, g, n, w, m, 0)
    <3>1. \A x \in Nat : ~InTail(x, m, 0) /\ ~InTail(x, n, w)
      BY <2>1 DEF InTail
    <3>2. \A d \in S : ring'.pkt[d] = p
      BY <2>4, <2>5
    <3>3. \A d \in S : ~Asking(ring'.pkt[d]) /\ ~Silent(ring'.pkt[d])
      BY <2>2, <3>2 DEF Asking, Silent
    <3>4. \A d \in S : g[d] \in Nat
      <4>1. g[h] = n + Age(h, h)
        BY <2>4 DEF Renumber
      <4>2. g[h] = n
        BY <2>4, <4>1
      <4> HIDE DEF g
      <4>3. QED BY <2>4, <4>2
    <3>5. \A x \in Nat : ~Within(ring', S, g, m, 0, x)
      BY <3>1, <3>3 DEF Within
    <3> HIDE DEF g, S, m
    <3>6. QED BY <3>1, <3>3, <3>4, <3>5 DEF Fits, m
  <2>10. 1 \in 1 .. TxSize
    OBVIOUS
  <2>11. Windows(ring', active, g, m, 0) /\ g \in [Slots -> Nat]
    BY <1>1, <2>7, <2>8, <2>9, <2>10, AppendWindows
  <2>12. m % IterMod = ulIter'
    <3>1. Wrap((n % IterMod) + 1) = (n + 1) % IterMod
      BY WrapPlus
    <3>2. QED BY <1>3, <3>1
  <2> HIDE DEF g
  <2>13. QED BY <1>1, <2>1, <2>11, <2>12 DEF WindowsHold
<1>4. QED BY <1>2, <1>3 DEF HeartBeat

-----------------------------------------------------------------------------
(***************************************************************************)
(* NBFi_Send5: the packets of a message.                                   *)
(***************************************************************************)
LEMMA RenumberFacts ==
    ASSUME NEW r \in Ring, NEW f \in [Slots -> Nat], NEW n \in Nat, NEW k \in 1 .. TxSize
    PROVE \A d \in NewSlots(r, k) :
             /\ d \in Slots /\ Age(r.head, d) \in 0 .. k - 1
             /\ Renumber(r, f, k, n)[d] = n + Age(r.head, d)
<1>1. r.head \in Slots
  BY DEF Ring
<1>2. \A d \in Slots : Age(r.head, d) \in Nat
  BY <1>1, AgeFacts
<1>3. QED BY <1>2 DEF NewSlots, Renumber

\* The last packet of the message asks for an ACK of everything before it.
LEMMA FitsAsked ==
    ASSUME NEW r \in Ring, NEW q, NEW f \in [Slots -> Nat], NEW n \in Nat,
           NEW w \in Nat, NEW k \in 1 .. TxSize,
           \A c \in NewSlots(r, k) :
              /\ q.pkt[c].st = "QUEUED" /\ q.pkt[c].kind \in AppKinds /\ q.pkt[c].hs
              /\ q.pkt[c].ack <=> Age(r.head, c) = k - 1
              /\ q.pkt[c].ack => q.pkt[c].mack = w + k
    PROVE Fits(q, NewSlots(r, k), Renumber(r, f, k, n), n, w, n + k, 0)
<1> DEFINE S == NewSlots(r, k)
           g == Renumber(r, f, k, n)
           m == n + k
           h == r.head
<1>1. \A d \in S : Age(h, d) \in 0 .. k - 1 /\ g[d] = n + Age(h, d) /\ d \in Slots
  BY RenumberFacts
<1>2. k \in Nat /\ 1 <= k
  OBVIOUS
<1>3. \A x \in 0 .. k - 1 : \E d \in S : Age(h, d) = x
  BY NewSlotFacts
<1>4. PICK t \in S : Age(h, t) = k - 1
  BY <1>2, <1>3
<1>5. g[t] = m - 1 /\ Asking(q.pkt[t]) /\ q.pkt[t].mack = w + k
  <2>1. g[t] = n + (k - 1)
    BY <1>1, <1>4
  <2>2. q.pkt[t].ack /\ q.pkt[t].st = "QUEUED" /\ q.pkt[t].kind \in AppKinds
    BY <1>4
  <2>3. q.pkt[t].mack = w + k
    BY <2>2
  <2> HIDE DEF g
  <2>4. QED BY <2>1, <2>2, <2>3 DEF Asking, Going
<1>6. \A d \in S : q.pkt[d].ack => d = t
  <2>1. h \in Slots
    BY DEF Ring
  <2>2. \A d \in S : q.pkt[d].ack => Age(h, d) = Age(h, t)
    BY <1>4
  <2> HIDE DEF h
  <2>3. QED BY <1>1, <2>1, <2>2, AgeFacts
<1>7. \A d \in S : q.pkt[d].kind \in AppKinds /\ q.pkt[d].hs
  OBVIOUS
<1>8. \A x \in Nat : ~InTail(x, m, 0)
  BY DEF InTail
<1>9. \A d \in S : g[d] \in Nat /\ n <= g[d] /\ g[d] < m
  BY <1>1
<1>10. \A x \in n .. m - 1 : \E d \in S : g[d] = x
  <2> SUFFICES ASSUME NEW x \in n .. m - 1 PROVE \E d \in S : g[d] = x
    OBVIOUS
  <2>1. x - n \in 0 .. k - 1 /\ x \in Int
    BY <1>2
  <2>2. PICK d \in S : Age(h, d) = x - n
    BY <1>3, <2>1
  <2>3. g[d] = n + (x - n)
    BY <1>1, <2>2
  <2> HIDE DEF g
  <2>4. QED BY <2>1, <2>3
<1> HIDE DEF S, g, m, h
<1>11. m \in Nat /\ m = n + k
  BY <1>2 DEF m
<1>12. \A x \in Nat : Within(q, S, g, m, 0, x) <=> Inside(x, m - 1, w + k)
  BY <1>5, <1>6, <1>8 DEF Within, Asking
<1>13. \A x \in Nat : Within(q, S, g, m, 0, x) =>
          (n <= x + w) /\ (n <= x => \E d \in S : g[d] = x)
  BY <1>2, <1>10, <1>11, <1>12 DEF Inside
<1>14. \A x \in Nat : InTail(x, n, w) => Within(q, S, g, m, 0, x)
  BY <1>2, <1>11, <1>12 DEF InTail, Inside
<1>15. \A d \in S : Silent(q.pkt[d]) =>
          \E u \in S : Asking(q.pkt[u]) /\ u # d /\ Inside(g[d], g[u], q.pkt[u].mack)
  <2> SUFFICES ASSUME NEW d \in S, Silent(q.pkt[d])
               PROVE Asking(q.pkt[t]) /\ t # d /\ Inside(g[d], g[t], q.pkt[t].mack)
    BY <1>4
  <2>1. t # d
    BY <1>5 DEF Silent, Asking
  <2>2. Inside(g[d], m - 1, w + k)
    BY <1>2, <1>9, <1>11 DEF Inside
  <2>3. QED BY <1>5, <2>1, <2>2
<1>16. \A d \in S : q.pkt[d].ack =>
          /\ ~InTail(g[d], m, 0)
          /\ \A u \in S : Asking(q.pkt[u]) /\ u # d => ~Inside(g[d], g[u], q.pkt[u].mack)
  BY <1>6, <1>8, <1>9 DEF Asking
<1>17. Fits(q, S, g, n, w, m, 0)
  BY <1>7, <1>13, <1>14, <1>15, <1>16 DEF Fits
<1>18. QED BY <1>17 DEF S, g, m

\* The one packet of the message asks for no ACK: the tail is longer by one.
LEMMA FitsSilent ==
    ASSUME NEW r \in Ring, NEW q, NEW f \in [Slots -> Nat], NEW n \in Nat, NEW w \in Nat,
           \A c \in NewSlots(r, 1) : q.pkt[c].kind \in AppKinds /\ q.pkt[c].hs /\ ~q.pkt[c].ack
    PROVE Fits(q, NewSlots(r, 1), Renumber(r, f, 1, n), n, w, n + 1, w + 1)
<1> DEFINE S == NewSlots(r, 1)
           g == Renumber(r, f, 1, n)
           h == r.head
<1>1. h \in S /\ h \in Slots /\ Age(h, h) = 0
  BY NewSlotFacts
<1>2. \A d \in S : d = h
  BY NewSlotFacts
<1>3. g[h] = n
  <2>1. 1 \in 1 .. TxSize
    OBVIOUS
  <2>2. g[h] = n + Age(h, h)
    BY <1>1, <2>1, RenumberFacts
  <2>3. QED BY <1>1, <2>2
<1>4. \A d \in S : q.pkt[d].kind \in AppKinds /\ q.pkt[d].hs /\ ~q.pkt[d].ack /\ ~Asking(q.pkt[d])
  BY DEF Asking
<1> HIDE DEF S, g, h
<1>5. \A x \in Nat : Within(q, S, g, n + 1, w + 1, x) <=> InTail(x, n + 1, w + 1)
  BY <1>4 DEF Within
<1>6. \A x \in Nat : InTail(x, n + 1, w + 1) => (n <= x + w) /\ (n <= x => g[h] = x)
  BY <1>3 DEF InTail
<1>7. \A x \in Nat : InTail(x, n, w) => InTail(x, n + 1, w + 1)
  BY DEF InTail
<1>8. \A d \in S : InTail(g[d], n + 1, w + 1)
  BY <1>2, <1>3 DEF InTail
<1>9. Fits(q, S, g, n, w, n + 1, w + 1)
  BY <1>1, <1>4, <1>5, <1>6, <1>7, <1>8 DEF Fits
<1>10. QED BY <1>9 DEF S, g

\* A message without handshake belongs to no window.
LEMMA FitsUnheard ==
    ASSUME NEW r \in Ring, NEW q, NEW f \in [Slots -> Nat], NEW n \in Nat,
           NEW k \in 1 .. TxSize,
           \A c \in NewSlots(r, k) : ~q.pkt[c].hs /\ ~q.pkt[c].ack
    PROVE Fits(q, NewSlots(r, k), Renumber(r, f, k, n), n, 0, n + k, 0)
<1> DEFINE S == NewSlots(r, k)
           g == Renumber(r, f, k, n)
           m == n + k
<1>1. \A d \in S : g[d] \in Nat
  BY RenumberFacts
<1>2. m \in Nat
  OBVIOUS
<1>3. \A d \in S : ~q.pkt[d].hs /\ ~q.pkt[d].ack /\ ~Asking(q.pkt[d]) /\ ~Silent(q.pkt[d])
  BY DEF Asking, Silent
<1> HIDE DEF S, g, m
<1>4. \A x \in Nat : ~InTail(x, m, 0) /\ ~InTail(x, n, 0)
  BY <1>2 DEF InTail
<1>5. \A x \in Nat : ~Within(q, S, g, m, 0, x)
  BY <1>3, <1>4 DEF Within
<1>6. Fits(q, S, g, n, 0, m, 0)
  BY <1>1, <1>3, <1>4, <1>5 DEF Fits
<1>7. QED BY <1>6 DEF S, g, m

\* So many steps after the head, a scan is at the slot of that age.
LEMMA SlotAt ==
    ASSUME NEW h \in Slots, NEW c \in Slots PROVE (h + Age(h, c)) % TxSize = c
<1>1. /\ TxSize \in Nat \ {0} /\ h \in Int /\ c \in 0 .. TxSize - 1 /\ c \in Int
      /\ c % TxSize = c
  BY ModSmall DEF Slots
<1>2. CASE c >= h
  <2>1. h + Age(h, c) = c
    BY <1>1, <1>2 DEF Age
  <2>2. QED BY <1>1, <2>1
<1>3. CASE ~(c >= h)
  <2>1. PICK z \in Int : z = 1
    OBVIOUS
  <2>2. h + Age(h, c) = c + TxSize * z
    BY <1>1, <1>3, <2>1 DEF Age
  <2>3. (c + TxSize * z) % TxSize = c % TxSize
    BY <1>1, ModAdd
  <2>4. QED BY <1>1, <2>2, <2>3
<1>4. QED BY <1>2, <1>3

\* The allocations of NBFi_Send5 succeed up to the first slot in use.
LEMMA AllocatableFacts ==
    ASSUME NEW r \in Ring, NEW n \in Nat
    PROVE /\ Allocatable(r, n) \in 0 .. n
          /\ \A c \in Slots : Age(r.head, c) < Allocatable(r, n) => ~Blocked(r.pkt[c])
          /\ n <= TxSize /\ (\A c \in Slots : Blocked(r.pkt[c]) => n <= Age(r.head, c))
                => Allocatable(r, n) = n
<1> DEFINE h == r.head
           blocked(j) == Blocked(r.pkt[(h + j) % TxSize])
           k == Allocatable(r, n)
           T == {j \in 0 .. n - 1 : blocked(j)}
           S == {j \in 0 .. n - 1 : blocked(j) /\ \A i \in 0 .. j - 1 : ~blocked(i)}
<1>1. k = IF AnyOf(S) = None THEN n ELSE AnyOf(S)
  BY DEF Allocatable
<1>2. h \in Slots /\ \A c \in Slots : Age(h, c) \in 0 .. TxSize - 1 /\ (h + Age(h, c)) % TxSize = c
  BY SlotAt, AgeFacts DEF Ring
<1>3. \A c \in Slots : blocked(Age(h, c)) <=> Blocked(r.pkt[c])
  BY <1>2
<1>4. \A j \in 0 .. TxSize - 1 : \E c \in Slots : Age(h, c) = j
  BY <1>2, SlotBehind
<1> HIDE DEF blocked, k, h
<1>5. CASE T = {}
  <2>1. S = {} /\ \A j \in 0 .. n - 1 : ~blocked(j)
    BY <1>5
  <2>2. k = n
    BY <1>1, <2>1 DEF AnyOf
  <2>3. \A c \in Slots : Age(h, c) < k => ~Blocked(r.pkt[c])
    BY <1>2, <1>3, <2>1, <2>2
  <2>4. QED BY <2>2, <2>3 DEF k, h
<1>6. CASE T # {}
  <2>1. T \in SUBSET Nat
    OBVIOUS
  <2>2. PICK m \in T : \A j \in T : m <= j
    BY <1>6, <2>1, LeastOf
  <2>3. m \in S
    <3>1. m \in 0 .. n - 1 /\ blocked(m)
      OBVIOUS
    <3>2. \A i \in 0 .. m - 1 : ~blocked(i)
      <4>1. SUFFICES ASSUME NEW i \in 0 .. m - 1, blocked(i) PROVE FALSE
        OBVIOUS
      <4>2. i \in T /\ i < m
        BY <3>1, <4>1
      <4>3. QED BY <2>2, <3>1, <4>2
    <3>3. QED BY <3>1, <3>2
  <2>4. AnyOf(S) \in S
    BY <2>3 DEF AnyOf
  <2>5. k \in S
    <3>1. None \notin S
      BY DEF None
    <3> HIDE DEF S
    <3>2. QED BY <1>1, <2>4, <3>1
  <2>6. k \in 0 .. n - 1 /\ blocked(k) /\ \A i \in 0 .. k - 1 : ~blocked(i)
    BY <2>5
  <2>7. \A c \in Slots : Age(h, c) < k => ~Blocked(r.pkt[c])
    BY <1>2, <1>3, <2>6
  <2>8. ASSUME n <= TxSize, \A c \in Slots : Blocked(r.pkt[c]) => n <= Age(h, c) PROVE k = n
    <3>1. PICK c \in Slots : Age(h, c) = k
      BY <1>4, <2>6, <2>8
    <3>2. QED BY <1>3, <2>6, <2>8, <3>1
  <2>9. QED BY <2>6, <2>7, <2>8 DEF k, h
<1>7. QED BY <1>5, <1>6

\* NBFi_Packets_To_Send counts up to the first slot in use, if it sees that slot.
LEMMA BusyAhead ==
    ASSUME NEW r \in Ring, NEW a, NEW tx,
           \A c \in Slots : Blocked(r.pkt[c]) => c \in Busy(r, a)
    PROVE /\ \A c \in Slots : Blocked(r.pkt[c]) => FreeSlots(r, a, tx) <= Age(r.head, c)
          /\ FreeSlots(r, a, tx) \in 0 .. TxSize
<1> DEFINE B == Busy(r, a)
<1>1. r.head \in Slots /\ B \in SUBSET Slots /\ TxSize \in Nat /\ TxSize > 1
  BY DEF Ring, Busy
<1> HIDE DEF B
<1>2. CASE B # {}
  <2>1. FreeSlots(r, a, tx) = Age(r.head, Oldest(r.head, B))
    BY <1>2 DEF FreeSlots, B
  <2>2. Oldest(r.head, B) \in B /\ \A c \in B : Age(r.head, Oldest(r.head, B)) <= Age(r.head, c)
    BY <1>1, <1>2, OldestLeast
  <2>3. Age(r.head, Oldest(r.head, B)) \in 0 .. TxSize - 1
    BY <1>1, <2>2, AgeFacts
  <2>4. QED BY <1>1, <2>1, <2>2, <2>3 DEF B
<1>3. CASE B = {}
  <2>1. FreeSlots(r, a, tx) = IF tx THEN TxSize - 1 ELSE TxSize
    BY <1>3 DEF FreeSlots, B
  <2>2. QED BY <1>1, <1>3, <2>1 DEF B
<1>4. QED BY <1>2, <1>3

\* The number of packets of a message, and the slots NBFi_Send5 asks for.
LEMMA FragmentsFit ==
    ASSUME NEW len \in Lengths
    PROVE /\ Fragments(len) \in Nat /\ Fragments(len) >= 1
          /\ len <= MaxPayload => Fragments(len) = 1
          /\ ~(len <= MaxPayload) => Fragments(len) <= len \div MaxPayload + 2
          /\ len \div MaxPayload \in Nat
<1> DEFINE D == MaxPayload
           q == len \div D
           b == len % D
           y == len + 3 + D - 1
<1>1. len \in Nat /\ D \in Nat \ {0} /\ D > 3 /\ len \in Int
  BY LengthAssumption
<1>2. q \in Int /\ b \in 0 .. D - 1 /\ len = D * q + b
  BY <1>1, DivMod
<1>3. q \in Nat
  BY <1>1, LengthAssumption
<1>4. CASE len <= D
  BY <1>1, <1>3, <1>4 DEF Fragments
<1>5. CASE ~(len <= D)
  <2>1. Fragments(len) = y \div D
    BY <1>5 DEF Fragments
  <2>2. y \in Int /\ D + 0 <= y
    BY <1>1, <1>5
  <2>3. 1 <= y \div D
    <3>1. D \div D = 1
      BY <1>1
    <3>2. D \in Int /\ D <= y
      BY <1>1, <2>2
    <3> HIDE DEF D, y
    <3>3. D \div D <= y \div D
      BY <1>1, <2>2, <3>2, DivOrder
    <3>4. QED BY <3>1, <3>3
  <2>4. y \div D <= q + 2
    <3> DEFINE x == D * (q + 2) + (D - 1)
    <3> HIDE DEF D, q, b
    <3>1. x \div D = q + 2
      <4>1. q + 2 \in Int /\ D - 1 \in 0 .. D - 1
        BY <1>1, <1>2
      <4>2. QED BY <1>1, <4>1, DivModUnique
    <3>2. D * (q + 2) = D * q + D * 2 /\ D * q \in Int /\ D * 2 = D + D /\ D * (q + 2) \in Int
      <4>1. D \in Int /\ q \in Int /\ 2 \in Int /\ q + 2 \in Int
        BY <1>1, <1>2
      <4>2. D * 2 = D + D
        BY <4>1
      <4>3. QED BY <4>1, <4>2, MulSum
    <3>3. x \in Int /\ y <= x
      BY <1>1, <1>2, <3>2
    <3> HIDE DEF x, y
    <3>4. QED BY <1>1, <2>2, <3>1, <3>3, DivOrder
  <2> HIDE DEF y
  <2>5. Fragments(len) \in Int
    BY <1>1, <2>1, <2>2, DivMod
  <2> HIDE DEF D, q
  <2>6. Fragments(len) \in Nat /\ Fragments(len) >= 1 /\ Fragments(len) <= q + 2
    BY <1>3, <2>1, <2>3, <2>4, <2>5
  <2>7. QED BY <1>3, <1>5, <2>6 DEF D, q
<1>6. QED BY <1>4, <1>5

\* With an ACK for every message, what was sent without asking for one is
\* followed by the packet that asks, with nothing of the stack's own between.
Heeded(r, a) ==
    Mack = 1 /\ InState(r, "SENT_NOACKED") # {} => Urgent(r) = {} /\ r.pkt[a].st # "FREE"

\* A message is queued whole, or not at all.
Send5Queues(len, flags, k) ==
    /\ k = Fragments(len)
    /\ ulIter' = Wrap(ulIter + k)
    /\ notAcked' = IF ~Asks(flags) THEN notAcked
                   ELSE IF k > 1 \/ AckTurn(ulIter) THEN 0 ELSE notAcked + 1
    /\ ring'.head = (ring.head + k) % TxSize
    /\ \A c \in Cells : c \notin NewSlots(ring, k) => ring'.pkt[c] = ring.pkt[c]
    /\ \A c \in NewSlots(ring, k) :
          /\ ~Blocked(ring.pkt[c])
          /\ \E id : ring'.pkt[c] = Fragment(id, len, flags, ulIter, Age(ring.head, c), k,
                                             notAcked, mode)

LEMMA Send5Whole ==
    ASSUME Windowed, BoundedInv, Heeded(ring, active), NEW len \in Lengths,
           NEW flags \in FlagSets, Send5(len, flags)
    PROVE \/ UNCHANGED <<ring, ulIter, notAcked>>
          \/ \E k \in 1 .. TxSize : Send5Queues(len, flags, k)
<1> DEFINE r     == ring
           h     == r.head
           id    == sentId + 1
           n     == Fragments(len)
           k     == Allocatable(r, n)
           first == IF "SAME_TX_ITER" \in flags /\ k > 0 THEN lastIter ELSE ulIter
           free  == FreeSlots(r, active, transmit)
           room  == IF len <= MaxPayload THEN free >= Mack + 3 ELSE free >= len \div MaxPayload + 3
           hs    == Asks(flags) /\ AckMode(mode)
           frag(c) == Fragment(id, len, flags, first, Age(h, c), n, notAcked, mode)
<1>1. /\ r \in Ring /\ h \in Slots /\ ulIter \in Iters /\ notAcked \in Nat
      /\ CountSweep(r, active) = r /\ active \in Cells /\ mode \in {"CRX", "OFF"}
  BY SweepBounded DEF BoundedInv, TypeOK, Ring, Windowed
<1>2. n \in Nat /\ n >= 1 /\ (len <= MaxPayload => n = 1)
  BY FragmentsFit
<1>3. first = ulIter /\ (hs <=> Asks(flags))
  BY <1>1 DEF Windowed, AckMode
<1>4. /\ k \in 0 .. n
      /\ \A c \in Slots : Age(h, c) < k => ~Blocked(r.pkt[c])
      /\ n <= TxSize /\ (\A c \in Slots : Blocked(r.pkt[c]) => n <= Age(h, c)) => k = n
  BY <1>1, <1>2, AllocatableFacts
<1>5. CASE ~room
  BY <1>1, <1>5 DEF Send5
<1>6. CASE room
  <2>1. /\ ring' = [pkt |-> [c \in Cells |-> IF c \in Slots /\ Age(h, c) < k
                                             THEN frag(c) ELSE r.pkt[c]],
                    head |-> (h + k) % TxSize]
        /\ ulIter' = Wrap(first + k)
        /\ notAcked' = IF k < n \/ ~hs THEN notAcked
                       ELSE IF n > 1 \/ AckTurn(first) THEN 0 ELSE notAcked + 1
    <3>1. /\ ring' = [pkt |-> [c \in Cells |-> IF /\ c \in Slots
                                                  /\ Age(CountSweep(r, active).head, c) < k
                                               THEN Fragment(id, len, flags, first,
                                                     Age(CountSweep(r, active).head, c),
                                                     n, notAcked, mode)
                                               ELSE CountSweep(r, active).pkt[c]],
                      head |-> (CountSweep(r, active).head + k) % TxSize]
      BY <1>1, <1>6 DEF Send5
    <3>2. /\ ulIter' = Wrap(first + k)
          /\ notAcked' = IF k < n \/ ~hs THEN notAcked
                         ELSE IF n > 1 \/ AckTurn(first) THEN 0 ELSE notAcked + 1
      BY <1>1, <1>6 DEF Send5
    <3> HIDE DEF k, n, first, id
    <3>3. QED BY <1>1, <3>1, <3>2
  <2>2. k = 0 \/ (k = n /\ n <= TxSize)
    <3>1. CASE Mack = 1
      <4>1. \A c \in Slots : Blocked(r.pkt[c]) => c \in Busy(r, active)
        BY <3>1 DEF Blocked, Busy, Heeded, InState
      <4>2. /\ \A c \in Slots : Blocked(r.pkt[c]) => free <= Age(h, c)
            /\ free \in 0 .. TxSize
        BY <1>1, <4>1, BusyAhead
      <4>3. n <= free
        <5>1. CASE len <= MaxPayload
          <6>1. free >= Mack + 3
            BY <1>6, <5>1
          <6> HIDE DEF free, n
          <6>2. QED BY <1>2, <3>1, <4>2, <5>1, <6>1
        <5>2. CASE ~(len <= MaxPayload)
          <6>1. free >= len \div MaxPayload + 3
            BY <1>6, <5>2
          <6>2. n <= len \div MaxPayload + 2 /\ len \div MaxPayload \in Nat
            BY <5>2, FragmentsFit
          <6> DEFINE q == len \div MaxPayload
          <6> HIDE DEF free, n, q
          <6>3. QED BY <1>2, <4>2, <6>1, <6>2 DEF q
        <5>3. QED BY <5>1, <5>2
      <4>4. \A c \in Slots : Age(h, c) \in Int
        BY <1>1, AgeFacts
      <4> HIDE DEF free, n, k, h
      <4>5. n <= TxSize /\ \A c \in Slots : Blocked(r.pkt[c]) => n <= Age(h, c)
        BY <1>2, <4>2, <4>3, <4>4
      <4>6. QED BY <1>4, <4>5
    <3>2. CASE Mack # 1
      <4>1. n = 1
        BY <1>2, <3>2 DEF Windowed
      <4> HIDE DEF n, k
      <4>2. QED BY <1>4, <4>1
    <3>3. QED BY <3>1, <3>2
  <2>3. CASE k = 0
    <3>1. ulIter' = Wrap(ulIter + 0) /\ notAcked' = notAcked
      <4> HIDE DEF first, hs, n, k
      <4>1. QED BY <1>2, <1>3, <2>1, <2>3
    <3>2. ulIter' = ulIter
      <4>1. ulIter + 0 = ulIter /\ ulIter \in 0 .. IterMod - 1
        BY <1>1 DEF Iters
      <4>2. ulIter % IterMod = ulIter
        BY <4>1, ModSmall
      <4>3. QED BY <3>1, <4>1, <4>2 DEF Wrap
    <3>3. ring' = r
      <4>1. \A c \in Slots : Age(h, c) >= 0
        BY <1>1, AgeFacts
      <4>2. (h + 0) % TxSize = h
        <5>1. h + 0 = h /\ h \in 0 .. TxSize - 1
          BY <1>1 DEF Slots
        <5>2. h % TxSize = h
          BY <5>1, ModSmall
        <5>3. QED BY <5>1, <5>2
      <4>3. r.pkt \in [Cells -> Packet] /\ r = [pkt |-> r.pkt, head |-> r.head]
        BY <1>1 DEF Ring
      <4> HIDE DEF frag, k
      <4>4. \A c \in Slots : ~(Age(h, c) < 0)
        BY <1>1, <4>1, AgeFacts
      <4>5. ring'.pkt = r.pkt
        BY <2>1, <2>3, <4>3, <4>4
      <4>6. ring'.head = h
        BY <2>1, <2>3, <4>2
      <4>7. ring' = [pkt |-> ring'.pkt, head |-> ring'.head]
        BY <2>1
      <4>8. QED BY <4>3, <4>5, <4>6, <4>7
    <3>4. QED BY <3>1, <3>2, <3>3
  <2>4. CASE k = n /\ n <= TxSize
    <3>1. k \in 1 .. TxSize
      <4> HIDE DEF k, n
      <4>1. QED BY <1>2, <2>4
    <3>2. ulIter' = Wrap(ulIter + k)
      BY <1>3, <2>1
    <3>3. notAcked' = IF ~Asks(flags) THEN notAcked
                      ELSE IF k > 1 \/ AckTurn(ulIter) THEN 0 ELSE notAcked + 1
      <4>1. ~(k < n)
        <5> HIDE DEF k, n
        <5>1. QED BY <1>2, <2>4
      <4> HIDE DEF first, hs, n, k
      <4>2. QED BY <1>3, <2>1, <2>4, <4>1
    <3> HIDE DEF frag, k, n, first
    <3>4. /\ ring'.head = (h + k) % TxSize
          /\ \A c \in Cells : ring'.pkt[c] = IF c \in Slots /\ Age(h, c) < k
                                             THEN frag(c) ELSE r.pkt[c]
      BY <2>1
    <3>5. \A c \in Cells : c \notin NewSlots(r, k) => ring'.pkt[c] = r.pkt[c]
      BY <3>4 DEF NewSlots
    <3>6. ASSUME NEW c \in NewSlots(r, k)
          PROVE /\ ~Blocked(r.pkt[c])
                /\ \E x : ring'.pkt[c] =
                             Fragment(x, len, flags, ulIter, Age(h, c), k, notAcked, mode)
      <4>1. c \in Slots /\ Age(h, c) < k /\ c \in Cells
        BY CellFacts DEF NewSlots
      <4>2. ring'.pkt[c] = frag(c)
        BY <3>4, <4>1
      <4>3. frag(c) = Fragment(id, len, flags, ulIter, Age(h, c), k, notAcked, mode)
        BY <1>3, <2>4 DEF frag
      <4> HIDE DEF id
      <4>4. QED BY <1>4, <4>1, <4>2, <4>3
    <3>7. k = Fragments(len)
      BY <2>4 DEF n
    <3>8. Send5Queues(len, flags, k)
      BY <3>2, <3>3, <3>4, <3>5, <3>6, <3>7 DEF Send5Queues
    <3>9. QED BY <3>1, <3>8
  <2>5. QED BY <2>2, <2>3, <2>4
<1>7. QED BY <1>5, <1>6

-----------------------------------------------------------------------------
\* A turn of the ITERs is a whole number of windows.
LEMMA TurnOfWindows ==
    /\ Mack \in Nat \ {0} /\ IterMod \in Nat \ {0} /\ Mack <= IterMod
    /\ \A n \in Nat : (n % IterMod) % Mack = n % Mack
<1> DEFINE p == IterMod \div Mack
<1>1. Mack \in Nat \ {0} /\ IterMod \in Nat \ {0} /\ IterMod % Mack = 0 /\ IterMod \in Int
  OBVIOUS
<1>2. p \in Int /\ IterMod = Mack * p + (IterMod % Mack)
  BY <1>1, DivMod
<1> HIDE DEF p
<1>3. IterMod = Mack * p /\ Mack * p \in Int
  <2>1. Mack * p \in Int
    BY <1>1, <1>2, MulSum
  <2>2. QED BY <1>1, <1>2, <2>1
<1>4. Mack <= IterMod
  <2>1. p >= 1
    <3>1. SUFFICES ASSUME p <= 0 PROVE FALSE
      BY <1>2
    <3>2. Mack * p <= Mack * 0 /\ Mack * 0 = 0
      BY <1>1, <1>2, <3>1, MulOrder
    <3>3. QED BY <1>1, <1>3, <3>2
  <2>2. Mack * 1 <= Mack * p /\ Mack * 1 = Mack
    BY <1>1, <1>2, <2>1, MulOrder
  <2>3. QED BY <1>3, <2>2
<1>5. ASSUME NEW n \in Nat PROVE (n % IterMod) % Mack = n % Mack
  <2> DEFINE q == n \div IterMod
             r == n % IterMod
  <2>1. q \in Int /\ r \in 0 .. IterMod - 1 /\ n = IterMod * q + r
    BY <1>1, DivMod
  <2> HIDE DEF q, r
  <2>2. PICK z \in Int : z = p * q
    BY <1>2, <2>1, MulSum
  <2>3. Mack * z = IterMod * q
    <3>1. Mack * z = (Mack * p) * q
      BY <1>1, <1>2, <2>1, <2>2
    <3>2. QED BY <1>3, <3>1
  <2>4. (r + Mack * z) % Mack = r % Mack
    <3>1. r \in Int /\ Mack \in Nat \ {0}
      BY <1>1, <2>1
    <3>2. QED BY <3>1, ModAdd, Zenon
  <2>5. n = r + Mack * z
    BY <1>1, <2>1, <2>3, MulSum
  <2>6. QED BY <2>4, <2>5 DEF r
<1>6. QED BY <1>1, <1>4, <1>5

\* The packets since the last ACK request are fewer than mack_mode.
LEMMA TailShort ==
    ASSUME NEW n \in Nat, NEW w \in Nat, TailFits(n, w) PROVE w < Mack
<1>1. SUFFICES ASSUME Mack <= w PROVE FALSE
  OBVIOUS
<1>2. /\ Mack \in Nat \ {0} /\ w <= n /\ n - 1 \in Int
      /\ \A x \in Nat : InTail(x, n, w) => x % Mack # 0
  BY <1>1 DEF TailFits
<1> DEFINE q == (n - 1) \div Mack
           b == (n - 1) % Mack
           x == Mack * q + 0
<1>3. q \in Int /\ b \in 0 .. Mack - 1 /\ n - 1 = Mack * q + b
  BY <1>2, DivMod
<1>4. x % Mack = 0
  <2> HIDE DEF q
  <2>1. 0 \in 0 .. Mack - 1
    BY <1>2
  <2>2. QED BY <1>2, <1>3, <2>1, DivModUnique
<1> HIDE DEF q, b
<1>5. Mack * q \in Int
  BY <1>2, <1>3, MulSum
<1>6. x \in Nat /\ InTail(x, n, w)
  <2>1. x = n - 1 - b
    BY <1>2, <1>3, <1>5
  <2> HIDE DEF x
  <2>2. QED BY <1>1, <1>2, <1>3, <2>1 DEF InTail
<1>7. QED BY <1>2, <1>4, <1>6

\* What becomes of the packets since the last request when one more is queued.
LEMMA TailLonger ==
    ASSUME NEW n \in Nat, NEW w \in Nat, TailFits(n, w), Mack # 1, Handshake,
           ~AckTurn(n % IterMod)
    PROVE TailFits(n + 1, w + 1)
<1>1. n % Mack # 0
  BY TurnOfWindows DEF AckTurn
<1>2. \A x \in Nat : InTail(x, n + 1, w + 1) => x = n \/ InTail(x, n, w)
  BY DEF InTail
<1>3. w <= n /\ \A x \in Nat : InTail(x, n, w) => x % Mack # 0
  BY DEF TailFits
<1>4. QED BY <1>1, <1>2, <1>3 DEF TailFits

LEMMA TailNone == ASSUME NEW n \in Nat PROVE TailFits(n, 0)
<1>1. \A x \in Nat : ~InTail(x, n, 0)
  BY DEF InTail
<1>2. QED BY <1>1 DEF TailFits

\* The packets NBFi_Send5 queues.
LEMMA FragmentIs ==
    ASSUME NEW id, NEW len, NEW flags, NEW first, NEW j, NEW k, NEW w, NEW m
    PROVE LET p == Fragment(id, len, flags, first, j, k, w, m)
          IN  /\ p.st = "QUEUED" /\ p.kind \in AppKinds /\ p.iter = Wrap(first + j)
              /\ p.hs = Asks(flags)
              /\ p.ack = (Asks(flags) /\ AckMode(m) /\ j = k - 1 /\ (k > 1 \/ AckTurn(first)))
              /\ p.mack = IF p.ack THEN w + k ELSE 0
<1> DEFINE p == Fragment(id, len, flags, first, j, k, w, m)
<1>1. p.st = "QUEUED" /\ p.iter = Wrap(first + j) /\ p.kind \in {"SHORT", "START", "DATA"}
  BY Zenon DEF Fragment
<1>2. /\ p.hs = Asks(flags)
      /\ p.ack = (Asks(flags) /\ AckMode(m) /\ j = k - 1 /\ (k > 1 \/ AckTurn(first)))
  BY Zenon DEF Fragment
<1>3. p.mack = IF p.ack THEN w + k ELSE 0
  BY Zenon DEF Fragment
<1> HIDE DEF p
<1>4. QED BY <1>1, <1>2, <1>3 DEF p, AppKinds

LEMMA Send5Windows ==
    ASSUME Windowed, BoundedInv, Heeded(ring, active), TypeOK', NEW len \in Lengths,
           NEW flags \in FlagSets, Send5(len, flags), NEW f \in [Slots -> Nat], NEW n \in Nat,
           n % IterMod = ulIter, Windows(ring, active, f, n, notAcked)
    PROVE WindowsHold(ring', active', ulIter', notAcked')
<1>1. /\ ring \in Ring /\ ring' \in Ring /\ active \in Cells /\ active' = active
      /\ notAcked \in Nat /\ mode \in {"CRX", "OFF"} /\ TailFits(n, notAcked)
  BY DEF BoundedInv, TypeOK, Windowed, Send5, Windows
<1>2. CASE UNCHANGED <<ring, ulIter, notAcked>>
  BY <1>1, <1>2 DEF WindowsHold
<1>3. ASSUME NEW k \in 1 .. TxSize, Send5Queues(len, flags, k)
      PROVE WindowsHold(ring', active', ulIter', notAcked')
  <2> DEFINE h == ring.head
             S == NewSlots(ring, k)
             w == notAcked
             hs == Asks(flags)
             asked == k > 1 \/ AckTurn(ulIter)
             g == Renumber(ring, f, k, n)
             m == n + k
  <2>1. /\ k = Fragments(len) /\ ulIter' = Wrap(ulIter + k)
        /\ w' = IF ~hs THEN w ELSE IF asked THEN 0 ELSE w + 1
        /\ ring'.head = (h + k) % TxSize
        /\ \A c \in Cells : c \notin S => ring'.pkt[c] = ring.pkt[c]
        /\ \A c \in S : /\ ~Blocked(ring.pkt[c])
                        /\ \E id : ring'.pkt[c] =
                                Fragment(id, len, flags, ulIter, Age(h, c), k, w, mode)
    BY <1>3 DEF Send5Queues
  <2>2. k \in Nat /\ 1 <= k /\ hs \in BOOLEAN /\ AckMode(mode)
    <3>1. AckMode(mode)
      BY <1>1 DEF AckMode
    <3>2. hs \in BOOLEAN
      BY ModeAssumption DEF Asks
    <3> HIDE DEF hs
    <3>3. QED BY <3>1, <3>2
  <2>3. \A c \in S : c \in Slots /\ Age(h, c) \in 0 .. k - 1 /\ Age(h, c) \in Nat
    BY <1>1, RenumberFacts
  <2>4. ASSUME NEW c \in S
        PROVE /\ ring'.pkt[c].st = "QUEUED" /\ ring'.pkt[c].kind \in AppKinds
              /\ ring'.pkt[c].iter = Wrap(ulIter + Age(h, c))
              /\ ring'.pkt[c].hs = hs
              /\ ring'.pkt[c].ack = (hs /\ AckMode(mode) /\ Age(h, c) = k - 1 /\ asked)
              /\ ring'.pkt[c].mack = IF ring'.pkt[c].ack THEN w + k ELSE 0
    <3>1. PICK id : ring'.pkt[c] = Fragment(id, len, flags, ulIter, Age(h, c), k, w, mode)
      BY <2>1
    <3> DEFINE p == Fragment(id, len, flags, ulIter, Age(h, c), k, w, mode)
    <3>2. /\ p.st = "QUEUED" /\ p.kind \in AppKinds /\ p.iter = Wrap(ulIter + Age(h, c))
          /\ p.hs = hs
          /\ p.ack = (hs /\ AckMode(mode) /\ Age(h, c) = k - 1 /\ asked)
          /\ p.mack = IF p.ack THEN w + k ELSE 0
      BY FragmentIs
    <3>3. ring'.pkt[c] = p
      BY <3>1
    <3> HIDE DEF p
    <3>4. QED BY <3>2, <3>3
  <2>5. Mack # 1 => k = 1
    BY <2>1, FragmentsFit DEF Windowed
  <2>6. w + k <= IterMod
    <3>1. CASE Mack = 1
      <4>1. w = 0
        BY <1>1, <3>1 DEF TailFits
      <4>2. k <= IterMod
        BY <2>1 DEF Windowed
      <4>3. QED BY <4>1, <4>2
    <3>2. CASE Mack # 1
      <4>1. w < Mack /\ Mack <= IterMod
        BY <1>1, TailShort, TurnOfWindows
      <4>2. QED BY <1>1, <2>5, <3>2, <4>1
    <3>3. QED BY <3>1, <3>2
  <2>7. ASSUME NEW c \in S PROVE PktShaped(ring'.pkt[c])
    <3> DEFINE p == ring'.pkt[c]
    <3>1. p.st = "QUEUED" /\ p.kind \in AppKinds /\ p.kind \in StampKinds /\ p.kind # "HEARTBEAT"
      BY <2>4 DEF StampKinds, AppKinds
    <3>2. p.ack => p.hs
      BY <2>4
    <3>3. p.ack => 0 < p.mack /\ p.mack <= IterMod
      <4>1. p.ack => p.mack = w + k
        BY <2>4
      <4>2. 0 < w + k
        BY <1>1, <2>2
      <4> HIDE DEF p, w
      <4>3. QED BY <2>6, <4>1, <4>2
    <3> HIDE DEF p
    <3>4. PktShaped(p)
      BY <3>1, <3>2, <3>3 DEF PktShaped
    <3>5. QED BY <3>4 DEF p
  <2>8. Appended(ring, ring', k, n)
    <3>1. ASSUME NEW c \in S PROVE ring'.pkt[c].iter = (n + Age(h, c)) % IterMod
      <4> DEFINE x == Age(h, c)
      <4>1. ring'.pkt[c].iter = Wrap(ulIter + x) /\ x \in Nat
        BY <2>3, <2>4
      <4> HIDE DEF x
      <4>2. Wrap((n % IterMod) + x) = (n + x) % IterMod
        BY <4>1, WrapPlus
      <4>3. QED BY <4>1, <4>2 DEF x
    <3>2. \A c \in S : ring'.pkt[c].st = "QUEUED" /\ ring'.pkt[c].kind \in StampKinds
      BY <2>4 DEF StampKinds
    <3>3. \A c \in S : ~Blocked(ring.pkt[c])
      BY <2>1
    <3>4. ring'.head = (h + k) % TxSize /\ \A c \in Cells : c \notin S => ring'.pkt[c] = ring.pkt[c]
      BY <2>1
    <3>5. QED BY <2>7, <3>1, <3>2, <3>3, <3>4 DEF Appended
  <2>9. m % IterMod = ulIter'
    <3>1. Wrap((n % IterMod) + k) = (n + k) % IterMod
      BY <2>2, WrapPlus
    <3>2. QED BY <2>1, <3>1
  <2>10. m \in Nat /\ w' \in Nat
    BY <2>2 DEF TypeOK
  <2>11. TailFits(m, w') /\ Fits(ring', S, g, n, w, m, w')
    <3>1. CASE ~hs
      <4>1. w = 0
        <5>1. CASE Mack = 1
          BY <1>1, <5>1 DEF TailFits
        <5>2. CASE Mack # 1
          <6>1. "NOACK" \notin flags
            BY <5>2 DEF Windowed
          <6>2. ~Handshake
            BY <3>1, <6>1 DEF Asks
          <6>3. QED BY <1>1, <6>2 DEF TailFits
        <5>3. QED BY <5>1, <5>2
      <4>2. w' = 0
        BY <2>1, <3>1, <4>1
      <4>3. \A c \in S : ~ring'.pkt[c].hs /\ ~ring'.pkt[c].ack
        BY <2>4, <3>1
      <4>4. Fits(ring', S, g, n, 0, m, 0)
        BY <1>1, <4>3, FitsUnheard
      <4>5. TailFits(m, 0)
        BY <2>10, TailNone
      <4> HIDE DEF S, g, m
      <4>6. QED BY <4>1, <4>2, <4>4, <4>5
    <3>2. CASE hs /\ asked
      <4>1. w' = 0
        BY <2>1, <3>2
      <4>2. \A c \in S : /\ ring'.pkt[c].st = "QUEUED" /\ ring'.pkt[c].kind \in AppKinds
                         /\ ring'.pkt[c].hs
                         /\ ring'.pkt[c].ack <=> Age(h, c) = k - 1
                         /\ ring'.pkt[c].ack => ring'.pkt[c].mack = w + k
        <5> SUFFICES ASSUME NEW c \in S
                     PROVE /\ ring'.pkt[c].st = "QUEUED" /\ ring'.pkt[c].kind \in AppKinds
                           /\ ring'.pkt[c].hs
                           /\ ring'.pkt[c].ack <=> Age(h, c) = k - 1
                           /\ ring'.pkt[c].ack => ring'.pkt[c].mack = w + k
          OBVIOUS
        <5>1. ring'.pkt[c].st = "QUEUED" /\ ring'.pkt[c].kind \in AppKinds
          BY <2>4
        <5>2. ring'.pkt[c].hs
          BY <2>4, <3>2
        <5>3. ring'.pkt[c].ack <=> Age(h, c) = k - 1
          BY <2>2, <2>4, <3>2
        <5>4. ring'.pkt[c].ack => ring'.pkt[c].mack = w + k
          BY <2>4
        <5>5. QED BY <5>1, <5>2, <5>3, <5>4
      <4>3. Fits(ring', S, g, n, w, m, 0)
        BY <1>1, <4>2, FitsAsked
      <4>4. TailFits(m, 0)
        BY <2>10, TailNone
      <4> HIDE DEF S, g, m
      <4>5. QED BY <4>1, <4>3, <4>4
    <3>3. CASE hs /\ ~asked
      <4>1. w' = w + 1
        BY <2>1, <3>3
      <4>2. k = 1 /\ ~AckTurn(ulIter) /\ Handshake
        BY <2>2, <3>3 DEF Asks
      <4>3. Mack # 1
        <5>1. SUFFICES ASSUME Mack = 1 PROVE FALSE
          OBVIOUS
        <5>2. ulIter \in Int
          BY DEF BoundedInv, TypeOK, Iters
        <5>3. ulIter % 1 = 0
          BY <5>2
        <5>4. QED BY <4>2, <5>1, <5>3 DEF AckTurn
      <4>4. TailFits(n + 1, w + 1)
        BY <1>1, <4>2, <4>3, TailLonger
      <4>5. \A c \in NewSlots(ring, 1) : /\ ring'.pkt[c].kind \in AppKinds
                                         /\ ring'.pkt[c].hs /\ ~ring'.pkt[c].ack
        BY <2>4, <3>3, <4>2
      <4>6. Fits(ring', NewSlots(ring, 1), Renumber(ring, f, 1, n), n, w, n + 1, w + 1)
        BY <1>1, <4>5, FitsSilent
      <4>7. QED BY <4>1, <4>2, <4>4, <4>6
    <3>4. QED BY <2>2, <3>1, <3>2, <3>3
  <2>12. Windows(ring', active, g, m, w') /\ g \in [Slots -> Nat]
    BY <1>1, <2>8, <2>10, <2>11, AppendWindows
  <2> HIDE DEF g
  <2>13. QED BY <1>1, <2>9, <2>10, <2>12 DEF WindowsHold
<1>4. QED BY <1>2, <1>3, Send5Whole

-----------------------------------------------------------------------------
(***************************************************************************)
(* With an ACK for every message, a group under way keeps the stack's own  *)
(* packets out until its last packet waits for the ACK.                    *)
(***************************************************************************)
Hushed(r) == InState(r, "SENT_NOACKED") = {}

HeedStep == Heeded(ring', active') /\ (Hushed(ring) => Hushed(ring'))

LEMMA HushedHeeds == ASSUME NEW r, NEW a, Hushed(r) PROVE Heeded(r, a)
BY DEF Hushed, Heeded

\* No packet becomes urgent or SENT_NOACKED, and the active one is not freed.
LEMMA HeedKept ==
    ASSUME Heeded(ring, active), ring.pkt[active].st # "FREE" => ring'.pkt[active'].st # "FREE",
           \A c \in Slots : ring'.pkt[c].st \in {"SENT_NOACKED", "NEED_TO_SEND_RIGHT_NOW"}
               => ring.pkt[c].st = ring'.pkt[c].st
    PROVE HeedStep
BY DEF HeedStep, Heeded, Hushed, InState, Urgent

LEMMA HushedAlloc ==
    ASSUME NEW r \in Ring, NEW p, p.st # "SENT_NOACKED", Hushed(r) PROVE Hushed(Alloc(r, p))
<1>1. CASE ~CanAlloc(r)
  BY <1>1 DEF Alloc
<1>2. CASE CanAlloc(r)
  <2>1. \A c \in Slots : Alloc(r, p).pkt[c] = IF c = r.head THEN p ELSE r.pkt[c]
    BY <1>2, AllocCells
  <2>2. QED BY <2>1 DEF Hushed, InState
<1>3. QED BY <1>1, <1>2

LEMMA HushedSync ==
    ASSUME NEW r \in Ring, NEW i, Hushed(r) PROVE Hushed(SendSync(r, i))
<1> DEFINE q == SendSync(r, i)
<1>1. \A c \in Cells : \/ q.pkt[c] = SyncFreed(r, i, c)
                       \/ q.pkt[c] = SysPkt("SYNC", "NEED_TO_SEND_RIGHT_NOW", i)
  BY SendSyncCells
<1>2. \A c \in Cells : SyncFreed(r, i, c).st = "FREE" \/ SyncFreed(r, i, c) = r.pkt[c]
  BY DEF SyncFreed, FreePkt
<1>3. SysPkt("SYNC", "NEED_TO_SEND_RIGHT_NOW", i).st = "NEED_TO_SEND_RIGHT_NOW"
  BY DEF SysPkt, FreePkt
<1> HIDE DEF q
<1>4. \A c \in Slots : q.pkt[c].st = "SENT_NOACKED" => r.pkt[c].st = "SENT_NOACKED"
  BY <1>1, <1>2, <1>3, CellFacts
<1>5. QED BY <1>4 DEF Hushed, InState, q

LEMMA HushedClear ==
    ASSUME NEW r \in Ring, NEW i, Hushed(r) PROVE Hushed(SendClear(r, i))
<1>1. SysPkt("CLEAR_EXT", "NEED_TO_SEND_RIGHT_NOW", i).st # "SENT_NOACKED"
  BY DEF SysPkt, FreePkt
<1>2. QED BY <1>1, HushedAlloc DEF SendClear

LEMMA HushedAsk ==
    ASSUME NEW r \in Ring, NEW a, NEW s \in Cells, Hushed(r) PROVE Hushed(AskAgain(r, a, s))
<1>1. \A c \in Slots : AskAgain(r, a, s).pkt[c].st = r.pkt[c].st
  BY AskAgainAlike, CellFacts
<1>2. QED BY <1>1 DEF Hushed, InState

\* After an ACK every packet of the window has its answer or is sent again.
LEMMA ResendHushed ==
    ASSUME TypeOK, NEW r \in Ring, NEW f \in [Slots -> Nat], NEW n \in Nat, NEW w \in Nat,
           NEW has, NEW policy, Windows(r, active, f, n, w), OneWaits(r, active),
           r.pkt[active].st = "WAIT_ACK", r.pkt[active].iter \in has, IterMod <= 64
    PROVE Hushed(Resend(r, active, has, policy).ring)
<1> DEFINE a == active
           t == Closed(r, a, has)
           r1 == IF GivenUp(r, a, has) = {} THEN Marked(r, a, has)
                 ELSE AfterLoss(CloseActive(Marked(r, a, has), a), policy)
           u1 == GaveUpStatus(r, a, has, ul)
           k0 == FirstAbsent(r, a, has)
           s  == At(r, a, k0)
           r2 == IF LeftOver(r, a, has) = {} THEN SendClear(r1, r1.pkt[a].iter) ELSE r1
           q  == Resend(r, a, has, policy).ring
<1>1. a \in Slots /\ a \in Cells /\ ulIter \in Iters
  BY CellFacts DEF TypeOK, Windows, Shaped
<1>2. t \in Ring
  BY <1>1, ClosedType
<1>3. r1 = t \/ r1 = AfterLoss(t, policy)
  BY DEF Closed
<1>4. r1 \in Ring
  <2> HIDE DEF t, r1
  <2>1. AfterLoss(t, policy) \in Ring
    BY <1>1, <1>2, AfterLossType
  <2>2. QED BY <1>2, <1>3, <2>1
<1>5. q = IF k0 # None THEN AskAgain(r1, a, s) ELSE r2
  BY DEF Resend
<1>6. Hushed(t)
  <2>1. CASE r.pkt[a].kind \in AppKinds
    <3>1. Waiting(r, a, f, n, w)
      BY <2>1 DEF Waiting
    <3>2. SUFFICES ASSUME NEW c \in Slots, t.pkt[c].st = "SENT_NOACKED" PROVE FALSE
      BY DEF Hushed, InState
    <3>3. c \in Cells /\ c # Idle
      BY CellFacts
    <3>4. t.pkt[c] = r.pkt[c] /\ (c \notin Stamps(r) \/ r.pkt[c].st = "QUEUED")
      BY <1>1, <3>1, <3>2, <3>3, ClosedCell
    <3>5. r.pkt[c].st = "SENT_NOACKED" /\ PktShaped(r.pkt[c])
      BY <3>2, <3>4 DEF Windows, Shaped
    <3>6. QED BY <3>4, <3>5 DEF PktShaped, Stamps, Stamped
  <2>2. CASE r.pkt[a].kind \notin AppKinds
    <3>1. Hushed(r)
      <4>1. SUFFICES ASSUME NEW c \in Slots, r.pkt[c].st = "SENT_NOACKED" PROVE FALSE
        BY DEF Hushed, InState
      <4>2. QED BY <1>1, <2>2, <4>1, InFlight
    <3>2. r.pkt[a].mack = 0
      <4>1. PktShaped(r.pkt[a]) /\ r.pkt[a].st = "WAIT_ACK"
        BY <1>1 DEF Windows, Shaped
      <4>2. QED BY <2>2, <4>1 DEF PktShaped, StampKinds
    <3>3. AckWindow(r, a) = {}
      BY <3>2 DEF AckWindow
    <3>4. Stops(r, a, has) = {} /\ Walked(r, a, has) = {}
      BY <3>3 DEF Stops, Walked
    <3>5. GivenUp(r, a, has) = {} /\ Absent(r, a, has) = {}
      BY <3>4 DEF GivenUp, Absent
    <3>6. \A c \in Cells : t.pkt[c] = r.pkt[c]
      BY <3>4, <3>5 DEF Closed, Marked, Ring
    <3> HIDE DEF t
    <3>7. QED BY <3>1, <3>6, CellFacts DEF Hushed, InState
  <2>3. QED BY <2>1, <2>2
<1>7. Hushed(r1)
  <2> HIDE DEF t, r1
  <2>1. Hushed(AfterLoss(t, policy))
    BY <1>2, <1>6, HushedSync DEF AfterLoss
  <2>2. QED BY <1>3, <1>6, <2>1
<1>8. k0 # None => s \in Cells
  <2>1. SUFFICES ASSUME k0 # None PROVE s \in Cells
    OBVIOUS
  <2>2. k0 \in Walked(r, a, has)
    BY <1>1, <2>1, FirstAbsentFacts DEF Absent
  <2>3. s # None
    <3>1. k0 \in AckWindow(r, a) /\ k0 \in Int
      <4>1. k0 \in AckWindow(r, a)
        BY <2>2 DEF Walked
      <4> HIDE DEF k0
      <4>2. QED BY <4>1 DEF AckWindow
    <3>2. k0 \notin Stops(r, a, has)
      <4> HIDE DEF k0
      <4> QED BY <2>2, <3>1 DEF Walked
    <3>3. QED BY <3>1, <3>2 DEF Stops
  <2>4. QED BY <2>3, SentByIterIn, CellFacts DEF At
<1> HIDE DEF r1, k0, s
<1>9. Hushed(r2)
  BY <1>4, <1>7, HushedClear
<1>10. k0 # None => Hushed(AskAgain(r1, a, s))
  BY <1>4, <1>7, <1>8, HushedAsk
<1> HIDE DEF r2
<1>11. QED BY <1>5, <1>9, <1>10

LEMMA RxAckHeeds ==
    ASSUME BoundedInv, Heeded(ring, active), IterMod <= 64, RxAck, NEW f \in [Slots -> Nat],
           NEW n \in Nat, NEW w \in Nat, Windows(ring, active, f, n, w)
    PROVE HeedStep
<1> DEFINE a == active
<1>1. /\ a \in Cells /\ ring \in Ring /\ RingBounded(ring, a) /\ OneWaits(ring, a) /\ TypeOK
      /\ Restored(ring) = ring /\ active' = a
  BY RestoredIs, BoundedWaits DEF BoundedInv, TypeOK, RxAck
<1>2. ring' = ring => HeedStep
  BY <1>1 DEF HeedStep
<1>3. CASE AckAccepted(ring, station.reply)
  <2>1. PICK policy \in LossPolicies :
          ring' = LookAtQueue(TakeAck(ring, station.reply, policy).ring, a)
    BY <1>1, <1>3 DEF RxAck
  <2> DEFINE t == TakeAck(ring, station.reply, policy).ring
             p == ring.pkt[a]
  <2>2. t \in Ring
    BY <1>1, TakeAckType
  <2>3. p.st = "WAIT_ACK" /\ p.iter = station.reply.iter
    BY <1>3 DEF AckAccepted
  <2>4. CASE station.reply.type = "ACK" /\ p.mack # 0
    <3>1. p.iter \in station.reply.has
      BY <2>3, <2>4 DEF BoundedInv, ReplyHolds
    <3>2. t = Resend(ring, a, station.reply.has, policy).ring
      BY <2>4 DEF TakeAck
    <3>3. Hushed(t)
      BY <1>1, <2>3, <3>1, <3>2, ResendHushed
    <3>4. RingBounded(t, a)
      BY <1>1, <3>1, <3>2, ResendBounded
    <3> HIDE DEF t
    <3>5. ring' = t
      BY <1>1, <2>1, <2>2, <3>4, SweepBounded DEF t
    <3>6. QED BY <3>3, <3>5, HushedHeeds DEF HeedStep
  <2>5. CASE p.mack = 0
    <3> DEFINE z == TakeAck(ring, station.reply, policy)
    <3> HIDE DEF z, p
    <3>1. PICK d \in Packet, r1 \in Ring :
            /\ AsDelivered(d, p)
            /\ r1 = SetPkt(ring, a, d) /\ r1.head = ring.head
            /\ \A c \in Cells : r1.pkt[c] = IF c = a THEN d ELSE ring.pkt[c]
            /\ z.ring = r1 \/ z.ring = SendClear(r1, d.iter)
      BY <1>1, <2>5, TakeAckEmpty DEF z, p
    <3>2. RingBounded(r1, a) /\ RingBounded(z.ring, a)
      <4>1. PktBounded(p, a = a)
        BY <1>1 DEF RingBounded, p
      <4>2. PktBounded(d, a = a)
        BY <3>1, <4>1 DEF PktBounded, AsDelivered
      <4>3. RingBounded(r1, a)
        BY <1>1, <3>1, <4>2, BoundedSet
      <4>4. QED BY <3>1, <4>3, SendClearBounded
    <3>3. ring' = z.ring
      BY <1>1, <2>1, <2>2, <3>2, SweepBounded DEF z
    <3>4. a \in Slots
      BY <1>1, <2>3, CellFacts DEF Windows, Shaped, p
    <3>5. Hushed(ring)
      <4>1. SUFFICES ASSUME NEW c \in Slots, ring.pkt[c].st = "SENT_NOACKED" PROVE FALSE
        BY DEF Hushed, InState
      <4>2. p.kind \in AppKinds
        BY <1>1, <2>3, <3>4, <4>1, InFlight DEF p
      <4>3. PktShaped(p)
        BY <3>4 DEF Windows, Shaped, p
      <4>4. QED BY <2>3, <2>5, <4>2, <4>3 DEF PktShaped
    <3>6. Hushed(r1)
      BY <3>1, <3>5, CellFacts DEF Hushed, InState, AsDelivered
    <3>7. Hushed(z.ring)
      BY <3>1, <3>6, HushedClear
    <3>8. QED BY <3>3, <3>7, HushedHeeds DEF HeedStep
  <2>6. CASE station.reply.type # "ACK" /\ p.mack # 0
    <3>1. t = ring
      BY <2>6 DEF TakeAck
    <3>2. ring' = ring
      BY <1>1, <2>1, <3>1, SweepBounded
    <3>3. QED BY <1>2, <3>2
  <2>7. QED BY <2>4, <2>5, <2>6
<1>4. CASE ~AckAccepted(ring, station.reply)
  <2>1. ring' = LookAtQueue(ring, a)
    BY <1>1, <1>4 DEF RxAck
  <2>2. ring' = ring
    BY <1>1, <2>1, SweepBounded
  <2>3. QED BY <1>2, <2>2
<1>5. QED BY <1>3, <1>4

LEMMA TimeoutHeeds ==
    ASSUME NoDownlinks, BoundedInv, Heeded(ring, active), ReceiveTimeout PROVE HeedStep
<1> DEFINE a  == active
           p  == ring.pkt[a]
           R  == [ring EXCEPT !.pkt[a].retry = @ + 1]
<1>1. a \in Cells /\ ring \in Ring /\ p \in Packet /\ p.retry \in Nat /\ active' = a
  <2>1. p \in Packet
    BY RingPkt DEF BoundedInv, TypeOK
  <2>2. QED BY <2>1 DEF BoundedInv, TypeOK, Packet, ReceiveTimeout
<1>2. CASE p.st # "WAIT_ACK"
  BY <1>2 DEF ReceiveTimeout, HeedStep
<1>3. ASSUME TimeoutRetry PROVE HeedStep
  <2> DEFINE e == [[p EXCEPT !.retry = @ + 1] EXCEPT !.st = "QUEUED_AGAIN"]
  <2>1. ring' = SetPkt(ring, a, e)
    BY <1>1, <1>3 DEF TimeoutRetry, SetPkt, Ring, Packet
  <2>2. e.st = "QUEUED_AGAIN"
    <3> HIDE DEF p
    <3> QED BY <1>1 DEF Packet
  <2> HIDE DEF e
  <2>3. \A c \in Cells : ring'.pkt[c] = IF c = a THEN e ELSE ring.pkt[c]
    BY <1>1, <2>1 DEF SetPkt, Ring
  <2>4. QED BY <1>1, <2>2, <2>3, HeedKept, CellFacts
<1>4. ASSUME NEW policy \in LossPolicies, TimeoutLost(policy) PROVE HeedStep
  <2> DEFINE t == CloseActive(R, a)
             p1 == [p EXCEPT !.retry = p.retry + 1]
  <2>1. ring' = AfterLoss(t, policy)
    BY <1>4 DEF TimeoutLost, NoDownlinks
  <2>2. R \in Ring
    <3>1. p1 \in Packet
      <4> HIDE DEF p
      <4> QED BY <1>1, PktRetryType
    <3>2. R = SetPkt(ring, a, p1)
      BY <1>1 DEF SetPkt, Ring
    <3> HIDE DEF R, p1
    <3>3. QED BY <1>1, <3>1, <3>2, SetPktType
  <2> HIDE DEF R
  <2>3. /\ t \in Ring
        /\ \A c \in Cells : t.pkt[c] =
              IF c = a \/ (c \in Slots /\ R.pkt[c].st = "SENT_NOACKED")
              THEN [R.pkt[c] EXCEPT !.st = "LOST"] ELSE R.pkt[c]
    BY <1>1, <2>2, CloseActiveType, CloseActiveShape
  <2>4. \A c \in Cells : [R.pkt[c] EXCEPT !.st = "LOST"].st = "LOST"
    <3>1. \A c \in Cells : R.pkt[c] \in Packet
      BY <2>2, RingPkt
    <3>2. QED BY <3>1 DEF Packet
  <2> HIDE DEF t
  <2>5. Hushed(t)
    <3>1. SUFFICES ASSUME NEW c \in Slots PROVE t.pkt[c].st # "SENT_NOACKED"
      BY DEF Hushed, InState
    <3>2. QED BY <2>3, <2>4, CellFacts
  <2>6. Hushed(ring')
    BY <2>1, <2>3, <2>5, HushedSync DEF AfterLoss
  <2>7. QED BY <2>6, HushedHeeds DEF HeedStep
<1>5. QED BY <1>2, <1>3, <1>4 DEF ReceiveTimeout

LEMMA Send5Heeds ==
    ASSUME Windowed, BoundedInv, Heeded(ring, active), NEW len \in Lengths,
           NEW flags \in FlagSets, Send5(len, flags)
    PROVE HeedStep
<1>1. active' = active /\ active \in Cells
  BY DEF Send5, BoundedInv, TypeOK
<1>2. CASE UNCHANGED <<ring, ulIter, notAcked>>
  BY <1>1, <1>2 DEF HeedStep
<1>3. ASSUME NEW k \in 1 .. TxSize, Send5Queues(len, flags, k) PROVE HeedStep
  <2>1. \A c \in Cells : ring'.pkt[c] = ring.pkt[c] \/ ring'.pkt[c].st = "QUEUED"
    <3> SUFFICES ASSUME NEW c \in NewSlots(ring, k) PROVE ring'.pkt[c].st = "QUEUED"
      BY <1>3 DEF Send5Queues
    <3>1. PICK id : ring'.pkt[c] = Fragment(id, len, flags, ulIter, Age(ring.head, c), k,
                                             notAcked, mode)
      BY <1>3 DEF Send5Queues
    <3> DEFINE p == Fragment(id, len, flags, ulIter, Age(ring.head, c), k, notAcked, mode)
    <3>2. p.st = "QUEUED"
      BY FragmentIs
    <3> HIDE DEF p
    <3>3. QED BY <3>1, <3>2 DEF p
  <2>2. QED BY <1>1, <2>1, HeedKept, CellFacts
<1>4. QED BY <1>2, <1>3, Send5Whole

LEMMA HeartBeatHeeds ==
    ASSUME BoundedInv, Heeded(ring, active), HeartBeat PROVE HeedStep
<1> DEFINE p == [SysPkt("HEARTBEAT", "QUEUED", ulIter) EXCEPT
                   !.hs = Handshake /\ AckMode(mode), !.ack = Handshake /\ AckMode(mode)]
<1>1. active' = active /\ active \in Cells /\ ring \in Ring
      /\ (ring' = Alloc(ring, p) \/ ring' = ring)
  BY DEF HeartBeat, BoundedInv, TypeOK
<1>2. p.st = "QUEUED"
  BY DEF SysPkt, FreePkt
<1> HIDE DEF p
<1>3. CASE ring' = ring
  BY <1>1, <1>3 DEF HeedStep
<1>4. CASE ring' = Alloc(ring, p) /\ CanAlloc(ring)
  <2>1. \A c \in Cells : ring'.pkt[c] = IF c = ring.head THEN p ELSE ring.pkt[c]
    BY <1>1, <1>4, AllocCells, CellFacts
  <2>2. QED BY <1>1, <1>2, <2>1, HeedKept, CellFacts
<1>5. QED BY <1>1, <1>3, <1>4 DEF Alloc

\* What goes without handshake does not go while a packet waits for the ACK of
\* a later one.
LEMMA SendNextHeeds ==
    ASSUME BoundedInv, TypeOK', Mode = "CRX", Heeded(ring, active), SendNext,
           NEW f \in [Slots -> Nat], NEW n \in Nat, NEW w \in Nat,
           Windows(ring, active, f, n, w)
    PROVE Heeded(ring', active')
<1>1. /\ ring \in Ring /\ active \in Cells /\ ring.head \in Slots
      /\ OneWaits(ring, active) /\ RingBounded(ring, active)
  BY BoundedWaits DEF BoundedInv, TypeOK, Ring
<1>2. PICK s \in Slots :
            /\ s = Queued(ring, active) /\ ring.pkt[active].st # "WAIT_ACK"
            /\ ring.pkt[s].st \in {"QUEUED", "QUEUED_AGAIN", "NEED_TO_SEND_RIGHT_NOW"}
            /\ ring'.head = ring.head
            /\ \A c \in Cells : c # s => ring'.pkt[c] = ring.pkt[c]
            /\ IF ring.pkt[s].hs
               THEN /\ active' = s /\ Twin(ring.pkt[s], ring'.pkt[s])
                    /\ ring'.pkt[s].st = IF ring.pkt[s].ack THEN "WAIT_ACK" ELSE "SENT_NOACKED"
               ELSE active' = Idle /\ ring'.pkt[s] = FreePkt
  BY SendNextIs
<1>3. s # None /\ s \in Cells /\ \A c \in Slots : Age(ring.head, c) \in Int
  <2>1. s # None /\ s \in Cells
    BY CellFacts
  <2>2. QED BY <1>1, <2>1, AgeFacts
<1>4. Urgent(ring) # {} => s \in Urgent(ring)
  BY <1>2, <1>3, OldestFacts DEF Queued
<1>5. CASE ring.pkt[s].hs
  <2>1. Urgent(ring) = {}
    <3>1. PktBounded(ring.pkt[s], s = active)
      BY <1>1, <1>3 DEF RingBounded
    <3>2. ring.pkt[s].st # "NEED_TO_SEND_RIGHT_NOW"
      BY <1>5, <3>1 DEF PktBounded
    <3>3. QED BY <1>4, <3>2 DEF Urgent, InState
  <2>2. ring'.pkt[s].st \in {"WAIT_ACK", "SENT_NOACKED"} /\ active' = s
    BY <1>2, <1>5
  <2>3. Urgent(ring') = {}
    BY <1>2, <2>1, <2>2, CellFacts DEF Urgent, InState
  <2>4. QED BY <2>2, <2>3 DEF Heeded
<1>6. CASE ~ring.pkt[s].hs
  <2>1. SUFFICES ASSUME Mack = 1, NEW c \in Slots, ring'.pkt[c].st = "SENT_NOACKED" PROVE FALSE
    BY DEF Heeded, InState
  <2>2. c # s /\ ring.pkt[c].st = "SENT_NOACKED"
    BY <1>2, <1>6, <2>1, CellFacts DEF FreePkt
  <2>3. Urgent(ring) = {}
    BY <2>1, <2>2 DEF Heeded, InState
  <2>4. /\ PktShaped(ring.pkt[c]) /\ PktShaped(ring.pkt[s]) /\ w = 0
        /\ c \in Stamps(ring) /\ Silent(ring.pkt[c])
    <3>1. PktShaped(ring.pkt[c]) /\ PktShaped(ring.pkt[s]) /\ w = 0
      BY <2>1 DEF Windows, Shaped, TailFits
    <3>2. c \in Stamps(ring)
      BY <2>2, <3>1 DEF PktShaped, Stamps, Stamped
    <3>3. ring.pkt[c].hs /\ ~ring.pkt[c].ack
      BY <2>2, <3>1 DEF PktShaped
    <3>4. ring.pkt[c].kind \in AppKinds
      BY <2>2, <3>1, <3>3 DEF PktShaped, StampKinds
    <3>5. QED BY <2>2, <3>1, <3>2, <3>3, <3>4 DEF Silent
  <2>5. PICK t \in Stamps(ring) : Asking(ring.pkt[t]) /\ Inside(f[c], f[t], ring.pkt[t].mack)
    <3>1. f[c] \in Nat
      BY <1>1, <2>4, StampFacts
    <3>2. ~InTail(f[c], n, w)
      BY <2>4, <3>1 DEF InTail
    <3>3. QED BY <2>4, <3>2 DEF Windows, Reached
  <2>6. t \in Slots /\ ring.pkt[t].mack \in Nat /\ PktShaped(ring.pkt[t]) /\ ring.pkt[t].hs
    <3>1. t \in Slots /\ ring.pkt[t].mack \in Nat
      BY <1>1, StampFacts
    <3>2. PktShaped(ring.pkt[t])
      BY <3>1 DEF Windows, Shaped
    <3>3. QED BY <2>5, <3>1, <3>2 DEF PktShaped, Asking
  <2>7. ring.pkt[t].st \in {"QUEUED", "QUEUED_AGAIN"}
    <3>1. ring.pkt[t].st # "WAIT_ACK"
      BY <1>1, <1>2, <2>6 DEF OneWaits
    <3>2. QED BY <2>5, <3>1 DEF Asking, Going
  <2>8. Again(ring) = {}
    <3>1. SUFFICES ASSUME Again(ring) # {} PROVE FALSE
      OBVIOUS
    <3>2. s = Oldest(ring.head, Again(ring))
      BY <1>2, <2>3, <3>1 DEF Queued
    <3>3. s \in Again(ring)
      BY <1>3, <3>2, OldestFacts
    <3>4. QED BY <1>6, <2>4, <3>3 DEF Again, InState, PktShaped
  <2>9. /\ ring.pkt[t].st = "QUEUED" /\ ring.pkt[s].st = "QUEUED"
        /\ Age(ring.head, s) <= Age(ring.head, t)
    <3>1. ring.pkt[t].st = "QUEUED"
      BY <2>6, <2>7, <2>8 DEF Again, InState
    <3>2. ring.pkt[s].st = "QUEUED"
      BY <1>2, <2>3, <2>8 DEF Again, Urgent, InState
    <3>3. s = Oldest(ring.head, Fresh(ring, active))
      BY <1>2, <2>3, <2>8 DEF Queued
    <3>4. t \in Fresh(ring, active)
      BY <2>6, <3>1 DEF Fresh, InState
    <3>5. QED BY <1>3, <3>1, <3>2, <3>3, <3>4, OldestFacts
  <2>10. s \in Stamps(ring) /\ s # t
    <3>1. s \in Stamps(ring)
      BY <2>4, <2>9 DEF PktShaped, Stamps, Stamped
    <3>2. QED BY <1>6, <2>6, <3>1
  <2>11. Ahead(ring, s, t) /\ Ahead(ring, c, s)
    <3>1. Age(ring.head, s) # Age(ring.head, t)
      BY <1>1, <2>6, <2>10, AgeFacts
    <3>2. Ahead(ring, s, t)
      BY <1>3, <2>6, <2>9, <3>1 DEF Ahead
    <3>3. ~Ahead(ring, s, c)
      BY <2>2, <2>4, <2>9, <2>10 DEF Windows, FirstOut
    <3>4. Age(ring.head, s) # Age(ring.head, c)
      BY <1>1, <2>2, AgeFacts
    <3>5. QED BY <1>3, <3>2, <3>3, <3>4 DEF Ahead
  <2>12. /\ f[s] \in Nat /\ f[t] \in Nat /\ f[c] \in Nat /\ f[s] < f[t] /\ f[c] < f[s]
    BY <1>1, <2>4, <2>10, <2>11, Ranked DEF Windows
  <2>13. Inside(f[s], f[t], ring.pkt[t].mack)
    BY <2>5, <2>6, <2>12 DEF Inside
  <2>14. ring.pkt[s].hs
    BY <2>5, <2>10, <2>13 DEF Windows, Members
  <2>15. QED BY <1>6, <2>14
<1>7. QED BY <1>5, <1>6

-----------------------------------------------------------------------------
(***************************************************************************)
(* The inductive invariant, and what follows from it.                      *)
(***************************************************************************)
WindowInv ==
    /\ BoundedInv
    /\ WindowsHold(ring, active, ulIter, notAcked)
    /\ Heeded(ring, active)
    /\ mode = "OFF" => Hushed(ring)

WindowStep ==
    /\ WindowsHold(ring', active', ulIter', notAcked')
    /\ Heeded(ring', active')
    /\ mode' = "OFF" => Hushed(ring')

\* The device goes to sleep, or sleeps.
LEMMA ClearedWindows ==
    ASSUME WindowInv, TypeOK', ring' = ClearTx(ring), active' = Idle,
           UNCHANGED <<ulIter, notAcked>>
    PROVE WindowStep
<1>1. PICK f \in [Slots -> Nat], n \in Nat :
        n % IterMod = ulIter /\ Windows(ring, active, f, n, notAcked)
  BY DEF WindowInv, WindowsHold
<1>2. ring \in Ring /\ ring' \in Ring /\ notAcked \in Nat
  BY DEF WindowInv, BoundedInv, TypeOK
<1>3. \A c \in Cells : ring'.pkt[c] = IF c = Idle THEN ring.pkt[Idle] ELSE FreePkt
  BY <1>2 DEF ClearTx, Ring
<1>4. ~Stamped(FreePkt) /\ PktShaped(FreePkt) /\ FreePkt.st = "FREE"
  BY DEF FreePkt, Stamped, PktShaped, StampKinds, AppKinds
<1>5. Stamps(ring') = {} /\ Shaped(ring') /\ Hushed(ring')
  BY <1>1, <1>3, <1>4, CellFacts DEF Windows, Shaped, Stamps, Hushed, InState
<1>6. Windows(ring', active', f, n, notAcked')
  BY <1>1, <1>2, <1>5, EmptyWindows DEF Windows
<1>7. QED BY <1>1, <1>5, <1>6, HushedHeeds DEF WindowStep, WindowsHold

LEMMA WakeUpWindows ==
    ASSUME WindowInv, Mode = "CRX", WakeUp PROVE WindowStep
<1> DEFINE q == SendSync(ring, ulIter)
<1>1. PICK f \in [Slots -> Nat], n \in Nat :
        n % IterMod = ulIter /\ Windows(ring, active, f, n, notAcked)
  BY DEF WindowInv, WindowsHold
<1>2. /\ ring \in Ring /\ notAcked \in Nat /\ active \in Cells /\ ulIter \in Iters /\ 0 \in Iters
      /\ Hushed(ring)
  BY DEF WindowInv, BoundedInv, TypeOK, WakeUp, Iters
<1>3. q \in Ring
  BY <1>2, SendSyncType
<1>4. /\ ring' = SendClear(q, 0) /\ mode' = "CRX"
      /\ UNCHANGED <<active, ulIter, notAcked>>
  BY DEF WakeUp
<1>5. Windows(q, active, f, n, notAcked) /\ Hushed(q)
  BY <1>1, <1>2, SendSyncWindows, HushedSync
<1> HIDE DEF q
<1>6. Windows(ring', active, f, n, notAcked) /\ Hushed(ring')
  BY <1>2, <1>3, <1>4, <1>5, SendClearWindows, HushedClear
<1>7. QED BY <1>1, <1>4, <1>6, HushedHeeds DEF WindowStep, WindowsHold

LEMMA WindowInit == ASSUME Windowed, Init PROVE WindowInv
<1> DEFINE f == [c \in Slots |-> 0]
<1>1. BoundedInv
  BY BoundedInit DEF Windowed
<1>2. f \in [Slots -> Nat] /\ 0 \in Nat /\ 0 \in Iters /\ Idle \in Cells
  BY CellFacts DEF Iters
<1>3. 0 % IterMod = 0
  <2>1. 0 \in 0 .. IterMod - 1
    OBVIOUS
  <2>2. QED BY <2>1, ModSmall
<1>4. Windows(EmptyRing, Idle, f, 0, 0) /\ Hushed(EmptyRing)
  <2>1. ~Stamped(FreePkt) /\ PktShaped(FreePkt) /\ FreePkt.st = "FREE"
    BY DEF FreePkt, Stamped, PktShaped, StampKinds, AppKinds
  <2>2. \A c \in Cells : EmptyRing.pkt[c] = FreePkt
    BY DEF EmptyRing
  <2>3. Stamps(EmptyRing) = {} /\ Shaped(EmptyRing) /\ Hushed(EmptyRing)
    BY <2>1, <2>2, CellFacts DEF Stamps, Shaped, Hushed, InState
  <2>4. TailFits(0, 0)
    BY TailNone
  <2> HIDE DEF f
  <2>5. QED BY <2>3, <2>4, EmptyRingType, EmptyWindows
<1> HIDE DEF f
<1> DEFINE q == SendSync(EmptyRing, 0)
<1>5. q \in Ring /\ EmptyRing \in Ring
  BY <1>2, EmptyRingType, SendSyncType
<1>6. Windows(q, Idle, f, 0, 0) /\ Hushed(q)
  BY <1>2, <1>4, <1>5, SendSyncWindows, HushedSync
<1>7. Windows(SendClear(q, 0), Idle, f, 0, 0) /\ Hushed(SendClear(q, 0))
  <2> HIDE DEF q
  <2> QED BY <1>2, <1>5, <1>6, SendClearWindows, HushedClear
<1>8. Windows(ring, active, f, 0, notAcked) /\ Hushed(ring)
  BY <1>4, <1>7 DEF Init
<1>9. ulIter = 0
  BY DEF Init
<1>10. WindowsHold(ring, active, ulIter, notAcked)
  BY <1>2, <1>3, <1>8, <1>9 DEF WindowsHold
<1>11. QED BY <1>1, <1>8, <1>10, HushedHeeds DEF WindowInv

LEMMA WindowNext == ASSUME Windowed, WindowInv, [Next]_vars PROVE WindowInv'
<1>1. /\ BoundedInv /\ BoundedInv' /\ TypeOK' /\ NoDownlinks /\ Mode = "CRX" /\ IterMod <= 64
      /\ ring \in Ring /\ active \in Cells /\ RingBounded(ring, active)
      /\ Heeded(ring, active)
  BY BoundedNext DEF Windowed, WindowInv, BoundedInv, TypeOK
<1>2. PICK f \in [Slots -> Nat], n \in Nat :
        n % IterMod = ulIter /\ Windows(ring, active, f, n, notAcked)
  BY DEF WindowInv, WindowsHold
<1>3. notAcked \in Nat
  BY <1>1 DEF BoundedInv, TypeOK
<1>4. ASSUME UNCHANGED <<ring, active, ulIter, notAcked, mode>> PROVE WindowStep
  BY <1>4 DEF WindowStep, WindowInv
<1>5. ASSUME HeedStep, mode' = mode, WindowsHold(ring', active', ulIter', notAcked')
      PROVE WindowStep
  BY <1>5 DEF HeedStep, WindowStep, WindowInv
<1>6. ASSUME UNCHANGED vars PROVE WindowStep
  BY <1>4, <1>6 DEF vars, devVars
<1>7. ASSUME NEW len \in Lengths, NEW flags \in FlagSets, Send5(len, flags)
      PROVE WindowStep
  <2>1. mode' = mode
    BY <1>7 DEF Send5
  <2>2. HeedStep
    BY <1>1, <1>7, Send5Heeds
  <2>3. WindowsHold(ring', active', ulIter', notAcked')
    BY <1>1, <1>2, <1>7, Send5Windows
  <2>4. QED BY <1>5, <2>1, <2>2, <2>3
<1>8. ASSUME SendNext PROVE WindowStep
  <2>1. mode' = mode /\ mode # "OFF" /\ UNCHANGED <<ulIter, notAcked>>
    BY <1>8 DEF SendNext
  <2>2. Heeded(ring', active')
    BY <1>1, <1>2, <1>3, <1>8, SendNextHeeds
  <2>3. Windows(ring', active', f, n, notAcked)
    BY <1>1, <1>2, <1>3, <1>8, SendNextWindows
  <2>4. QED BY <1>2, <2>1, <2>2, <2>3 DEF WindowStep, WindowsHold
<1>9. ASSUME ArmTimer PROVE WindowStep
  BY <1>4, <1>9 DEF ArmTimer
<1>10. ASSUME ProcessOff PROVE WindowStep
  BY <1>1, <1>10, ClearedWindows DEF ProcessOff
<1>11. ASSUME TxFinished PROVE WindowStep
  <2>1. Sweep(ring, active) = ring
    BY <1>1, SweepBounded
  <2>2. QED BY <1>4, <1>11, <2>1 DEF TxFinished
<1>12. ASSUME ReceiveTimeout PROVE WindowStep
  <2>1. UNCHANGED <<mode, active, ulIter, notAcked>>
    BY <1>12 DEF ReceiveTimeout
  <2>2. HeedStep
    BY <1>1, <1>12, TimeoutHeeds
  <2>3. Windows(ring', active, f, n, notAcked)
    BY <1>1, <1>2, <1>3, <1>12, TimeoutWindows
  <2>4. QED BY <1>2, <1>5, <2>1, <2>2, <2>3 DEF WindowsHold
<1>13. ASSUME RxAck PROVE WindowStep
  <2>1. UNCHANGED <<mode, active, ulIter, notAcked>>
    BY <1>13 DEF RxAck
  <2>2. HeedStep
    BY <1>1, <1>2, <1>3, <1>13, RxAckHeeds
  <2>3. Windows(ring', active, f, n, notAcked)
    BY <1>1, <1>2, <1>3, <1>13, RxAckWindows
  <2>4. QED BY <1>2, <1>5, <2>1, <2>2, <2>3 DEF WindowsHold
<1>14. ~\E answer, ack \in BOOLEAN : RxSystem(answer, ack)
  BY <1>1 DEF RxSystem, BoundedInv
<1>15. ~\E ack, multi, repeated \in BOOLEAN : RxMessage(ack, multi, repeated)
  BY <1>1 DEF RxMessage, BoundedInv
<1>16. ASSUME WaitExtraTimeout PROVE WindowStep
  <2>1. Sweep(Restored(ring), active) = ring
    BY <1>1, SweepBounded, RestoredIs DEF BoundedInv
  <2>2. QED BY <1>4, <1>16, <2>1 DEF WaitExtraTimeout
<1>17. ASSUME WaitClearTimeout PROVE WindowStep
  BY <1>4, <1>17 DEF WaitClearTimeout
<1>18. ASSUME HeartBeat PROVE WindowStep
  <2>1. mode' = mode
    BY <1>18 DEF HeartBeat
  <2>2. HeedStep
    BY <1>1, <1>18, HeartBeatHeeds
  <2>3. WindowsHold(ring', active', ulIter', notAcked')
    BY <1>1, <1>2, <1>18, HeartBeatWindows
  <2>4. QED BY <1>5, <2>1, <2>2, <2>3
<1>19. ASSUME ReportStatus PROVE WindowStep
  BY <1>4, <1>19 DEF ReportStatus
<1>20. ASSUME GoToSleep PROVE WindowStep
  BY <1>1, <1>20, ClearedWindows DEF GoToSleep
<1>21. ASSUME WakeUp PROVE WindowStep
  BY <1>1, <1>21, WakeUpWindows
<1>22. WindowStep
  BY <1>6, <1>7, <1>8, <1>9, <1>10, <1>11, <1>12, <1>13, <1>14, <1>15, <1>16, <1>17, <1>18,
     <1>19, <1>20, <1>21 DEF Next
<1>23. QED BY <1>1, <1>22 DEF WindowStep, WindowInv, WindowsHold

\* A packet that was sent without asking for an ACK.
LEMMA NoAckIs ==
    ASSUME WindowInv, NEW s \in InState(ring, "SENT_NOACKED")
    PROVE \E f \in [Slots -> Nat], n \in Nat :
             /\ n % IterMod = ulIter /\ Windows(ring, active, f, n, notAcked)
             /\ s \in Stamps(ring) /\ ring.pkt[s].iter = f[s] % IterMod
             /\ \/ InTail(f[s], n, notAcked)
                \/ \E t \in Stamps(ring) :
                      Asking(ring.pkt[t]) /\ Inside(f[s], f[t], ring.pkt[t].mack)
<1>1. PICK f \in [Slots -> Nat], n \in Nat :
        n % IterMod = ulIter /\ Windows(ring, active, f, n, notAcked)
  BY DEF WindowInv, WindowsHold
<1>2. s \in Slots /\ ring.pkt[s].st = "SENT_NOACKED" /\ PktShaped(ring.pkt[s])
  BY <1>1 DEF InState, Windows, Shaped
<1>3. s \in Stamps(ring)
  BY <1>2 DEF PktShaped, Stamps, Stamped
<1>4. Silent(ring.pkt[s])
  <2>1. ring.pkt[s].hs /\ ~ring.pkt[s].ack
    BY <1>2 DEF PktShaped
  <2>2. ring.pkt[s].kind \in AppKinds
    BY <1>2, <2>1 DEF PktShaped, StampKinds
  <2>3. QED BY <1>2, <2>1, <2>2 DEF Silent
<1>5. ring.pkt[s].iter = f[s] % IterMod
  BY <1>1, <1>3 DEF Windows, Dated
<1>6. QED BY <1>1, <1>3, <1>4, <1>5 DEF Windows, Reached

LEMMA WindowCovers == ASSUME WindowInv PROVE Covered
<1> SUFFICES ASSUME NEW s \in InState(ring, "SENT_NOACKED")
             PROVE \/ (ulIter - 1 - ring.pkt[s].iter) % IterMod < notAcked
                   \/ \E t \in Slots : /\ ring.pkt[t].ack /\ ring.pkt[t].kind \in AppKinds
                                       /\ Blocked(ring.pkt[t]) \/ t = active
                                       /\ Covers(ring.pkt[t], ring.pkt[s].iter)
  BY DEF Covered
<1>1. PICK f \in [Slots -> Nat], n \in Nat :
             /\ n % IterMod = ulIter /\ Windows(ring, active, f, n, notAcked)
             /\ s \in Stamps(ring) /\ ring.pkt[s].iter = f[s] % IterMod
             /\ \/ InTail(f[s], n, notAcked)
                \/ \E t \in Stamps(ring) :
                      Asking(ring.pkt[t]) /\ Inside(f[s], f[t], ring.pkt[t].mack)
  BY NoAckIs
<1>2. /\ ring \in Ring /\ notAcked \in Nat /\ IterMod \in Nat \ {0} /\ f[s] \in Nat
      /\ n \in Int /\ f[s] \in Int
  BY <1>1, StampFacts DEF WindowInv, BoundedInv, TypeOK
<1>3. CASE InTail(f[s], n, notAcked)
  <2>1. notAcked < Mack /\ Mack <= IterMod
    BY <1>1, <1>2, TailShort, TurnOfWindows DEF Windows
  <2> DEFINE d == n - 1 - f[s]
  <2>2. d \in 0 .. IterMod - 1 /\ d < notAcked /\ n - 1 \in Int
    BY <1>2, <1>3, <2>1 DEF InTail
  <2>3. ((n % IterMod) - 1) % IterMod = (n - 1) % IterMod
    <3>1. 1 \in Int
      OBVIOUS
    <3>2. QED BY <1>2, <3>1, ModLess
  <2>4. PICK x \in Int : x = n - 1
    BY <2>2
  <2>5. PICK y \in Int : y = f[s]
    BY <1>2
  <2>6. PICK u \in Int : u = (n % IterMod) - 1
    <3> DEFINE m == n % IterMod
    <3>1. m \in 0 .. IterMod - 1
      BY <1>2, DivMod
    <3> HIDE DEF m
    <3>2. m - 1 \in Int
      BY <1>2, <3>1
    <3>3. QED BY <3>2 DEF m
  <2>7. PICK b \in Int : b = y % IterMod
    BY <1>2, <2>5, DivMod
  <2>8. (x - y) % IterMod = ((x % IterMod) - (y % IterMod)) % IterMod
    BY <1>2, <2>4, <2>5, ModSub, Zenon
  <2>9. (u - b) % IterMod = ((u % IterMod) - b) % IterMod
    BY <1>2, <2>6, <2>7, ModLess, Zenon
  <2>10. u % IterMod = x % IterMod
    BY <2>3, <2>4, <2>6
  <2>11. (u - b) % IterMod = (x - y) % IterMod
    BY <2>7, <2>8, <2>9, <2>10
  <2>12. ulIter - 1 = u /\ ring.pkt[s].iter = b /\ d = x - y
    BY <1>1, <2>4, <2>5, <2>6, <2>7
  <2>13. (ulIter - 1 - ring.pkt[s].iter) % IterMod = d % IterMod
    BY <2>11, <2>12
  <2> HIDE DEF d
  <2>14. d % IterMod = d
    BY <1>2, <2>2, ModSmall
  <2>15. QED BY <2>2, <2>13, <2>14
<1>4. ASSUME NEW t \in Stamps(ring), Asking(ring.pkt[t]), Inside(f[s], f[t], ring.pkt[t].mack)
      PROVE \E u \in Slots : /\ ring.pkt[u].ack /\ ring.pkt[u].kind \in AppKinds
                             /\ Blocked(ring.pkt[u]) \/ u = active
                             /\ Covers(ring.pkt[u], ring.pkt[s].iter)
  <2>1. /\ t \in Slots /\ ring.pkt[t].mack \in Nat /\ f[t] \in Nat /\ f[t] \in Int
        /\ ring.pkt[t].iter = f[t] % IterMod
    BY <1>1, <1>2, StampFacts DEF Windows, Dated
  <2>2. ring.pkt[t].ack /\ ring.pkt[t].kind \in AppKinds /\ Blocked(ring.pkt[t])
    BY <1>4 DEF Asking, Going, Blocked
  <2>3. ring.pkt[t].mack <= IterMod
    BY <1>1, <2>1, <2>2 DEF Windows, Shaped, PktShaped
  <2> DEFINE d == f[t] - f[s]
  <2>4. d \in 0 .. IterMod - 1 /\ d < ring.pkt[t].mack
    BY <1>2, <1>4, <2>1, <2>3 DEF Inside
  <2>5. (ring.pkt[t].iter - ring.pkt[s].iter) % IterMod = d % IterMod
    <3>1. PICK x \in Int : x = f[t]
      BY <2>1
    <3>2. PICK y \in Int : y = f[s]
      BY <1>2
    <3>3. (x - y) % IterMod = ((x % IterMod) - (y % IterMod)) % IterMod
      BY <1>2, <3>1, <3>2, ModSub, Zenon
    <3>4. QED BY <1>1, <2>1, <3>1, <3>2, <3>3
  <2> HIDE DEF d
  <2>6. d % IterMod = d
    BY <1>2, <2>4, ModSmall
  <2>7. Covers(ring.pkt[t], ring.pkt[s].iter)
    BY <2>4, <2>5, <2>6 DEF Covers
  <2>8. QED BY <2>1, <2>2, <2>7
<1>5. QED BY <1>1, <1>3, <1>4

LEMMA WindowRoom == ASSUME WindowInv, Mack = 1 PROVE QuietHasRoom
<1> SUFFICES ASSUME Quiet, Blocked(ring.pkt[ring.head]) PROVE FALSE
  BY DEF QuietHasRoom, CanAlloc
<1> DEFINE h == ring.head
<1>1. h \in Slots /\ OneWaits(ring, active) /\ ring \in Ring /\ notAcked \in Nat
  BY BoundedWaits DEF WindowInv, BoundedInv, TypeOK, Ring
<1>2. \A S \in SUBSET Slots : Oldest(h, S) = None => S = {}
  <2> SUFFICES ASSUME NEW S \in SUBSET Slots, S # {} PROVE Oldest(h, S) # None
    OBVIOUS
  <2>1. Oldest(h, S) \in S
    BY <1>1, OldestLeast
  <2>2. QED BY <2>1, CellFacts
<1>3. Urgent(ring) = {} /\ Again(ring) = {} /\ Fresh(ring, active) = {}
  <2>1. /\ Urgent(ring) \in SUBSET Slots /\ Again(ring) \in SUBSET Slots
        /\ Fresh(ring, active) \in SUBSET Slots
    BY DEF Urgent, Again, Fresh, InState
  <2>2. QED BY <1>2, <2>1 DEF Quiet, Queued
<1>4. \A c \in Slots : /\ ring.pkt[c].st \notin Going
                       /\ ring.pkt[c].st # "NEED_TO_SEND_RIGHT_NOW"
  BY <1>1, <1>3 DEF Quiet, Going, Urgent, Again, Fresh, InState, OneWaits
<1>5. h \in InState(ring, "SENT_NOACKED")
  BY <1>1, <1>4 DEF Blocked, Going, InState
<1>6. PICK f \in [Slots -> Nat], n \in Nat :
             /\ n % IterMod = ulIter /\ Windows(ring, active, f, n, notAcked)
             /\ h \in Stamps(ring) /\ ring.pkt[h].iter = f[h] % IterMod
             /\ \/ InTail(f[h], n, notAcked)
                \/ \E t \in Stamps(ring) :
                      Asking(ring.pkt[t]) /\ Inside(f[h], f[t], ring.pkt[t].mack)
  BY <1>5, NoAckIs
<1>7. ~InTail(f[h], n, notAcked)
  <2>1. notAcked = 0 /\ f[h] \in Nat
    BY <1>1, <1>6, StampFacts DEF Windows, TailFits
  <2>2. QED BY <2>1 DEF InTail
<1>8. \A t \in Stamps(ring) : ~Asking(ring.pkt[t])
  BY <1>4 DEF Asking, Stamps
<1>9. QED BY <1>6, <1>7, <1>8

LEMMA WindowAlways == ASSUME Windowed PROVE Spec => []WindowInv
<1>1. Init => WindowInv
  BY WindowInit
<1>2. WindowInv /\ [Next]_vars => WindowInv'
  BY WindowNext
<1>3. QED BY <1>1, <1>2, PTL DEF Spec

\* Every packet sent without an ACK request stays inside the window of one that
\* still asks, or of the next that will: across cuts into groups, retries, the
\* windows NBFi_Resend_Pkt narrows, losses, heartbeats and sleep
\* (NBFi_Send5 with not_acked, NBFi_Resend_Pkt, NBFi_Receive_Timeout_cb).
THEOREM WindowsCover == ASSUME Windowed PROVE Spec => []Covered
<1>1. WindowInv => Covered
  BY WindowCovers
<1>2. QED BY <1>1, WindowAlways, PTL

\* With an ACK for every message the ring never fills up for good: as soon as
\* nothing is to be sent and nothing is waited for, the slot NBFi_AllocateTxPkt
\* tries is free, for no packet is left SENT_NOACKED without one that asks for
\* its ACK (NBFi_AllocateTxPkt, "tx buffer is full").
THEOREM QuietLeavesRoom == ASSUME Windowed, Mack = 1 PROVE Spec => []QuietHasRoom
<1>1. WindowInv => QuietHasRoom
  BY WindowRoom
<1>2. QED BY <1>1, WindowAlways, PTL
=============================================================================
