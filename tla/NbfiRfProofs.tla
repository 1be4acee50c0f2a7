---------------------------- MODULE NbfiRfProofs ----------------------------
(***************************************************************************)
(* For every configuration, ring size and sequence of events: the process  *)
(* task is scheduled while there is something to do, the processor only    *)
(* sleeps with the radio off, the device listens while it awaits an        *)
(* answer, and a transmission is not cut short by the stack itself.        *)
(***************************************************************************)
EXTENDS NbfiRf, TLAPS

USE ModeAssumption, FlagAssumption, BoundAssumption

Radios  == [state : RfStates, hw : {"OFF", "RX", "TX"}, transmit : BOOLEAN]
Queues  == [Kinds -> 0 .. Room]
Actives == [st : PktStates, old : PktStates \ {"EXTRA"}, ack : BOOLEAN,
            retry : 0 .. MaxRetry, behind : 0 .. None]
Changes == [mode : Modes, flash : Modes, dirty : BOOLEAN, default : BOOLEAN,
            queue : Queues, active : Actives, noacked : Nat, state : RfStates,
            wait : BOOLEAN, force : BOOLEAN]

(***************************************************************************)
(* The software's idea of the radio agrees with the hardware: a radio that *)
(* is off is idle, one in receive mode receives.                           *)
(***************************************************************************)
RadioOK(r) ==
    /\ r \in Radios
    /\ r.state = "OFF" => r.hw = "OFF" /\ ~r.transmit
    /\ r.state = "RX" => r.hw = "RX"

(***************************************************************************)
(* A packet that awaits its ACK has the ACK flag, also behind the wait for *)
(* extra packets.                                                          *)
(***************************************************************************)
AckOK(a) == \/ a.st = "WAIT_ACK"
            \/ a.st = "EXTRA" /\ a.old = "WAIT_ACK"
            => a.ack

(***************************************************************************)
(* The inductive invariant.  No end of a DRX window is pending while the   *)
(* radio sends (its handler would cut the transmission), nor while a       *)
(* transmission that the radio has ended is not yet known to have ended.   *)
(***************************************************************************)
RfInv == /\ TypeOK
         /\ RadioOK(radio)
         /\ AckOK(active)
         /\ NotForgotten
         /\ (radio.hw = "TX" \/ (radio.transmit /\ radio.hw # "RX"))
               => ~waitRxEnd

-----------------------------------------------------------------------------
(***************************************************************************)
(* The radio operators.                                                    *)
(***************************************************************************)
LEMMA WantedType ==
    ASSUME NEW m, NEW a, NEW re, NEW wc
    PROVE Wanted(m, a, re, wc) \in {"RX", "OFF"}
BY DEF Wanted

LEMMA DeinitOK == RadioOK(Deinit)
BY DEF RadioOK, Deinit, Radios, RfStates

LEMMA ControlOK ==
    ASSUME NEW r, RadioOK(r), NEW m, NEW a, NEW re, NEW wc
    PROVE /\ RadioOK(Control(r, m, a, re, wc))
          /\ Control(r, m, a, re, wc).state = Wanted(m, a, re, wc)
          /\ Control(r, m, a, re, wc).hw # "TX"
          /\ Control(r, m, a, re, wc).transmit => r.transmit
BY WantedType, DeinitOK DEF Control, RadioOK, Radios, RfStates, Deinit

LEMMA FinishedOK ==
    ASSUME NEW r, RadioOK(r), NEW m, NEW q, NEW a, NEW re, NEW wc
    PROVE /\ RadioOK(Finished(r, m, q, a, re, wc))
          /\ r.transmit /\ ~GoesOn(q, a, wc) =>
                Finished(r, m, q, a, re, wc).state = Wanted(m, a, re, wc)
          /\ Finished(r, m, q, a, re, wc).hw = "TX" => r.hw = "TX"
          /\ ~Finished(r, m, q, a, re, wc).transmit
<1> DEFINE r1 == [r EXCEPT !.transmit = FALSE]
<1>1. RadioOK(r1)
  BY DEF RadioOK, Radios
<1>2. r1.transmit = FALSE /\ r1.hw = r.hw
  BY DEF RadioOK, Radios
<1>3. /\ RadioOK(Control(r1, m, a, re, wc))
      /\ Control(r1, m, a, re, wc).state = Wanted(m, a, re, wc)
      /\ Control(r1, m, a, re, wc).hw # "TX"
      /\ Control(r1, m, a, re, wc).transmit => r1.transmit
  BY <1>1, ControlOK
<1> QED BY <1>1, <1>2, <1>3 DEF Finished

\* What the end of NBFi_ProcessTasks guarantees: if the task is not scheduled
\* again, there is nothing to send and the radio is off, as it should be.
LEMMA AgainOK ==
    ASSUME NEW r, RadioOK(r), NEW m, NEW q, NEW a, NEW re, NEW wc
    PROVE LET e == Again(r, m, q, a, re, wc) IN
          /\ RadioOK(e.radio)
          /\ e.task \in BOOLEAN
          /\ ~e.task => /\ m \in Low /\ ~HasPkt(q, a)
                        /\ e.radio.state = "OFF"
                        /\ Wanted(m, a, re, wc) = "OFF"
          /\ e.radio.transmit => r.transmit
          /\ e.radio.hw = "TX" => r.hw = "TX"
<1> DEFINE r1 == IF r.state = "CHANGED" THEN Control(r, m, a, re, wc) ELSE r
           r2 == Control(r1, m, a, re, wc)
<1>1. /\ RadioOK(r1) /\ (r1.transmit => r.transmit)
      /\ r1.hw = "TX" => r.hw = "TX"
  BY ControlOK
<1>2. /\ RadioOK(r2) /\ r2.state = Wanted(m, a, re, wc)
      /\ r2.hw # "TX" /\ (r2.transmit => r1.transmit)
  BY <1>1, ControlOK
<1> DEFINE rests == m \in Low /\ ~HasPkt(q, a) /\ ~InProgress(r1)
           e == Again(r, m, q, a, re, wc)
<1>3. /\ rests => e = [radio |-> r2, task |-> r2.state # "OFF"]
      /\ ~rests => e = [radio |-> r1, task |-> TRUE]
  BY DEF Again
<1> HIDE DEF r1, r2, e
<1>4. CASE rests
  <2>1. e.radio = r2 /\ e.task = (r2.state # "OFF")
    BY <1>3, <1>4
  <2>2. m \in Low /\ ~HasPkt(q, a)
    BY <1>4
  <2> QED BY <1>1, <1>2, <2>1, <2>2 DEF e
<1>5. CASE ~rests
  <2>1. e.radio = r1 /\ e.task = TRUE
    BY <1>3, <1>5
  <2> QED BY <1>1, <2>1 DEF e
<1> QED BY <1>4, <1>5

\* Awaited or not, the device does not stop listening on its own account.
LEMMA AgainListens ==
    ASSUME NEW r, RadioOK(r), NEW m, NEW q, NEW a, NEW re, NEW wc,
           Wanted(m, a, re, wc) = "RX", r.hw = "RX"
    PROVE Again(r, m, q, a, re, wc).radio.hw = "RX"
<1> DEFINE r1 == IF r.state = "CHANGED" THEN Control(r, m, a, re, wc) ELSE r
           r2 == Control(r1, m, a, re, wc)
<1>1. RadioOK(r1) /\ r1.hw = "RX"
  BY ControlOK DEF RadioOK
<1>2. r2.hw = "RX"
  BY <1>1, ControlOK DEF RadioOK
<1> QED BY <1>1, <1>2 DEF Again

LEMMA ControlCases ==
    ASSUME NEW r, RadioOK(r), NEW m, NEW a, NEW re, NEW wc
    PROVE LET c == Control(r, m, a, re, wc)
          IN  c = r \/ c = Deinit \/ c.hw = "RX"
<1>1. CASE r.state = Wanted(m, a, re, wc)
  BY <1>1 DEF Control
<1>2. CASE r.state # Wanted(m, a, re, wc) /\ Wanted(m, a, re, wc) = "OFF"
  BY <1>2 DEF Control
<1>3. CASE r.state # Wanted(m, a, re, wc) /\ Wanted(m, a, re, wc) # "OFF"
  <2>1. Control(r, m, a, re, wc) = [r EXCEPT !.state = "RX", !.hw = "RX"]
    BY <1>3 DEF Control
  <2>2. [r EXCEPT !.state = "RX", !.hw = "RX"].hw = "RX"
    BY DEF RadioOK, Radios
  <2> QED BY <2>1, <2>2
<1> QED BY <1>1, <1>2, <1>3

\* A receiver that is switched off is idle.
LEMMA AgainRx ==
    ASSUME NEW r, RadioOK(r), NEW m, NEW q, NEW a, NEW re, NEW wc, r.hw = "RX"
    PROVE LET e == Again(r, m, q, a, re, wc)
          IN  e.radio.hw = "RX" \/ ~e.radio.transmit
<1> DEFINE r1 == IF r.state = "CHANGED" THEN Control(r, m, a, re, wc) ELSE r
           r2 == Control(r1, m, a, re, wc)
<1>1. RadioOK(r1)
  BY ControlOK
<1>2. r1.hw = "RX" \/ r1 = Deinit
  BY ControlCases
<1>3. r2 = r1 \/ r2 = Deinit \/ r2.hw = "RX"
  BY <1>1, ControlCases
<1>4. ~Deinit.transmit
  BY DEF Deinit
<1> HIDE DEF r1, r2
<1>5. Again(r, m, q, a, re, wc).radio \in {r1, r2}
  BY DEF Again, r1, r2
<1> QED BY <1>2, <1>3, <1>4, <1>5

-----------------------------------------------------------------------------
(***************************************************************************)
(* The packet operators.                                                   *)
(***************************************************************************)
LEMMA EmptyType == EmptyQueue \in Queues /\ IdlePkt \in Actives
BY DEF EmptyQueue, Queues, IdlePkt, Actives, PktStates, None

LEMMA QueuedType ==
    ASSUME NEW q \in Queues, NEW k \in Kinds
    PROVE Queued(q, k) \in Queues
BY DEF Queued, Queues

\* A queued packet of an urgent kind is there to be sent.
LEMMA QueuedHas ==
    ASSUME NEW q \in Queues, NEW a, NEW k \in Urgent
    PROVE HasPkt(Queued(q, k), a)
<1>1. k \in Kinds /\ q[k] \in 0 .. Room
  BY DEF Kinds, Queues
<1>2. Queued(q, k)[k] > 0
  BY <1>1 DEF Queued, Queues
<1> QED BY <1>2 DEF HasPkt, Candidates

LEMMA EmptyHasNone == ~HasPkt(EmptyQueue, IdlePkt)
BY DEF HasPkt, Candidates, EmptyQueue, IdlePkt, Urgent, Kinds

LEMMA RestoredType ==
    ASSUME NEW a \in Actives
    PROVE Restored(a) \in Actives /\ Restored(a).st \in PktStates \ {"EXTRA"}
BY DEF Restored, Actives, PktStates

LEMMA TypeSets ==
    TypeOK <=> /\ mode \in Modes /\ flashMode \in Modes
               /\ dirty \in BOOLEAN /\ default \in BOOLEAN
               /\ wasAsleep \in BOOLEAN
               /\ radio \in Radios /\ queue \in Queues /\ active \in Actives
               /\ noacked \in Nat
               /\ waitReceive \in BOOLEAN /\ waitExtra \in BOOLEAN
               /\ waitRxEnd \in BOOLEAN /\ waitClear \in BOOLEAN
               /\ task \in BOOLEAN /\ txTimer \in 0 .. TxMax + 1
               /\ callsLeft \in 0 .. MaxCalls /\ dlLeft \in 0 .. MaxDl
BY DEF TypeOK, Radios, Queues, Actives

-----------------------------------------------------------------------------
(***************************************************************************)
(* What a frame or a call changes.                                         *)
(***************************************************************************)
ChangeOK(c) == c \in Changes /\ AckOK(c.active)

\* A frame may wake a device that is OFF: then something is to be sent, or the
\* process task is forced.
FrameOK(c) == /\ ChangeOK(c)
              /\ c.active.st # "EXTRA"
              /\ c.state \in {radio.state, "CHANGED"}
              /\ mode = "OFF" /\ c.mode # "OFF" =>
                    c.force \/ c.queue["SYS"] > 0

LEMMA NowOK ==
    ASSUME TypeOK, AckOK(active)
    PROVE ChangeOK(Now) /\ FrameOK(Base)
<1>1. Restored(active) \in Actives /\ Restored(active).st # "EXTRA"
  BY RestoredType, TypeSets
<1>2. AckOK(Restored(active))
  BY TypeSets DEF AckOK, Restored, Actives
<1>3. Now \in Changes
  BY TypeSets DEF Now, Changes, Radios
<1>4. /\ Base = [Now EXCEPT !.active = Restored(active)]
      /\ Base.active = Restored(active) /\ Base.mode = mode
      /\ Base.state = radio.state
  BY DEF Base, Now
<1>5. Base \in Changes
  BY <1>1, <1>3, <1>4 DEF Changes
<1>6. AckOK(Now.active)
  BY DEF Now
<1> QED BY <1>1, <1>2, <1>3, <1>4, <1>5, <1>6 DEF ChangeOK, FrameOK

LEMMA SendOK ==
    ASSUME NEW c, ChangeOK(c), NEW k \in Kinds
    PROVE /\ ChangeOK(Send(c, k))
          /\ FrameOK(c) => FrameOK(Send(c, k))
          /\ Send(c, k).queue[k] > 0
          /\ Send(c, k).mode = c.mode /\ Send(c, k).force = c.force
          /\ Send(c, k).active = c.active /\ Send(c, k).state = c.state
<1>1. c \in Changes /\ c.queue \in Queues
  BY DEF ChangeOK, Changes
<1>2. Queued(c.queue, k) \in Queues
  BY <1>1, QueuedType
<1>3. Queued(c.queue, k)[k] > 0 /\ (c.queue["SYS"] > 0 => Queued(c.queue, k)["SYS"] > 0)
  BY <1>1, BoundAssumption DEF Queued, Queues, Kinds, Urgent
<1>4. /\ Send(c, k) \in Changes /\ Send(c, k).queue = Queued(c.queue, k)
      /\ Send(c, k).mode = c.mode /\ Send(c, k).force = c.force
      /\ Send(c, k).active = c.active /\ Send(c, k).state = c.state
  BY <1>1, <1>2 DEF Send, Changes
<1> QED BY <1>3, <1>4 DEF ChangeOK, FrameOK

LEMMA AnswerOK ==
    ASSUME NEW c, FrameOK(c), NEW f \in Flags, NEW k \in Kinds
    PROVE FrameOK(Answer(c, f, k))
BY SendOK DEF Answer, FrameOK

LEMMA SetDefaultOK ==
    ASSUME NEW c, ChangeOK(c)
    PROVE /\ ChangeOK(SetDefault(c))
          /\ SetDefault(c).state = c.state
          /\ c.active.st # "EXTRA" => SetDefault(c).active.st # "EXTRA"
<1> DEFINE lost == c.active.st = "WAIT_ACK"
           st1 == IF lost THEN "LOST" ELSE c.active.st
           a1 == [c.active EXCEPT !.st = st1]
           n1 == IF lost THEN 0 ELSE c.noacked
           d == [c EXCEPT !.mode = c.flash, !.default = TRUE,
                          !.active = a1, !.noacked = n1]
<1>1. c \in Changes /\ c.active \in Actives /\ AckOK(c.active)
      /\ c.noacked \in Nat /\ c.flash \in Modes
  BY DEF ChangeOK, Changes
<1>2. SetDefault(c) = d
  BY <1>1 DEF SetDefault, Changes, Actives
<1>3. /\ a1 \in Actives /\ AckOK(a1)
      /\ c.active.st # "EXTRA" => a1.st # "EXTRA"
  BY <1>1 DEF Actives, AckOK, PktStates
<1>4. n1 \in Nat
  BY <1>1
<1> HIDE DEF a1, n1
<1>5. /\ d \in Changes /\ d.active = a1 /\ d.state = c.state
  BY <1>1, <1>3, <1>4 DEF Changes
<1> QED BY <1>2, <1>3, <1>5 DEF ChangeOK

LEMMA WriteModeOK ==
    ASSUME NEW c, ChangeOK(c), NEW m \in Modes, NEW chan \in BOOLEAN
    PROVE /\ ChangeOK(WriteMode(c, m, chan))
          /\ WriteMode(c, m, chan).force
          /\ WriteMode(c, m, chan).active = c.active
          /\ WriteMode(c, m, chan).state \in {c.state, "CHANGED"}
BY DEF WriteMode, ChangeOK, Changes, RfStates

LEMMA WriteAndSaveOK ==
    ASSUME NEW c, ChangeOK(c), NEW m \in Modes, NEW chan \in BOOLEAN
    PROVE /\ ChangeOK(WriteAndSave(c, m, chan))
          /\ WriteAndSave(c, m, chan).force
          /\ WriteAndSave(c, m, chan).state \in {c.state, "CHANGED"}
          /\ c.active.st # "EXTRA" => WriteAndSave(c, m, chan).active.st # "EXTRA"
<1> DEFINE w == WriteMode(SetDefault(c), m, chan)
           d == [w EXCEPT !.dirty = TRUE]
<1>1. /\ ChangeOK(w) /\ w.force /\ w.active = SetDefault(c).active
      /\ w.state \in {c.state, "CHANGED"}
  BY SetDefaultOK, WriteModeOK
<1>2. c.active.st # "EXTRA" => w.active.st # "EXTRA"
  BY <1>1, SetDefaultOK
<1> HIDE DEF w
<1>3. /\ ChangeOK(d) /\ d.force = w.force /\ d.active = w.active
      /\ d.state = w.state
  BY <1>1 DEF ChangeOK, Changes
<1>4. WriteAndSave(c, m, chan) = Send(d, "SYS")
  BY DEF WriteAndSave, w
<1> HIDE DEF d
<1>5. "SYS" \in Kinds
  BY DEF Kinds, Urgent
<1>6. /\ ChangeOK(Send(d, "SYS")) /\ Send(d, "SYS").force = d.force
      /\ Send(d, "SYS").state = d.state /\ Send(d, "SYS").active = d.active
  BY <1>3, <1>5, SendOK
<1>7. Send(d, "SYS").force
  BY <1>1, <1>3, <1>6
<1> QED BY <1>1, <1>2, <1>3, <1>4, <1>6, <1>7

LEMMA FactoryOK ==
    ASSUME NEW c, FrameOK(c)
    PROVE FrameOK(Send(Factory(c), "SYS"))
<1> DEFINE b == [c EXCEPT !.flash = FirstMode]
           d == SetDefault(b)
<1>1. /\ ChangeOK(b) /\ b.state = c.state /\ b.active = c.active
  BY DEF FrameOK, ChangeOK, Changes, Modes
<1>2. /\ ChangeOK(d) /\ d.state = c.state /\ d.active.st # "EXTRA"
  BY <1>1, SetDefaultOK DEF FrameOK
<1>3. Factory(c) = Send(d, "SYS") /\ "SYS" \in Kinds
  BY DEF Factory, Kinds, Urgent
<1> HIDE DEF d, b
<1>4. FrameOK(Factory(c))
  BY <1>2, <1>3, SendOK DEF FrameOK
<1> QED BY <1>3, <1>4, SendOK DEF FrameOK

-----------------------------------------------------------------------------
(***************************************************************************)
(* The steps.  StepOK is what every one of them must do.                   *)
(***************************************************************************)
StepOK == RfInv' /\ KeepsListening /\ KeepsSending

\* Whoever awaits something in a mode that listens wants the receiver on.
LEMMA AwaitingWanted ==
    ASSUME NEW m \in {"DRX", "CRX"}, NEW a, NEW re, NEW wc,
           a.st = "WAIT_ACK" \/ wc \/ re
    PROVE Wanted(m, a, re, wc) = "RX"
BY DEF Wanted

\* A pass through the task ends with Again: what the step must still show.
LEMMA EndsOK ==
    ASSUME RfInv, mode # "OFF",
           NEW r, RadioOK(r), NEW q \in Queues, NEW a \in Actives, AckOK(a),
           NEW re \in BOOLEAN, NEW wc \in BOOLEAN,
           (r.hw = "TX" \/ (r.transmit /\ r.hw # "RX")) => ~re,
           Ends(r, q, a, re, wc),
           queue' = q, active' = a, waitRxEnd' = re, waitClear' = wc,
           noacked' \in Nat, waitReceive' \in BOOLEAN, waitExtra' \in BOOLEAN,
           txTimer' \in 0 .. TxMax + 1,
           UNCHANGED <<settingVars, callsLeft, dlLeft>>
    PROVE RfInv'
<1> DEFINE e == Again(r, mode, q, a, re, wc)
<1>1. /\ RadioOK(e.radio) /\ e.task \in BOOLEAN
      /\ ~e.task => /\ mode \in Low /\ ~HasPkt(q, a)
                    /\ e.radio.state = "OFF"
                    /\ Wanted(mode, a, re, wc) = "OFF"
      /\ e.radio.transmit => r.transmit
      /\ e.radio.hw = "TX" => r.hw = "TX"
  BY AgainOK
<1>2. radio' = e.radio /\ task' = e.task
  BY DEF Ends
<1>3. TypeOK'
  BY <1>1, <1>2, TypeSets DEF RfInv, TypeOK, RadioOK, Radios, Queues, Actives,
     settingVars
<1>4. mode' = mode
  BY DEF settingVars
<1>5. NotForgotten'
  <2>1. SUFFICES ASSUME ~e.task PROVE ~Busy'
    BY <1>2, <1>4 DEF NotForgotten
  <2>2. radio'.hw = "OFF" /\ ~radio'.transmit
    BY <1>1, <1>2, <2>1 DEF RadioOK
  <2> QED BY <1>1, <1>4, <2>1, <2>2 DEF Busy
<1>6. (radio'.hw = "TX" \/ (radio'.transmit /\ radio'.hw # "RX")) => ~re
  <2>1. CASE r.hw # "RX"
    BY <1>1, <1>2, <2>1
  <2>2. CASE r.hw = "RX"
    BY <1>1, <1>2, <2>2, AgainRx
  <2> QED BY <2>1, <2>2
<1> QED BY <1>1, <1>2, <1>3, <1>5, <1>6 DEF RfInv

LEMMA SameRadio ==
    ASSUME radio'.hw = radio.hw, radio'.transmit = radio.transmit
    PROVE KeepsListening /\ KeepsSending
BY DEF KeepsListening, KeepsSending

LEMMA AgainSending ==
    ASSUME NEW r, r.state # "CHANGED", InProgress(r),
           NEW m, NEW q, NEW a, NEW re, NEW wc
    PROVE Again(r, m, q, a, re, wc) = [radio |-> r, task |-> TRUE]
BY DEF Again

LEMMA CandidatesOK ==
    ASSUME NEW q \in Queues, NEW a \in Actives, NEW k \in Candidates(q, a)
    PROVE k = "AGAIN" \/ (k \in Kinds /\ q[k] > 0)
BY DEF Candidates, Kinds

LEMMA BehindType ==
    ASSUME NEW a \in Actives
    PROVE /\ Behind(a) \in 0 .. None
          /\ a.st \in Unfinished \/ a.behind # None
                => Behind(a) \in 0 .. MaxRetry
BY DEF Behind, Actives, None

LEMMA DroppedOK ==
    ASSUME NEW a \in Actives, AckOK(a)
    PROVE /\ Dropped(a) \in Actives /\ AckOK(Dropped(a))
          /\ a.st # "EXTRA" => Dropped(a).st # "EXTRA"
<1> DEFINE d == [st |-> "FREE", old |-> a.old, ack |-> FALSE, retry |-> 0,
                 behind |-> a.retry]
<1>1. CASE a.st \in Unfinished
  <2>1. Dropped(a) = d
    BY <1>1 DEF Dropped, IdlePkt
  <2>2. d \in Actives /\ d.st = "FREE"
    BY DEF Actives, PktStates, None
  <2> QED BY <2>1, <2>2 DEF AckOK
<1>2. CASE a.st \notin Unfinished
  BY <1>2 DEF Dropped
<1> QED BY <1>1, <1>2

LEMMA SentAsOK ==
    ASSUME TypeOK, AckOK(active), NEW k \in Candidates(queue, active)
    PROVE SentAs(k) \in Actives /\ AckOK(SentAs(k))
<1> DEFINE ack   == k \in {"ACKED", "AGAIN"}
           st    == IF ack THEN "WAIT_ACK" ELSE "SENT_NOACKED"
           retry == IF k = "AGAIN" THEN Behind(active) ELSE 0
<1>1. active \in Actives /\ active.old \in PktStates \ {"EXTRA"}
  BY TypeSets DEF Actives
<1>2. /\ ack \in BOOLEAN /\ st \in PktStates /\ st # "EXTRA"
      /\ st = "WAIT_ACK" => ack
  BY DEF PktStates
<1>3. retry \in 0 .. MaxRetry
  <2>1. CASE k = "AGAIN"
    <3>1. active.st \in Unfinished \/ active.behind # None
      BY <2>1 DEF Candidates, Urgent, New, Unfinished
    <3> QED BY <1>1, <2>1, <3>1, BehindType
  <2>2. CASE k # "AGAIN"
    BY <2>2
  <2> QED BY <2>1, <2>2
<1>4. StillDue(k) \in 0 .. None
  BY <1>1, BehindType DEF StillDue, None
<1>5. CASE mode = "NRX" \/ (~ack /\ k \notin {"UNACKED", "MISSED"})
  <2>1. SentAs(k) = [st |-> "FREE", old |-> active.old, ack |-> FALSE,
                     retry |-> 0, behind |-> StillDue(k)]
    BY <1>5 DEF SentAs, IdlePkt
  <2>2. 0 \in 0 .. MaxRetry /\ "FREE" \in PktStates
    BY DEF PktStates
  <2> QED BY <1>1, <1>4, <2>1, <2>2 DEF Actives, AckOK
<1>6. CASE ~(mode = "NRX" \/ (~ack /\ k \notin {"UNACKED", "MISSED"}))
  <2>1. SentAs(k) = [st |-> st, old |-> active.old, ack |-> ack,
                     retry |-> retry, behind |-> StillDue(k)]
    BY <1>6 DEF SentAs
  <2> HIDE DEF st, ack, retry
  <2> QED BY <1>1, <1>2, <1>3, <1>4, <2>1 DEF Actives, AckOK
<1> QED BY <1>5, <1>6

LEMMA InitOK == Init => RfInv
<1> SUFFICES ASSUME Init PROVE RfInv
  OBVIOUS
<1>1. /\ queue \in Queues /\ active \in Actives /\ AckOK(active)
  <2>1. "SYS" \in Kinds
    BY DEF Kinds, Urgent
  <2>2. AckOK(IdlePkt)
    BY DEF AckOK, IdlePkt
  <2> QED BY <2>1, <2>2, EmptyType, QueuedType DEF Init
<1>2. RadioOK(radio) /\ radio.hw # "TX" /\ ~radio.transmit
  BY DEF Init, RadioOK, Radios, RfStates, Deinit
<1>3. TypeOK
  <2>1. mode \in Modes /\ flashMode \in Modes
    BY DEF Init, Modes
  <2>2. /\ dirty \in BOOLEAN /\ default \in BOOLEAN /\ wasAsleep \in BOOLEAN
        /\ waitReceive \in BOOLEAN /\ waitExtra \in BOOLEAN
        /\ waitRxEnd \in BOOLEAN /\ waitClear \in BOOLEAN /\ task \in BOOLEAN
    BY DEF Init
  <2>3. /\ noacked \in Nat /\ txTimer \in 0 .. TxMax + 1
        /\ callsLeft \in 0 .. MaxCalls /\ dlLeft \in 0 .. MaxDl
    BY DEF Init
  <2>4. radio \in Radios
    BY <1>2 DEF RadioOK
  <2> QED BY <1>1, <2>1, <2>2, <2>3, <2>4, TypeSets
<1>4. NotForgotten
  BY DEF Init, NotForgotten
<1> QED BY <1>1, <1>2, <1>3, <1>4 DEF RfInv

LEMMA ProcessOffOK == RfInv /\ ProcessOff => StepOK
<1> SUFFICES ASSUME RfInv, ProcessOff PROVE StepOK
  OBVIOUS
<1>1. radio' = Control(radio, mode, active, waitRxEnd, waitClear)
  BY DEF ProcessOff
<1>2. RadioOK(radio') /\ radio'.hw # "TX"
  BY <1>1, ControlOK DEF RfInv
<1>3. radio' = radio \/ radio' = Deinit \/ radio'.hw = "RX"
  BY <1>1, ControlCases DEF RfInv
<1>4. AckOK(IdlePkt)
  BY DEF AckOK, IdlePkt
<1>5. TypeOK'
  BY <1>2, EmptyType, TypeSets
     DEF ProcessOff, RfInv, TypeOK, RadioOK, Radios, Queues, Actives,
         settingVars, waitVars
<1>6. mode' = "OFF" /\ mode = "OFF" /\ waitRxEnd' = waitRxEnd /\ active' = IdlePkt
  BY DEF ProcessOff, settingVars, waitVars
<1>7. ~Deinit.transmit
  BY DEF Deinit
<1> QED
  BY <1>2, <1>3, <1>4, <1>5, <1>6, <1>7
     DEF StepOK, RfInv, NotForgotten, KeepsListening, KeepsSending

LEMMA ProcessWaitOK == RfInv /\ ProcessWait => StepOK
<1> SUFFICES ASSUME RfInv, ProcessWait PROVE StepOK
  OBVIOUS
<1>1. /\ mode # "OFF" /\ ~radio.transmit /\ mode' = mode
      /\ active' = active /\ queue' = queue /\ noacked' = noacked
      /\ waitRxEnd' = waitRxEnd /\ waitClear' = waitClear
      /\ Ends(radio, queue, active, waitRxEnd, waitClear)
      /\ UNCHANGED <<settingVars, callsLeft, dlLeft>>
  BY DEF ProcessWait, Free, packetVars, settingVars
<1>2. /\ waitReceive' \in BOOLEAN /\ waitExtra' \in BOOLEAN
      /\ txTimer' \in 0 .. TxMax + 1
  BY DEF ProcessWait
<1>3. RfInv'
  BY <1>1, <1>2, EndsOK, TypeSets DEF RfInv
<1>4. KeepsListening
  <2> SUFFICES ASSUME radio.hw = "RX", mode \in {"DRX", "CRX"}, Awaiting'
               PROVE radio'.hw = "RX"
    BY <1>1 DEF KeepsListening
  <2>1. Wanted(mode, active, waitRxEnd, waitClear) = "RX"
    BY <1>1, AwaitingWanted DEF Awaiting
  <2> QED BY <1>1, <2>1, AgainListens DEF RfInv, Ends
<1>5. KeepsSending
  BY <1>1 DEF KeepsSending
<1> QED BY <1>3, <1>4, <1>5 DEF StepOK

LEMMA ProcessSendOK == RfInv /\ ProcessSend => StepOK
<1> SUFFICES ASSUME RfInv, ProcessSend PROVE StepOK
  OBVIOUS
<1> DEFINE r == [state |-> "TX", hw |-> "TX", transmit |-> TRUE]
<1>1. PICK k \in Candidates(queue, active) :
         LET a  == SentAs(k)
             q  == IF k = "AGAIN" THEN queue ELSE [queue EXCEPT ![k] = @ - 1]
             wc == k = "ACK_MULTI" /\ ~HasPkt(q, active)
             re == ClosesRxEnd(waitRxEnd)
         IN  /\ active' = a /\ queue' = q
             /\ noacked' = IF active.st = "SENT_NOACKED"
                           THEN noacked + 1 ELSE noacked
             /\ waitReceive' = (waitReceive \/ a.st = "WAIT_ACK")
             /\ waitClear' = wc
             /\ waitRxEnd' = re
             /\ Ends(r, q, a, re, wc)
  BY DEF ProcessSend
<1> DEFINE a == SentAs(k)
           q == IF k = "AGAIN" THEN queue ELSE [queue EXCEPT ![k] = @ - 1]
           wc == k = "ACK_MULTI" /\ ~HasPkt(q, active)
<1>2. a \in Actives /\ AckOK(a)
  BY SentAsOK DEF RfInv
<1>3. q \in Queues
  BY CandidatesOK, TypeSets DEF RfInv, Queues
<1>4. wc \in BOOLEAN
  OBVIOUS
<1>5. RadioOK(r) /\ InProgress(r) /\ r.state # "CHANGED" /\ r.transmit
  BY DEF RadioOK, Radios, RfStates, InProgress
<1>6. /\ mode # "OFF" /\ ~radio.transmit
      /\ UNCHANGED <<settingVars, callsLeft, dlLeft>> /\ waitExtra' = waitExtra
      /\ txTimer' = 0
  BY DEF ProcessSend, Free
<1>7. active' = a /\ queue' = q /\ waitClear' = wc /\ waitRxEnd' = FALSE
      /\ Ends(r, q, a, FALSE, wc)
  BY <1>1 DEF ClosesRxEnd
<1>8. noacked' \in Nat /\ waitReceive' \in BOOLEAN
  BY <1>1, TypeSets DEF RfInv
<1>9. waitExtra' \in BOOLEAN /\ txTimer' \in 0 .. TxMax + 1
  BY <1>6, TypeSets DEF RfInv
<1> HIDE DEF r, a, q, wc
<1>10. RfInv'
  BY <1>2, <1>3, <1>4, <1>5, <1>6, <1>7, <1>8, <1>9, EndsOK
<1>11. radio' = r
  <2>1. Again(r, mode, q, a, FALSE, wc) = [radio |-> r, task |-> TRUE]
    BY <1>5, AgainSending
  <2>2. [radio |-> r, task |-> TRUE].radio = r
    OBVIOUS
  <2>3. radio' = Again(r, mode, q, a, FALSE, wc).radio
    BY <1>7 DEF Ends
  <2> QED BY <2>1, <2>2, <2>3
<1>12. KeepsListening /\ KeepsSending
  BY <1>5, <1>6, <1>11 DEF KeepsListening, KeepsSending
<1> QED BY <1>10, <1>12 DEF StepOK

LEMMA ProcessRestOK == RfInv /\ ProcessRest => StepOK
<1> SUFFICES ASSUME RfInv, ProcessRest PROVE StepOK
  OBVIOUS
<1> DEFINE r == Control(radio, mode, active, waitRxEnd, waitClear)
<1>1. /\ mode # "OFF" /\ ~radio.transmit /\ mode' = mode
      /\ active' = active /\ queue' = queue /\ noacked' = noacked
      /\ waitRxEnd' = waitRxEnd /\ waitClear' = waitClear
      /\ waitReceive' = waitReceive /\ waitExtra' = waitExtra
      /\ Ends(r, queue, active, waitRxEnd, waitClear)
      /\ UNCHANGED <<settingVars, callsLeft, dlLeft>>
      /\ txTimer' = 0
  BY DEF ProcessRest, Free, packetVars, settingVars, waitVars
<1>2. /\ RadioOK(r) /\ r.hw # "TX" /\ ~r.transmit
      /\ r.state = Wanted(mode, active, waitRxEnd, waitClear)
  BY <1>1, ControlOK DEF RfInv
<1>3. txTimer' \in 0 .. TxMax + 1
  BY <1>1
<1> HIDE DEF r
<1>4. RfInv'
  BY <1>1, <1>2, <1>3, EndsOK, TypeSets DEF RfInv
<1>5. KeepsListening
  <2> SUFFICES ASSUME mode \in {"DRX", "CRX"}, Awaiting'
               PROVE radio'.hw = "RX"
    BY <1>1 DEF KeepsListening
  <2>1. Wanted(mode, active, waitRxEnd, waitClear) = "RX"
    BY <1>1, AwaitingWanted DEF Awaiting
  <2>2. r.hw = "RX"
    BY <1>2, <2>1 DEF RadioOK
  <2> QED BY <1>1, <1>2, <2>1, <2>2, AgainListens DEF Ends
<1>6. KeepsSending
  BY <1>1 DEF KeepsSending
<1> QED BY <1>4, <1>5, <1>6 DEF StepOK

LEMMA ProcessBusyOK == RfInv /\ ProcessBusy => StepOK
<1> SUFFICES ASSUME RfInv, ProcessBusy PROVE StepOK
  OBVIOUS
<1> DEFINE over == ~InProgress(radio) \/ txTimer >= TxMax
           f == Finished(radio, mode, queue, active, waitRxEnd, waitClear)
           r == IF over THEN f ELSE radio
<1>1. /\ mode # "OFF" /\ mode' = mode
      /\ active' = active /\ queue' = queue /\ noacked' = noacked
      /\ waitRxEnd' = waitRxEnd /\ waitClear' = waitClear
      /\ waitReceive' = waitReceive /\ waitExtra' = waitExtra
      /\ Ends(r, queue, active, waitRxEnd, waitClear)
      /\ UNCHANGED <<settingVars, callsLeft, dlLeft>>
  BY DEF ProcessBusy, packetVars, settingVars, waitVars
<1>2. /\ RadioOK(f) /\ ~f.transmit /\ (f.hw = "TX" => radio.hw = "TX")
      /\ radio.transmit /\ ~GoesOn(queue, active, waitClear) =>
            f.state = Wanted(mode, active, waitRxEnd, waitClear)
  BY FinishedOK DEF RfInv
<1>3. txTimer' \in 0 .. TxMax + 1
  BY TypeSets DEF ProcessBusy, RfInv
<1>4. /\ RadioOK(r)
      /\ (r.hw = "TX" \/ (r.transmit /\ r.hw # "RX")) => ~waitRxEnd
  BY <1>2 DEF RfInv
<1>5. ~radio.transmit => f = radio
  BY DEF Finished
<1>6. radio.transmit /\ GoesOn(queue, active, waitClear) => f.hw = radio.hw
  BY DEF Finished, RfInv, RadioOK, Radios
<1> HIDE DEF r, f
<1>7. RfInv'
  BY <1>1, <1>3, <1>4, EndsOK, TypeSets DEF RfInv
<1>8. radio' = Again(r, mode, queue, active, waitRxEnd, waitClear).radio
  BY <1>1 DEF Ends
<1>9. CASE ~over
  <2>1. r = radio
    BY <1>9 DEF r
  <2>2. InProgress(radio) /\ radio.state # "CHANGED" /\ radio.hw = "TX"
    BY <1>9 DEF InProgress
  <2>3. Again(r, mode, queue, active, waitRxEnd, waitClear)
          = [radio |-> radio, task |-> TRUE]
    BY <2>1, <2>2, AgainSending
  <2>4. [radio |-> radio, task |-> TRUE].radio = radio
    OBVIOUS
  <2>5. radio' = radio
    BY <1>8, <2>3, <2>4
  <2>6. KeepsListening /\ KeepsSending
    BY <2>5, SameRadio
  <2> QED BY <1>7, <2>6 DEF StepOK
<1>10. CASE over
  <2>1. r = f
    BY <1>10 DEF r
  <2>2. KeepsListening
    <3> SUFFICES ASSUME radio.transmit \/ radio.hw = "RX",
                        mode \in {"DRX", "CRX"}, Awaiting'
                 PROVE radio'.hw = "RX"
      BY <1>1 DEF KeepsListening
    <3>1. Wanted(mode, active, waitRxEnd, waitClear) = "RX"
      BY <1>1, AwaitingWanted DEF Awaiting
    <3>2. f.hw = "RX"
      <4>1. CASE ~radio.transmit
        BY <1>5, <4>1
      <4>2. CASE radio.transmit /\ ~GoesOn(queue, active, waitClear)
        BY <1>2, <3>1, <4>2 DEF RadioOK
      <4>3. CASE radio.transmit /\ GoesOn(queue, active, waitClear)
        <5>1. ~active.ack /\ ~waitClear
          BY <4>3 DEF GoesOn
        <5>2. active.st # "WAIT_ACK"
          BY <5>1 DEF RfInv, AckOK
        <5>3. waitRxEnd
          BY <1>1, <5>1, <5>2 DEF Awaiting
        <5>4. radio.hw = "RX"
          BY <4>3, <5>3 DEF RfInv
        <5> QED BY <1>6, <4>3, <5>4
      <4> QED BY <4>1, <4>2, <4>3
    <3> QED BY <1>2, <1>8, <2>1, <3>1, <3>2, AgainListens
  <2>3. KeepsSending
    <3> SUFFICES ASSUME radio.hw = "TX", txTimer < TxMax
                 PROVE radio.state = "CHANGED"
      BY TypeSets DEF KeepsSending, RfInv
    <3>1. ~InProgress(radio)
      BY <1>10, TypeSets DEF RfInv
    <3> QED BY <3>1 DEF InProgress, RfInv, RadioOK, Radios, RfStates
  <2> QED BY <1>7, <2>2, <2>3 DEF StepOK
<1> QED BY <1>9, <1>10

LEMMA TxDoneOK == RfInv /\ TxDone => StepOK
<1> SUFFICES ASSUME RfInv, TxDone PROVE StepOK
  OBVIOUS
<1> DEFINE r == [radio EXCEPT !.hw = "OFF"]
           f == Finished(r, mode, queue, active, waitRxEnd, waitClear)
<1>1. radio' = f /\ radio.hw = "TX" /\ ~waitRxEnd
  BY DEF TxDone, RfInv
<1>2. /\ RadioOK(r) /\ r.hw = "OFF" /\ r.transmit = radio.transmit
  BY <1>1 DEF RfInv, RadioOK, Radios
<1> HIDE DEF r
<1>3. /\ RadioOK(f) /\ ~f.transmit /\ f.hw # "TX"
      /\ radio.transmit /\ ~GoesOn(queue, active, waitClear) =>
            f.state = Wanted(mode, active, waitRxEnd, waitClear)
  BY <1>2, FinishedOK
<1>4. UNCHANGED <<settingVars, packetVars, waitVars, txTimer, callsLeft, dlLeft>>
  BY DEF TxDone
<1>5. task' \in BOOLEAN /\ (task => task')
  BY DEF TxDone
<1>6. TypeOK'
  BY <1>1, <1>3, <1>4, <1>5 DEF RfInv, TypeOK, RadioOK, Radios,
     settingVars, packetVars, waitVars
<1>7. NotForgotten'
  BY <1>1, <1>4, <1>5 DEF RfInv, NotForgotten, Busy, settingVars
<1>8. RfInv'
  BY <1>1, <1>3, <1>4, <1>6, <1>7 DEF RfInv, packetVars, waitVars
<1>9. KeepsListening
  <2> SUFFICES ASSUME radio.transmit, mode \in {"DRX", "CRX"}, Awaiting'
               PROVE radio'.hw = "RX"
    BY <1>1 DEF KeepsListening
  <2>1. active.st = "WAIT_ACK" \/ waitClear
    BY <1>1, <1>4 DEF Awaiting, packetVars, waitVars
  <2>2. Wanted(mode, active, waitRxEnd, waitClear) = "RX"
    BY <2>1, AwaitingWanted
  <2>3. ~GoesOn(queue, active, waitClear)
    BY <2>1 DEF GoesOn, RfInv, AckOK
  <2> QED BY <1>1, <1>3, <2>2, <2>3 DEF RadioOK
<1>10. KeepsSending
  BY DEF KeepsSending
<1> QED BY <1>8, <1>9, <1>10 DEF StepOK

LEMMA TxSilentOK == RfInv /\ TxSilent => StepOK
<1> SUFFICES ASSUME RfInv, TxSilent PROVE StepOK
  OBVIOUS
<1>1. /\ radio' = [radio EXCEPT !.hw = "OFF"] /\ radio.hw = "TX" /\ ~waitRxEnd
      /\ UNCHANGED <<settingVars, packetVars, waitVars, task, txTimer,
                     callsLeft, dlLeft>>
  BY DEF TxSilent, RfInv
<1>2. /\ RadioOK(radio') /\ radio'.hw = "OFF"
      /\ radio'.transmit = radio.transmit
  BY <1>1 DEF RfInv, RadioOK, Radios
<1>3. TypeOK'
  BY <1>1, <1>2 DEF RfInv, TypeOK, RadioOK, Radios,
     settingVars, packetVars, waitVars
<1>4. NotForgotten'
  BY <1>1 DEF RfInv, NotForgotten, Busy, settingVars
<1>5. RfInv'
  BY <1>1, <1>2, <1>3, <1>4 DEF RfInv, packetVars, waitVars
<1>6. KeepsListening /\ KeepsSending
  BY <1>1, <1>2 DEF KeepsListening, KeepsSending
<1> QED BY <1>5, <1>6 DEF StepOK

LEMMA RxEndOK == RfInv /\ RxEnd => StepOK
<1> SUFFICES ASSUME RfInv, RxEnd PROVE StepOK
  OBVIOUS
<1> DEFINE r == Control(radio, mode, active, FALSE, waitClear)
<1>1. /\ waitRxEnd /\ ~waitRxEnd' /\ waitRxEnd' \in BOOLEAN /\ radio' = r
      /\ UNCHANGED <<settingVars, packetVars, waitReceive, waitExtra, waitClear,
                     task, txTimer, callsLeft, dlLeft>>
  BY DEF RxEnd
<1>2. /\ RadioOK(r) /\ r.hw # "TX" /\ (r.transmit => radio.transmit)
      /\ r.state = Wanted(mode, active, FALSE, waitClear)
  BY ControlOK DEF RfInv
<1> HIDE DEF r
<1>3. TypeOK'
  BY <1>1, <1>2 DEF RfInv, TypeOK, RadioOK, Radios, settingVars, packetVars
<1>4. NotForgotten'
  <2> SUFFICES ASSUME mode # "OFF", Busy' PROVE task
    BY <1>1 DEF NotForgotten, settingVars
  <2>1. /\ mode' = mode /\ queue' = queue /\ active' = active
        /\ waitClear' = waitClear /\ waitRxEnd' = FALSE
    BY <1>1 DEF settingVars, packetVars
  <2>2. CASE HasPkt(queue, active) \/ radio.transmit
    BY <2>2 DEF RfInv, NotForgotten, Busy
  <2>3. CASE ~(HasPkt(queue, active) \/ radio.transmit)
    <3>1. Wanted(mode, active, FALSE, waitClear) = "RX"
      BY <1>1, <1>2, <2>1, <2>3, WantedType DEF Busy, RadioOK
    <3>2. Wanted(mode, active, waitRxEnd, waitClear) = "RX"
      BY <3>1 DEF Wanted
    <3> QED BY <3>2 DEF RfInv, NotForgotten, Busy
  <2> QED BY <2>2, <2>3
<1>5. RfInv'
  BY <1>1, <1>2, <1>3, <1>4 DEF RfInv, packetVars
<1>6. KeepsListening
  <2> SUFFICES ASSUME mode \in {"DRX", "CRX"}, Awaiting' PROVE radio'.hw = "RX"
    BY DEF KeepsListening
  <2>1. active.st = "WAIT_ACK" \/ waitClear
    BY <1>1 DEF Awaiting, packetVars
  <2>2. Wanted(mode, active, FALSE, waitClear) = "RX"
    BY <2>1, AwaitingWanted
  <2> QED BY <1>1, <1>2, <2>2 DEF RadioOK
<1>7. KeepsSending
  BY <1>1 DEF KeepsSending, RfInv
<1> QED BY <1>5, <1>6, <1>7 DEF StepOK

LEMMA WaitClearEndsOK == RfInv /\ WaitClearEnds => StepOK
<1> SUFFICES ASSUME RfInv, WaitClearEnds PROVE StepOK
  OBVIOUS
<1>1. RfInv'
  BY DEF WaitClearEnds, RfInv, TypeOK, NotForgotten, settingVars, packetVars
<1>2. KeepsListening /\ KeepsSending
  BY SameRadio DEF WaitClearEnds
<1> QED BY <1>1, <1>2 DEF StepOK

LEMMA WaitExtraEndsOK == RfInv /\ WaitExtraEnds => StepOK
<1> SUFFICES ASSUME RfInv, WaitExtraEnds PROVE StepOK
  OBVIOUS
<1>1. /\ active' = Restored(active) /\ ~waitExtra' /\ waitExtra' \in BOOLEAN
      /\ task' = (task \/ HasPkt(queue, Restored(active)))
      /\ UNCHANGED <<settingVars, radio, queue, noacked, waitReceive, waitRxEnd,
                     waitClear, txTimer, callsLeft, dlLeft>>
  BY DEF WaitExtraEnds
<1>2. Restored(active) \in Actives
  BY RestoredType, TypeSets DEF RfInv
<1>3. AckOK(active')
  BY <1>1, TypeSets DEF RfInv, AckOK, Restored, Actives
<1>4. task' \in BOOLEAN
  BY <1>1
<1>5. TypeOK'
  BY <1>1, <1>2, <1>4 DEF RfInv, TypeOK, Actives, settingVars
<1>6. NotForgotten'
  <2> SUFFICES ASSUME mode # "OFF", Busy', ~HasPkt(queue, active') PROVE task
    BY <1>1 DEF NotForgotten, settingVars
  <2>1. mode' = mode /\ queue' = queue /\ radio' = radio
        /\ waitClear' = waitClear /\ waitRxEnd' = waitRxEnd
    BY <1>1 DEF settingVars
  <2>2. CASE radio.transmit \/ radio.hw # "OFF"
    BY <2>2 DEF RfInv, NotForgotten, Busy
  <2>3. CASE ~(radio.transmit \/ radio.hw # "OFF")
    <3>1. Wanted(mode, active', waitRxEnd, waitClear) = "RX"
      BY <2>1, <2>3 DEF Busy
    <3>2. Wanted(mode, active, waitRxEnd, waitClear) = "RX"
      BY <1>1, <3>1 DEF Wanted, Restored
    <3> QED BY <3>2 DEF RfInv, NotForgotten, Busy
  <2> QED BY <2>2, <2>3
<1>7. RfInv'
  BY <1>1, <1>3, <1>5, <1>6 DEF RfInv
<1>8. KeepsListening /\ KeepsSending
  BY <1>1, SameRadio
<1> QED BY <1>7, <1>8 DEF StepOK

\* A packet that no longer awaits its ACK.
LEMMA RetriedType ==
    ASSUME NEW a \in Actives, NEW st \in PktStates \ {"EXTRA", "WAIT_ACK"},
           NEW n \in 0 .. MaxRetry
    PROVE LET b == [a EXCEPT !.st = st, !.retry = n]
          IN  b \in Actives /\ AckOK(b) /\ b.st # "EXTRA"
<1> DEFINE a1 == [a EXCEPT !.st = st]
<1>1. a1 \in Actives /\ a1.st = st
  BY DEF Actives
<1>2. [a EXCEPT !.st = st, !.retry = n] = [a1 EXCEPT !.retry = n]
  OBVIOUS
<1> HIDE DEF a1
<1>3. /\ [a1 EXCEPT !.retry = n] \in Actives
      /\ [a1 EXCEPT !.retry = n].st = st
  BY <1>1 DEF Actives
<1> QED BY <1>2, <1>3 DEF AckOK

LEMMA GivenType ==
    ASSUME NEW a \in Actives, NEW st \in PktStates \ {"EXTRA", "WAIT_ACK"}
    PROVE LET b == [a EXCEPT !.st = st]
          IN  b \in Actives /\ AckOK(b) /\ b.st # "EXTRA"
BY DEF Actives, AckOK

LEMMA GiveUpOK ==
    ASSUME RfInv, GiveUp
    PROVE /\ mode' \in Modes /\ flashMode' = flashMode /\ default' \in BOOLEAN
          /\ dirty' = dirty /\ wasAsleep' = wasAsleep
          /\ queue' \in Queues /\ active' \in Actives /\ AckOK(active')
          /\ noacked' = 0
<1>1. /\ active \in Actives /\ AckOK(active) /\ queue \in Queues
      /\ mode \in Modes /\ flashMode \in Modes /\ default \in BOOLEAN
  BY TypeSets DEF RfInv
<1>2. /\ [active EXCEPT !.st = "LOST"] \in Actives
      /\ AckOK([active EXCEPT !.st = "LOST"])
      /\ [active EXCEPT !.st = "QUEUED", !.retry = 0] \in Actives
      /\ AckOK([active EXCEPT !.st = "QUEUED", !.retry = 0])
  <2>1. /\ {"LOST", "QUEUED"} \subseteq PktStates \ {"EXTRA", "WAIT_ACK"}
        /\ 0 \in 0 .. MaxRetry
    BY DEF PktStates
  <2> QED BY <1>1, <2>1, RetriedType, GivenType
<1>3. Queued(queue, "SYS") \in Queues
  BY <1>1, QueuedType DEF Kinds, Urgent
<1>4. CASE ~ResetOnLoss
  BY <1>1, <1>2, <1>4 DEF GiveUp, settingVars
<1>5. CASE ResetOnLoss
  BY <1>1, <1>2, <1>3, <1>5 DEF GiveUp
<1> QED BY <1>4, <1>5

LEMMA ReceiveTimeoutOK == RfInv /\ ReceiveTimeout => StepOK
<1> SUFFICES ASSUME RfInv, ReceiveTimeout PROVE StepOK
  OBVIOUS
<1>1. /\ ~waitReceive' /\ waitReceive' \in BOOLEAN
      /\ UNCHANGED <<radio, waitExtra, waitRxEnd, waitClear, txTimer, callsLeft,
                     dlLeft>>
  BY DEF ReceiveTimeout
<1>2. KeepsListening /\ KeepsSending
  BY <1>1, SameRadio
<1>3. CASE active.st # "WAIT_ACK"
  <2>1. UNCHANGED <<settingVars, packetVars, task>>
    BY <1>3 DEF ReceiveTimeout
  <2>2. RfInv'
    BY <1>1, <2>1 DEF RfInv, TypeOK, NotForgotten, Busy, settingVars, packetVars
  <2> QED BY <1>2, <2>2 DEF StepOK
<1>4. CASE active.st = "WAIT_ACK" /\ active.retry >= MaxRetry
  <2>1. task' = TRUE /\ GiveUp
    BY <1>4 DEF ReceiveTimeout
  <2>2. TypeOK' /\ AckOK(active')
    BY <1>1, <2>1, GiveUpOK DEF RfInv, TypeOK, Queues, Actives
  <2>3. RfInv'
    BY <1>1, <2>1, <2>2 DEF RfInv, NotForgotten
  <2> QED BY <1>2, <2>3 DEF StepOK
<1>5. CASE active.st = "WAIT_ACK" /\ ~(active.retry >= MaxRetry)
  <2>1. /\ task' = TRUE
        /\ active' = [active EXCEPT !.st = "QUEUED_AGAIN", !.retry = @ + 1]
        /\ UNCHANGED <<settingVars, queue, noacked>>
    BY <1>5 DEF ReceiveTimeout
  <2>2. active' \in Actives /\ AckOK(active')
    <3>1. active \in Actives /\ active.retry \in 0 .. MaxRetry
      BY TypeSets DEF RfInv, Actives
    <3>2. active.retry + 1 \in 0 .. MaxRetry
      BY <1>5, <3>1
    <3>3. "QUEUED_AGAIN" \in PktStates \ {"EXTRA", "WAIT_ACK"}
      BY DEF PktStates
    <3>4. active' = [active EXCEPT !.st = "QUEUED_AGAIN",
                                   !.retry = active.retry + 1]
      BY <2>1
    <3> QED BY <3>1, <3>2, <3>3, <3>4, RetriedType
  <2>3. TypeOK'
    BY <1>1, <2>1, <2>2 DEF RfInv, TypeOK, Actives, settingVars
  <2>4. RfInv'
    BY <1>1, <2>1, <2>2, <2>3 DEF RfInv, NotForgotten
  <2> QED BY <1>2, <2>4 DEF StepOK
<1> QED BY <1>3, <1>4, <1>5

\* The extra frame: the state of the active packet is put aside.
LEMMA HeardOK ==
    ASSUME RfInv, NEW c, FrameOK(c), NEW x \in BOOLEAN, Heard(c, x), Listening
    PROVE StepOK
<1> DEFINE ex == [c.active EXCEPT !.st = "EXTRA", !.old = c.active.st]
           a  == IF x THEN ex ELSE c.active
           re == waitRxEnd \/ (c.mode = "DRX" /\ KeepRxOpen)
           r  == [radio EXCEPT !.state = c.state]
           ct == Control(r, c.mode, a, re, FALSE)
<1>1. /\ c \in Changes /\ c.active \in Actives /\ AckOK(c.active)
      /\ c.active.st # "EXTRA" /\ c.state \in {radio.state, "CHANGED"}
      /\ c.queue \in Queues
  BY DEF FrameOK, ChangeOK, Changes
<1>2. a \in Actives /\ AckOK(a)
  BY <1>1 DEF Actives, AckOK, PktStates
<1>3. RadioOK(r) /\ r.hw = "RX" /\ r.transmit = radio.transmit
  BY <1>1 DEF RfInv, RadioOK, Radios, RfStates, Listening
<1>4. /\ mode' = c.mode /\ flashMode' = c.flash /\ dirty' = c.dirty
      /\ default' = c.default /\ queue' = c.queue /\ noacked' = c.noacked
      /\ waitReceive' = c.wait
  BY DEF Heard, Apply
<1>5. active' = a
  BY DEF Heard, Apply
<1>6. /\ waitClear' = FALSE /\ waitExtra' = x
      /\ UNCHANGED <<wasAsleep, txTimer, callsLeft>>
  BY DEF Heard
<1>7. /\ HasPkt(c.queue, a) =>
            task' = TRUE /\ radio' = r /\ waitRxEnd' = waitRxEnd
      /\ ~HasPkt(c.queue, a) =>
            task' = (task \/ c.force) /\ waitRxEnd' = re /\ radio' = ct
  BY DEF Heard
<1>8. dlLeft' \in 0 .. MaxDl
  BY TypeSets DEF Listening, RfInv
<1>9. re \in BOOLEAN /\ c.force \in BOOLEAN
  BY <1>1, TypeSets DEF Changes, RfInv
<1> HIDE DEF a, re, r
<1>10. /\ RadioOK(ct) /\ ct.hw # "TX"
       /\ ct.state = Wanted(c.mode, a, re, FALSE)
       /\ ct = r \/ ct = Deinit \/ ct.hw = "RX"
  <2>1. \A m, p, e, w : /\ RadioOK(Control(r, m, p, e, w))
                         /\ Control(r, m, p, e, w).hw # "TX"
                         /\ Control(r, m, p, e, w).state = Wanted(m, p, e, w)
    BY <1>3, ControlOK
  <2>2. \A m, p, e, w : \/ Control(r, m, p, e, w) = r
                         \/ Control(r, m, p, e, w) = Deinit
                         \/ Control(r, m, p, e, w).hw = "RX"
    BY <1>3, ControlCases
  <2> QED BY <2>1, <2>2
<1> HIDE DEF ct
<1>11. RadioOK(radio') /\ (radio'.hw = "RX" \/ radio' = Deinit)
  BY <1>3, <1>7, <1>10
<1>12. waitRxEnd' \in BOOLEAN /\ task' \in BOOLEAN
  BY <1>7, <1>9, TypeSets DEF RfInv
<1>13. TypeOK'
  <2>1. /\ mode' \in Modes /\ flashMode' \in Modes /\ dirty' \in BOOLEAN
        /\ default' \in BOOLEAN /\ noacked' \in Nat /\ waitReceive' \in BOOLEAN
    BY <1>1, <1>4 DEF Changes
  <2>2. /\ wasAsleep' \in BOOLEAN /\ txTimer' \in 0 .. TxMax + 1
        /\ callsLeft' \in 0 .. MaxCalls /\ waitClear' \in BOOLEAN
        /\ waitExtra' \in BOOLEAN
    BY <1>6, TypeSets DEF RfInv
  <2> QED BY <1>1, <1>2, <1>4, <1>5, <1>8, <1>11, <1>12, <2>1, <2>2
          DEF TypeOK, RadioOK, Radios, Queues, Actives
<1>14. NotForgotten'
  <2> SUFFICES ASSUME c.mode # "OFF", ~HasPkt(c.queue, a) PROVE task'
    BY <1>4, <1>7 DEF NotForgotten
  <2>1. CASE mode # "OFF"
    <3>1. task
      BY <2>1 DEF RfInv, NotForgotten, Busy, Listening
    <3> QED BY <1>7, <3>1
  <2>2. CASE mode = "OFF"
    <3>1. c.queue["SYS"] > 0 => HasPkt(c.queue, a)
      BY DEF HasPkt, Candidates, Urgent
    <3> QED BY <1>7, <2>2, <3>1 DEF FrameOK
  <2> QED BY <2>1, <2>2
<1>15. RfInv'
  <2>1. Deinit.hw = "OFF" /\ ~Deinit.transmit
    BY DEF Deinit
  <2> QED BY <1>2, <1>5, <1>11, <1>13, <1>14, <2>1 DEF RfInv
<1>16. KeepsListening
  <2> SUFFICES ASSUME mode' \in {"DRX", "CRX"}, Awaiting' PROVE radio'.hw = "RX"
    BY DEF KeepsListening
  <2>1. CASE HasPkt(c.queue, a)
    BY <1>3, <1>7, <2>1
  <2>2. CASE ~HasPkt(c.queue, a)
    <3>1. a.st = "WAIT_ACK" \/ re
      BY <1>5, <1>6, <1>7, <2>2 DEF Awaiting
    <3>2. Wanted(c.mode, a, re, FALSE) = "RX"
      BY <1>4, <3>1 DEF Wanted
    <3> QED BY <1>7, <1>10, <2>2, <3>2 DEF RadioOK
  <2> QED BY <2>1, <2>2
<1>17. KeepsSending
  BY DEF KeepsSending, Listening
<1> QED BY <1>15, <1>16, <1>17 DEF StepOK

LEMMA VerdictOK ==
    ASSUME RfInv, NEW st \in {"DELIVERED", "LOST"}
    PROVE FrameOK(Verdict(st)) /\ Verdict(st).queue = queue
<1> DEFINE b == [Base.active EXCEPT !.st = st]
<1>1. FrameOK(Base) /\ Base \in Changes /\ Base.active \in Actives
  BY NowOK DEF RfInv, FrameOK, ChangeOK, Changes
<1>2. b \in Actives /\ AckOK(b) /\ b.st # "EXTRA"
  BY <1>1, GivenType DEF PktStates
<1> DEFINE v == [Base EXCEPT !.active = b, !.noacked = 0, !.wait = FALSE]
<1>3. Verdict(st) = v
  BY <1>1 DEF Verdict, Changes, Actives
<1> HIDE DEF b
<1>3a. /\ v \in Changes /\ v.active = b /\ v.state = Base.state
       /\ v.mode = Base.mode /\ v.force = Base.force
       /\ v.queue = Base.queue
  BY <1>1, <1>2 DEF Changes
<1> HIDE DEF v
<1>4. /\ Verdict(st) \in Changes /\ Verdict(st).active = b
      /\ Verdict(st).state = Base.state /\ Verdict(st).mode = Base.mode
      /\ Verdict(st).force = Base.force /\ Verdict(st).queue = Base.queue
  BY <1>3, <1>3a
<1>5. Base.queue = queue
  BY DEF Base, Now
<1> QED BY <1>1, <1>2, <1>4, <1>5 DEF FrameOK, ChangeOK

LEMMA ResentOK ==
    ASSUME RfInv, NEW st \in {"DELIVERED", "LOST"}, NEW most \in Int,
           NEW n \in Missing(most), NEW r \in 1 .. MaxRetry
    PROVE FrameOK(Resent(Verdict(st), n, r))
<1> DEFINE v == Verdict(st)
           m == v.queue["MISSED"] + (n - 1)
           q == [v.queue EXCEPT !["MISSED"] = m]
           a == [v.active EXCEPT !.behind = r]
<1>1. /\ FrameOK(v) /\ v \in Changes /\ v.queue = queue /\ v.queue \in Queues
      /\ v.active \in Actives /\ AckOK(v.active) /\ v.active.st # "EXTRA"
  BY VerdictOK DEF FrameOK, ChangeOK, Changes
<1>2. n \in Nat \ {0} /\ m \in 0 .. Room
  BY <1>1 DEF Missing, Queues, Kinds
<1>3. q \in Queues /\ (v.queue["SYS"] > 0 => q["SYS"] > 0)
  BY <1>1, <1>2 DEF Queues, Kinds, Urgent
<1>4. r \in 0 .. None
  BY DEF None
<1>5. a \in Actives /\ AckOK(a) /\ a.st # "EXTRA"
  BY <1>1, <1>4 DEF Actives, AckOK
<1>6. Resent(v, n, r) = [v EXCEPT !.queue = q, !.active = a]
  BY <1>1, <1>2 DEF Resent, Changes, Queues, Actives
<1> HIDE DEF v, q, a
<1>7. FrameOK([v EXCEPT !.queue = q, !.active = a])
  BY <1>1, <1>3, <1>5 DEF FrameOK, ChangeOK, Changes
<1> QED BY <1>6, <1>7 DEF v

LEMMA AfterLossOK ==
    ASSUME NEW c, FrameOK(c)
    PROVE FrameOK(AfterLoss(c))
<1>1. CASE ~ResetOnLoss
  BY <1>1 DEF AfterLoss
<1>2. CASE ResetOnLoss
  <2>1. /\ ChangeOK(SetDefault(c)) /\ SetDefault(c).state = c.state
        /\ SetDefault(c).active.st # "EXTRA" /\ "SYS" \in Kinds
    BY SetDefaultOK DEF FrameOK, Kinds, Urgent
  <2>2. FrameOK(Send(SetDefault(c), "SYS"))
    BY <2>1, SendOK DEF FrameOK
  <2> QED BY <1>2, <2>2 DEF AfterLoss
<1> QED BY <1>1, <1>2

\* Whatever an ACK reports.
LEMMA VerdictsOK ==
    ASSUME RfInv, NEW c \in Confirmed \union InPart \union GivenUp
    PROVE FrameOK(c)
<1>1. \A st \in {"DELIVERED", "LOST"}, clear \in BOOLEAN :
          FrameOK(Cleared(Verdict(st), clear))
  BY VerdictOK, SendOK DEF Cleared, FrameOK, Kinds, Urgent
<1>2. noacked \in Int /\ noacked - 1 \in Int
  BY TypeSets DEF RfInv
<1>3. CASE c \in Confirmed
  BY <1>1, <1>3 DEF Confirmed
<1>4. CASE c \in InPart
  BY <1>2, <1>4, ResentOK DEF InPart
<1>5. CASE c \in GivenUp
  BY <1>1, <1>2, <1>5, ResentOK, AfterLossOK DEF GivenUp
<1> QED BY <1>3, <1>4, <1>5

LEMMA FramesOK == RfInv /\ Frames => StepOK
<1> SUFFICES ASSUME RfInv, Frames PROVE StepOK
  OBVIOUS
<1>1. FrameOK(Base) /\ "SYS" \in Kinds /\ "ACK" \in Kinds /\ "ACK_MULTI" \in Kinds
  BY NowOK DEF RfInv, Kinds, Urgent
<1>2. \A f \in Flags : Extra(f) \in BOOLEAN
  BY DEF Extra, Flags
<1>3. CASE HearAck
  <2>1. PICK c \in Confirmed \union InPart \union GivenUp, f \in Flags :
           Heard(Answer(c, f, "SYS"), Extra(f))
    BY <1>3 DEF HearAck
  <2>2. FrameOK(c)
    BY <2>1, VerdictsOK
  <2>3. FrameOK(Answer(c, f, "SYS"))
    BY <1>1, <2>2, AnswerOK
  <2>4. Listening
    BY <1>3 DEF HearAck
  <2> QED BY <1>2, <2>1, <2>3, <2>4, HeardOK
<1>4. CASE HearData
  <2>1. PICK f \in Flags, b \in {Base, Stored} :
           Heard(IF queue["ACK"] + queue["ACK_MULTI"] > 0 THEN b
                 ELSE Answer(b, f, IF f.multi THEN "ACK_MULTI" ELSE "ACK"),
                 Extra(f))
    BY <1>4 DEF HearData
  <2>2. FrameOK(b)
    <3> DEFINE d == Dropped(Base.active)
    <3>1. Base \in Changes /\ Base.active \in Actives /\ AckOK(Base.active)
          /\ Base.active.st # "EXTRA"
      BY <1>1 DEF FrameOK, ChangeOK, Changes
    <3>2. d \in Actives /\ AckOK(d) /\ d.st # "EXTRA"
      BY <3>1, DroppedOK
    <3> HIDE DEF d
    <3>3. FrameOK([Base EXCEPT !.active = d])
      BY <1>1, <3>1, <3>2 DEF FrameOK, ChangeOK, Changes
    <3> QED BY <1>1, <2>1, <3>3 DEF d, Stored
  <2>3. FrameOK(IF queue["ACK"] + queue["ACK_MULTI"] > 0 THEN b
                ELSE Answer(b, f, IF f.multi THEN "ACK_MULTI" ELSE "ACK"))
    BY <1>1, <2>2, AnswerOK
  <2>4. Listening
    BY <1>4 DEF HearData
  <2> QED BY <1>2, <2>1, <2>3, <2>4, HeardOK
<1>5. CASE HearOther
  <2>1. PICK f \in Flags : Heard(Answer(Base, f, "SYS"), Extra(f))
    BY <1>5 DEF HearOther
  <2>2. FrameOK(Answer(Base, f, "SYS")) /\ Listening
    BY <1>1, <1>5, AnswerOK DEF HearOther
  <2> QED BY <1>2, <2>1, <2>2, HeardOK
<1>6. CASE HearConfig
  <2>1. PICK f \in Flags :
          \/ \E m \in Modes, chan \in BOOLEAN :
                \E c \in {Send(WriteMode(Base, m, chan), "SYS"),
                          WriteAndSave(Base, m, chan)} :
                   Heard(Answer(c, f, "SYS"), Extra(f))
          \/ Heard(Answer(Send(Factory(Base), "SYS"), f, "SYS"), Extra(f))
    BY <1>6 DEF HearConfig
  <2>2. Listening
    BY <1>6 DEF HearConfig
  <2>3. ASSUME NEW m \in Modes, NEW chan \in BOOLEAN
        PROVE FrameOK(Send(WriteMode(Base, m, chan), "SYS"))
    <3>1. FrameOK(WriteMode(Base, m, chan))
      BY <1>1, WriteModeOK DEF FrameOK
    <3> QED BY <1>1, <3>1, SendOK DEF FrameOK
  <2>4. ASSUME NEW m \in Modes, NEW chan \in BOOLEAN
        PROVE FrameOK(WriteAndSave(Base, m, chan))
    BY <1>1, WriteAndSaveOK DEF FrameOK
  <2>5. FrameOK(Send(Factory(Base), "SYS"))
    BY <1>1, FactoryOK
  <2> QED BY <1>1, <1>2, <2>1, <2>2, <2>3, <2>4, <2>5, AnswerOK, HeardOK
<1> QED BY <1>3, <1>4, <1>5, <1>6 DEF Frames

\* A call: nothing of the radio changes but its state, and what it leaves to be
\* done is scheduled.
LEMMA CalledOK ==
    ASSUME RfInv, NEW c, ChangeOK(c), Called(c),
           c.state \in {radio.state, "CHANGED"},
           c.force
              \/ (c.mode = mode /\ c.queue = EmptyQueue /\ c.active = IdlePkt)
    PROVE StepOK
<1>1. /\ c \in Changes /\ c.active \in Actives /\ AckOK(c.active)
      /\ c.queue \in Queues /\ c.force \in BOOLEAN
  BY DEF ChangeOK, Changes
<1>2. /\ mode' = c.mode /\ flashMode' = c.flash /\ dirty' = c.dirty
      /\ default' = c.default /\ queue' = c.queue /\ active' = c.active
      /\ noacked' = c.noacked /\ waitReceive' = c.wait
  BY DEF Called, Apply
<1>3. /\ radio' = [radio EXCEPT !.state = c.state] /\ task' = (task \/ c.force)
      /\ UNCHANGED <<wasAsleep, waitExtra, waitRxEnd, waitClear, txTimer, dlLeft>>
  BY DEF Called
<1>4. /\ RadioOK(radio') /\ radio'.hw = radio.hw
      /\ radio'.transmit = radio.transmit
  BY <1>1, <1>3 DEF RfInv, RadioOK, Radios, RfStates
<1>5. callsLeft' \in 0 .. MaxCalls /\ task' \in BOOLEAN
  BY <1>1, <1>3, TypeSets DEF Called, Call, RfInv
<1>6. TypeOK'
  <2>1. /\ mode' \in Modes /\ flashMode' \in Modes /\ dirty' \in BOOLEAN
        /\ default' \in BOOLEAN /\ noacked' \in Nat /\ waitReceive' \in BOOLEAN
    BY <1>1, <1>2 DEF Changes
  <2>2. /\ wasAsleep' \in BOOLEAN /\ txTimer' \in 0 .. TxMax + 1
        /\ waitExtra' \in BOOLEAN /\ waitRxEnd' \in BOOLEAN
        /\ waitClear' \in BOOLEAN /\ dlLeft' \in 0 .. MaxDl
    BY <1>3, TypeSets DEF RfInv
  <2> QED BY <1>1, <1>2, <1>4, <1>5, <2>1, <2>2
          DEF TypeOK, RadioOK, Radios, Queues, Actives
<1>7. NotForgotten'
  <2>1. CASE c.force \/ mode' = "OFF"
    BY <1>3, <2>1 DEF NotForgotten
  <2>2. CASE /\ mode' = mode /\ c.queue = EmptyQueue /\ c.active = IdlePkt
             /\ mode # "OFF"
    <3> SUFFICES ASSUME Busy' PROVE task
      BY <1>3 DEF NotForgotten
    <3>1. ~HasPkt(EmptyQueue, IdlePkt)
      BY EmptyHasNone
    <3>2. Wanted(mode, IdlePkt, waitRxEnd, waitClear) = "RX"
            => Wanted(mode, active, waitRxEnd, waitClear) = "RX"
      BY DEF Wanted, IdlePkt
    <3>3. Busy
      BY <1>2, <1>3, <1>4, <2>2, <3>1, <3>2 DEF Busy
    <3> QED BY <2>2, <3>3 DEF RfInv, NotForgotten
  <2> QED BY <1>2, <2>1, <2>2
<1>8. RfInv'
  BY <1>1, <1>2, <1>3, <1>4, <1>6, <1>7 DEF RfInv
<1> QED BY <1>4, <1>8, SameRadio DEF StepOK

LEMMA SendPacketOK == RfInv /\ SendPacket => StepOK
<1> SUFFICES ASSUME RfInv, SendPacket PROVE StepOK
  OBVIOUS
<1>1. PICK ks \in Messages :
         /\ \A k \in ks : queue[k] < Room
         /\ Called([Added(Now, ks) EXCEPT !.force = TRUE])
  BY DEF SendPacket
<1> DEFINE q == [k \in Kinds |-> IF k \in ks THEN queue[k] + 1 ELSE queue[k]]
           c == [Now EXCEPT !.queue = q, !.force = TRUE]
<1>2. q \in Queues
  BY <1>1, TypeSets DEF RfInv, Queues
<1>3. ChangeOK(Now) /\ Now.state = radio.state /\ Now.queue = queue
  BY NowOK DEF RfInv, Now
<1>4. [Added(Now, ks) EXCEPT !.force = TRUE] = c
  BY <1>3 DEF Added, ChangeOK, Changes
<1> HIDE DEF q
<1>5. ChangeOK(c) /\ c.state = radio.state /\ c.force
  BY <1>2, <1>3 DEF ChangeOK, Changes
<1>6. Called(c)
  BY <1>1, <1>4
<1> HIDE DEF c
<1> QED BY <1>5, <1>6, CalledOK

LEMMA SetSettingsOK == RfInv /\ SetSettings => StepOK
<1> SUFFICES ASSUME RfInv, SetSettings PROVE StepOK
  OBVIOUS
<1> DEFINE n(m) == [Now EXCEPT !.mode = m, !.dirty = TRUE, !.state = "CHANGED",
                               !.queue = EmptyQueue, !.active = IdlePkt,
                               !.noacked = 0, !.force = m # mode]
<1>1. PICK m \in Modes : Called(IF m # mode THEN Send(n(m), "SYS") ELSE n(m))
  BY DEF SetSettings
<1>2. Now \in Changes
  BY NowOK DEF RfInv, ChangeOK
<1>3. AckOK(IdlePkt) /\ "SYS" \in Kinds
  BY DEF AckOK, IdlePkt, Kinds, Urgent
<1>4. /\ n(m).active = IdlePkt /\ n(m).queue = EmptyQueue /\ n(m).mode = m
      /\ n(m).state = "CHANGED" /\ n(m).force = (m # mode) /\ n(m) \in Changes
  BY <1>2, EmptyType DEF Changes, RfStates
<1>5. ChangeOK(n(m))
  BY <1>3, <1>4 DEF ChangeOK
<1> HIDE DEF n
<1>6. CASE m = mode
  BY <1>1, <1>4, <1>5, <1>6, CalledOK
<1>7. CASE m # mode
  <2>1. /\ ChangeOK(Send(n(m), "SYS")) /\ Send(n(m), "SYS").state = "CHANGED"
        /\ Send(n(m), "SYS").force = TRUE
    BY <1>3, <1>4, <1>5, <1>7, SendOK
  <2> QED BY <1>1, <1>7, <2>1, CalledOK
<1> QED BY <1>6, <1>7

LEMMA AtWriteOK == RfInv /\ AtWrite => StepOK
<1> SUFFICES ASSUME RfInv, AtWrite PROVE StepOK
  OBVIOUS
<1>1. PICK m \in Modes, chan \in BOOLEAN : Called(WriteAndSave(Now, m, chan))
  BY DEF AtWrite
<1>2. ChangeOK(Now) /\ Now.state = radio.state
  BY NowOK DEF RfInv, Now
<1>3. /\ ChangeOK(WriteAndSave(Now, m, chan))
      /\ WriteAndSave(Now, m, chan).force
      /\ WriteAndSave(Now, m, chan).state \in {radio.state, "CHANGED"}
  BY <1>2, WriteAndSaveOK
<1> QED BY <1>1, <1>3, CalledOK

LEMMA SaveSettingsOK == RfInv /\ SaveSettings => StepOK
<1> SUFFICES ASSUME RfInv, SaveSettings PROVE StepOK
  OBVIOUS
<1>1. RfInv'
  BY DEF SaveSettings, RfInv, TypeOK, NotForgotten, Busy, packetVars, waitVars
<1>2. KeepsListening /\ KeepsSending
  BY SameRadio DEF SaveSettings
<1> QED BY <1>1, <1>2 DEF StepOK

LEMMA SleepOK == RfInv /\ Sleep => StepOK
<1> SUFFICES ASSUME RfInv, Sleep PROVE StepOK
  OBVIOUS
<1>1. /\ mode' = "OFF" /\ wasAsleep' = TRUE /\ queue' = EmptyQueue
      /\ active' = IdlePkt /\ noacked' = 0 /\ radio' = Deinit
      /\ UNCHANGED <<flashMode, dirty, default, waitVars, task, txTimer, dlLeft>>
  BY DEF Sleep
<1>2. callsLeft' \in 0 .. MaxCalls
  BY TypeSets DEF Sleep, Call, RfInv
<1>3. /\ RadioOK(Deinit) /\ AckOK(IdlePkt) /\ Deinit.hw = "OFF"
      /\ ~Deinit.transmit /\ "OFF" \in Modes
  BY DeinitOK DEF AckOK, IdlePkt, Deinit, Modes
<1>4. TypeOK'
  BY <1>1, <1>2, <1>3, EmptyType
     DEF RfInv, TypeOK, RadioOK, Radios, Queues, Actives, waitVars
<1>5. RfInv'
  BY <1>1, <1>3, <1>4 DEF RfInv, NotForgotten
<1>6. KeepsListening /\ KeepsSending
  BY <1>1 DEF KeepsListening, KeepsSending
<1> QED BY <1>5, <1>6 DEF StepOK

LEMMA WakeOK == RfInv /\ Wake => StepOK
<1> SUFFICES ASSUME RfInv, Wake PROVE StepOK
  OBVIOUS
<1>1. /\ wasAsleep' = FALSE /\ callsLeft' \in 0 .. MaxCalls
      /\ UNCHANGED <<flashMode, dirty, default, radio, active, noacked, waitVars,
                     txTimer, dlLeft>>
  BY TypeSets DEF Wake, Call, RfInv
<1>2. Queued(Queued(queue, "SYS"), "SYS") \in Queues
  <2>1. "SYS" \in Kinds /\ queue \in Queues
    BY TypeSets DEF Kinds, Urgent, RfInv
  <2> QED BY <2>1, QueuedType
<1>3. CASE wasAsleep
  <2>1. /\ mode' = flashMode /\ task' = TRUE
        /\ queue' = Queued(Queued(queue, "SYS"), "SYS")
    BY <1>3 DEF Wake
  <2>2. RfInv'
    BY <1>1, <1>2, <2>1 DEF RfInv, TypeOK, NotForgotten, Queues, waitVars
  <2> QED BY <1>1, <2>2, SameRadio DEF StepOK
<1>4. CASE ~wasAsleep
  <2>1. UNCHANGED <<mode, queue, task>>
    BY <1>4 DEF Wake
  <2>2. RfInv'
    BY <1>1, <2>1 DEF RfInv, TypeOK, NotForgotten, Busy, waitVars
  <2> QED BY <1>1, <2>2, SameRadio DEF StepOK
<1> QED BY <1>3, <1>4

LEMMA StutterOK == RfInv /\ UNCHANGED vars => StepOK
<1> SUFFICES ASSUME RfInv, UNCHANGED vars PROVE StepOK
  OBVIOUS
<1>1. RfInv'
  BY DEF RfInv, TypeOK, NotForgotten, Busy, vars, settingVars, packetVars, waitVars
<1>2. KeepsListening /\ KeepsSending
  BY SameRadio DEF vars
<1> QED BY <1>1, <1>2 DEF StepOK

LEMMA StepsOK == RfInv /\ [Next]_vars => StepOK
BY ProcessOffOK, ProcessWaitOK, ProcessSendOK, ProcessRestOK, ProcessBusyOK,
   TxDoneOK, TxSilentOK, RxEndOK, WaitClearEndsOK, WaitExtraEndsOK,
   ReceiveTimeoutOK, FramesOK, SendPacketOK, SetSettingsOK, AtWriteOK,
   SaveSettingsOK, SleepOK, WakeOK, StutterOK
   DEF Next, Process, Timers, Calls

-----------------------------------------------------------------------------
(***************************************************************************)
(* The theorems.                                                           *)
(***************************************************************************)

\* RfInv holds in every state: the lemma the theorems rest on.
LEMMA RfInvariant == Spec => []RfInv
<1>1. RfInv /\ [Next]_vars => RfInv'
  BY StepsOK DEF StepOK
<1> QED BY InitOK, <1>1, PTL DEF Spec

\* Whatever is called, received or timed out, in every configuration: the mode,
\* the radio, the packets and the timers keep their types, and the packets of a
\* kind never exceed the ring (nbfi_transport.c, nbfi_rf.c).
THEOREM RfTypeCorrect == Spec => []TypeOK
<1>1. RfInv => TypeOK
  BY DEF RfInv
<1> QED BY RfInvariant, <1>1, PTL

\* NBFi_can_sleep only agrees when the radio is off and idle.
THEOREM RfSleepIsSafe == Spec => []SleepIsSafe
<1>1. RfInv => SleepIsSafe
  BY DEF RfInv, RadioOK, SleepIsSafe, CanSleep
<1> QED BY RfInvariant, <1>1, PTL

\* NBFi_ProcessTasks is scheduled while a packet waits, the radio is in use or
\* a frame is awaited.
THEOREM RfNotForgotten == Spec => []NotForgotten
<1>1. RfInv => NotForgotten
  BY DEF RfInv
<1> QED BY RfInvariant, <1>1, PTL

\* A device that awaits an ACK, a CLEAR or a frame of a DRX window listens.
THEOREM RfListens == Spec => Listens
<1>1. RfInv /\ [Next]_vars => [KeepsListening]_vars
  BY StepsOK DEF StepOK
<1> QED BY RfInvariant, <1>1, PTL DEF Spec, Listens

\* NBFi_RX_Controller never takes the radio from a transmission under way.
THEOREM RfCutOnlyBySettings == Spec => CutOnlyBySettings
<1>1. RfInv /\ [Next]_vars => [KeepsSending]_vars
  BY StepsOK DEF StepOK
<1> QED BY RfInvariant, <1>1, PTL DEF Spec, CutOnlyBySettings
=============================================================================
