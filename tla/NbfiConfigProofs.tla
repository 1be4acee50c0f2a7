-------------------------- MODULE NbfiConfigProofs --------------------------
(***************************************************************************)
(* For every number of rates, set of plans, list of alternatives and       *)
(* sequence of losses, frames and settings: rates and indices stay in      *)
(* range, and a rate or plan that is tried is told to the station, with a  *)
(* way back.                                                               *)
(***************************************************************************)
EXTENDS NbfiConfig, TLAPS

USE RateAssumption, BoardAssumption, AlternativeAssumption, BoundAssumption,
    HomeAssumption, InfoAssumption

(***************************************************************************)
(* What the functions of nbfi_config.c work on: the records Now builds.    *)
(***************************************************************************)
Indices == [tx : Chans, rx : Chans]
Befores == [cfg : Settings, tx : Chans, rx : Chans, fp : Plans, ok : BOOLEAN]
Syncs   == {None, "plain", "ack"}
Apps    == {None, "queued", "sent"}
Waits   == {None, "app", "sync"}
Stacks  == [cfg : Settings, idx : Indices, prev : Befores, lowest : BOOLEAN,
            station : StationInfo, sync : Syncs, app : Apps, waiting : Waits]

LEMMA NowType == TypeOK => Now \in Stacks
BY DEF TypeOK, Now, Stacks, Indices, Befores, Syncs, Apps, Waits

\* The variables that Becomes changes.
StackType == /\ cfg \in Settings /\ idx \in Indices /\ prev \in Befores
             /\ lowest \in BOOLEAN /\ station \in StationInfo
             /\ sync \in Syncs /\ app \in Apps /\ waiting \in Waits

LEMMA BecomesType ==
    ASSUME NEW s \in Stacks, Becomes(s)
    PROVE StackType'
BY DEF Becomes, StackType, Stacks

RestType == /\ home \in Triples
            /\ flash \in Settings \union {NoSettings} /\ dirty \in BOOLEAN
            /\ tryCounter \in 0 .. Len(Alternatives)
            /\ tryPeriod \in 0 .. PeriodMod - 1
            /\ highLeft \in 0 .. MaxHigh /\ callsLeft \in 0 .. MaxCalls

LEMMA TypeParts == TypeOK <=> StackType /\ RestType
BY DEF TypeOK, StackType, RestType, Indices, Befores, Syncs, Apps, Waits

LEMMA TypePartsNext == StackType' /\ RestType' => TypeOK'
BY DEF TypeOK, StackType, RestType, Indices, Befores, Syncs, Apps, Waits

LEMMA SavedType == TypeOK => Saved \in Settings
BY DEF TypeOK, Saved

LEMMA RatesType == \A c \in Settings : Rates(c) \in Triples
BY DEF Rates, Settings, Triples

LEMMA ZeroIsChan == 0 \in Chans /\ Foreign \in Chans
BY DEF Chans, Foreign

-----------------------------------------------------------------------------
(***************************************************************************)
(* The operators keep the type of the record they change.                  *)
(***************************************************************************)
LEMMA ClosedType == \A s \in Stacks : Closed(s) \in Stacks
BY DEF Closed, Stacks, Apps, Waits

LEMMA SetChansType ==
    \A s \in Stacks, tx, rx \in Chans : SetChans(s, tx, rx) \in Stacks
BY DEF SetChans, Stacks, Settings, Indices

LEMMA SettingsChans ==
    \A d \in Settings : d.tx \in Chans /\ d.rx \in Chans /\ d.fp \in Plans
BY DEF Settings

LEMMA SetDefaultType ==
    \A s \in Stacks, d \in Settings : SetDefault(s, d) \in Stacks
<1> SUFFICES ASSUME NEW s \in Stacks, NEW d \in Settings
             PROVE SetDefault(s, d) \in Stacks
    OBVIOUS
<1>1. [s EXCEPT !.cfg = d, !.lowest = FALSE] \in Stacks
      BY DEF Stacks
<1> QED BY <1>1, SetChansType, SettingsChans, ClosedType DEF SetDefault

LEMMA SendSyncType ==
    \A s \in Stacks, ack, room \in BOOLEAN : SendSync(s, ack, room) \in Stacks
BY DEF SendSync, Stacks, Syncs, Waits

LEMMA ReturnType ==
    \A s \in Stacks, room \in BOOLEAN : Return(s, room) \in Stacks
<1> SUFFICES ASSUME NEW s \in Stacks, NEW room \in BOOLEAN
             PROVE Return(s, room) \in Stacks
    OBVIOUS
<1> DEFINE c == [s.prev.cfg EXCEPT !.fp = s.prev.fp]
           i == [tx |-> s.prev.tx, rx |-> s.prev.rx]
           r == [s EXCEPT !.cfg = c, !.idx = i, !.prev.ok = FALSE]
<1>1. c \in Settings
      BY DEF Stacks, Befores, Settings
<1>2. i \in Indices
      BY DEF Stacks, Befores, Indices
<1>3. r \in Stacks
      BY <1>1, <1>2 DEF Stacks, Befores
<1> QED BY <1>3, SendSyncType DEF Return

LEMMA TableType == \A i \in Nat : Table(i) \subseteq Chans
BY DEF Table, Chans

LEMMA UpType == \A i \in Chans : Up(i) \in Chans
BY DEF Up, Chans

LEMMA ToldType ==
    \A s \in Stacks, c \in Settings, room \in BOOLEAN : Told(s, c, room) \in Stacks
<1> SUFFICES ASSUME NEW s \in Stacks, NEW c \in Settings, NEW room \in BOOLEAN
             PROVE Told(s, c, room) \in Stacks
    OBVIOUS
<1>1. [s EXCEPT !.cfg = c, !.station.fp = NoChange] \in Stacks
      BY DEF Stacks, StationInfo
<1> QED BY <1>1, SendSyncType DEF Told

\* The rates of RateChange are read from the tables at indices in range, or one
\* behind, where the table may hold any channel.
LEMMA RisenType ==
    ASSUME NEW s \in Stacks, NEW rx \in BOOLEAN, NEW tx \in BOOLEAN
    PROVE Risen(s, rx, tx) \in Indices
<1>1. s.idx.tx \in Chans /\ s.idx.rx \in Chans
      BY DEF Stacks, Indices
<1> QED BY <1>1, UpType DEF Risen, Indices

LEMMA NewPlanType == \A s \in Stacks : NewPlan(s) \in Plans
BY DEF NewPlan, Stacks, StationInfo, Settings

LEMMA RaisedType ==
    ASSUME NEW s \in Stacks, NEW i \in Indices, NEW n \in Triples,
           NEW room \in BOOLEAN
    PROVE Raised(s, i, n, room) \in Stacks
<1> DEFINE before == [cfg |-> s.cfg, tx |-> s.idx.tx, rx |-> s.idx.rx,
                      fp |-> s.cfg.fp, ok |-> TRUE]
           changed == [s EXCEPT !.idx = i, !.prev = before]
           c == [s.cfg EXCEPT !.tx = n.tx, !.rx = n.rx, !.fp = n.fp]
<1>1. [s EXCEPT !.idx = i] \in Stacks
      BY DEF Stacks
<1>2. before \in Befores
      BY DEF Befores, Stacks, Indices, Settings
<1>3. changed \in Stacks
      BY <1>2 DEF Stacks
<1>4. c \in Settings
      BY DEF Stacks, Settings, Triples
<1>5. Told(changed, c, room) \in Stacks
      BY <1>3, <1>4, ToldType
<1> QED BY <1>1, <1>5, ReturnType DEF Raised

LEMMA RateChangeType ==
    ASSUME NEW s \in Stacks, NEW rx \in BOOLEAN, NEW tx \in BOOLEAN,
           NEW room \in BOOLEAN
    PROVE RateChange(s, rx, tx, room) \subseteq Stacks
<1> DEFINE i == Risen(s, rx, tx)
           txs == IF ProtE(s) THEN Table(i.tx) ELSE {s.cfg.tx}
           rxs == Table(i.rx)
           out(t, r) ==
               Raised(s, i, [tx |-> t, rx |-> r, fp |-> NewPlan(s)], room)
<1>0. i \in Indices
      BY RisenType
<1> HIDE DEF i
<1>1. i \in Indices /\ i.tx \in Nat /\ i.rx \in Nat
      BY <1>0 DEF Indices, Chans
<1>2. txs \subseteq Chans /\ Table(i.rx) \subseteq Chans
      BY <1>1, TableType DEF Stacks, Settings
<1>3. \A t \in txs, r \in Table(i.rx) :
         [tx |-> t, rx |-> r, fp |-> NewPlan(s)] \in Triples
      BY <1>2, NewPlanType DEF Triples
<1>4. \A t \in txs, r \in rxs : out(t, r) \in Stacks
      BY <1>1, <1>3, RaisedType
<1>5. RateChange(s, rx, tx, room) = {out(t, r) : t \in txs, r \in rxs}
      BY DEF RateChange, i
<1> HIDE DEF txs, rxs, out
<1>6. ASSUME NEW x \in {out(t, r) : t \in txs, r \in rxs}
      PROVE  x \in Stacks
  <2>1. PICK t \in txs, r \in rxs : x = out(t, r)
        BY <1>6
  <2> QED BY <2>1, <1>4
<1> QED BY <1>5, <1>6

LEMMA CheckedType ==
    ASSUME NEW s \in Stacks, NEW room \in BOOLEAN, TypeOK,
           NEW c \in Checked(s, room)
    PROVE  /\ c.s \in Stacks
           /\ c.high \in Nat /\ highLeft - c.high \in 0 .. MaxHigh
<1>1. highLeft \in 0 .. MaxHigh
      BY DEF TypeOK
<1>2. CASE c = [s |-> s, high |-> 0]
      BY <1>1, <1>2
<1>3. ASSUME highLeft # 0, NEW rx \in BOOLEAN, NEW tx \in BOOLEAN,
             NEW r \in RateChange(s, rx, tx, room), c = [s |-> r, high |-> 1]
      PROVE  /\ c.s \in Stacks
             /\ c.high \in Nat /\ highLeft - c.high \in 0 .. MaxHigh
      BY <1>1, <1>3, RateChangeType
<1>4. \/ c = [s |-> s, high |-> 0]
      \/ /\ highLeft # 0
         /\ \E rx, tx \in BOOLEAN : \E r \in RateChange(s, rx, tx, room) :
               c = [s |-> r, high |-> 1]
      BY DEF Checked
<1> QED BY <1>2, <1>3, <1>4

-----------------------------------------------------------------------------
(***************************************************************************)
(* The search.                                                             *)
(***************************************************************************)
LEMMA AlternativeType ==
    ASSUME NEW i \in 1 .. Len(Alternatives)
    PROVE  /\ Alternatives[i].tx \in Chans /\ Alternatives[i].rx \in Chans
           /\ Alternatives[i].fp \in Plans
<1> DEFINE A == [interval : Nat, tx : Chans, rx : Chans, fp : Plans]
<1>1. Alternatives \in Seq(A)
      OBVIOUS
<1>2. \A S : \A q \in Seq(S) : \A k \in 1 .. Len(q) : q[k] \in S
      OBVIOUS
<1>3. Alternatives[i] \in A
      BY <1>1, <1>2, Zenon
<1> QED BY <1>3

LEMMA DueType == \A c, p : Due(c, p) \subseteq 1 .. Len(Alternatives)
BY DEF Due, Usable

LEMMA TriedType ==
    ASSUME NEW s \in Stacks, NEW i \in 1 .. Len(Alternatives)
    PROVE Tried(s, i) \in Stacks
<1> DEFINE a == Alternatives[i]
<1>1. SetChans(s, a.tx, a.rx) \in Stacks
      BY AlternativeType, SetChansType
<1>2. \A r \in Stacks : [r EXCEPT !.cfg.fp = a.fp] \in Stacks
      BY AlternativeType DEF Stacks, Settings
<1> QED BY <1>1, <1>2 DEF Tried

LEMMA SetLowestType == \A s \in Stacks : SetLowest(s) \in Stacks
<1> SUFFICES ASSUME NEW s \in Stacks PROVE SetLowest(s) \in Stacks
    OBVIOUS
<1>1. SetChans(s, 0, 0) \in Stacks
      BY SetChansType, ZeroIsChan
<1>2. \A r \in Stacks : [r EXCEPT !.lowest = TRUE] \in Stacks
      BY DEF Stacks
<1> QED BY <1>1, <1>2 DEF SetLowest

TryType == /\ tryCounter \in 0 .. Len(Alternatives)
           /\ tryPeriod \in 0 .. PeriodMod - 1

LEMMA FallBackType ==
    ASSUME TypeOK, NEW s \in Stacks, NEW again \in Stacks,
           NEW c \in 0 .. Len(Alternatives), NEW p \in 0 .. PeriodMod - 1,
           NEW room \in BOOLEAN, FallBack(s, again, c, p, room)
    PROVE StackType' /\ TryType'
<1>0. Saved \in Settings
      BY SavedType
<1>1. ASSUME NEW i \in Due(c, p), tryCounter' = i, tryPeriod' = p,
             Becomes(SendSync(Tried(SetDefault(again, Saved), i), FALSE, room))
      PROVE  StackType' /\ TryType'
  <2>1. i \in 1 .. Len(Alternatives)
        BY DueType
  <2>2. SendSync(Tried(SetDefault(again, Saved), i), FALSE, room) \in Stacks
        BY <1>0, <2>1, SetDefaultType, TriedType, SendSyncType
  <2>3. TryType'
        BY <1>1, <2>1 DEF TryType
  <2> QED BY <1>1, <2>2, <2>3, BecomesType
<1>2. ASSUME tryCounter' = 0, tryPeriod' = (p + 1) % PeriodMod,
             NEW l \in {SetDefault(s, Saved), SetLowest(SetDefault(s, Saved))},
             Becomes(SendSync(l, FALSE, room))
      PROVE  StackType' /\ TryType'
  <2>1. l \in Stacks
        BY <1>0, SetDefaultType, SetLowestType
  <2>2. SendSync(l, FALSE, room) \in Stacks
        BY <2>1, SendSyncType
  <2>3. tryCounter' \in 0 .. Len(Alternatives)
        BY <1>2
  <2>4. tryPeriod' \in 0 .. PeriodMod - 1
        BY <1>2
  <2> QED BY <1>2, <2>2, <2>3, <2>4, BecomesType DEF TryType
<1>3. ASSUME tryCounter' = c, tryPeriod' = p,
             Becomes(SendSync(SetDefault(again, Saved), FALSE, room))
      PROVE  StackType' /\ TryType'
  <2>1. SendSync(SetDefault(again, Saved), FALSE, room) \in Stacks
        BY <1>0, SetDefaultType, SendSyncType
  <2> QED BY <1>3, <2>1, BecomesType DEF TryType
<1> QED BY <1>1, <1>2, <1>3 DEF FallBack

LEMMA StartedType == \A d \in Settings : Started(d) \in Stacks
<1> SUFFICES ASSUME NEW d \in Settings PROVE Started(d) \in Stacks
    OBVIOUS
<1> DEFINE s == Started(d)
<1>1. s.idx \in Indices
      BY ZeroIsChan DEF Started, Settings, Indices
<1>2. s.prev.cfg \in Settings
      BY ZeroIsChan DEF Started, Settings
<1>3. s.prev \in Befores
      BY <1>2, ZeroIsChan DEF Started, Befores
<1>4. s.station \in StationInfo
      BY DEF Started, StationInfo
<1> QED BY <1>1, <1>3, <1>4 DEF Started, Stacks, Syncs, Apps, Waits

-----------------------------------------------------------------------------
(***************************************************************************)
(* Type correctness, action by action.                                     *)
(***************************************************************************)
LEMMA InitType == Init => TypeOK
<1> SUFFICES ASSUME Init PROVE TypeOK
    OBVIOUS
<1>1. Started(Board) \in Stacks
      BY StartedType
<1>2. StackType
      BY <1>1 DEF Init, StackType, Stacks
<1>3. Len(Alternatives) \in Nat
      OBVIOUS
<1>4. dirty \in BOOLEAN
      BY Zenon DEF Init
<1>5. RestType
      BY <1>3, <1>4 DEF Init, RestType
<1> QED BY <1>2, <1>5, TypeParts

LEMMA SubmitType == TypeOK /\ Submit => TypeOK'
<1> SUFFICES ASSUME TypeOK, Submit PROVE TypeOK'
    OBVIOUS
<1>1. PICK room \in BOOLEAN :
        LET s == IF LowestOnLoss /\ lowest
                 THEN SendSync(SetDefault(Now, Saved), FALSE, room) ELSE Now
        IN  Becomes([s EXCEPT !.app = "queued"])
      BY DEF Submit
<1> DEFINE s == IF LowestOnLoss /\ lowest
                THEN SendSync(SetDefault(Now, Saved), FALSE, room) ELSE Now
<1>2. s \in Stacks
      BY NowType, SavedType, SetDefaultType, SendSyncType
<1>3. [s EXCEPT !.app = "queued"] \in Stacks
      BY <1>2 DEF Stacks, Apps
<1>4. StackType'
      BY <1>1, <1>3, BecomesType
<1>5. RestType'
      BY TypeParts DEF RestType, Submit, tryVars, flashVars
<1> QED BY <1>4, <1>5, TypePartsNext

LEMMA TransmitType == TypeOK /\ Transmit => TypeOK'
<1> SUFFICES ASSUME TypeOK, Transmit PROVE TypeOK'
    OBVIOUS
<1>1. RestType /\ Now \in Stacks
      BY TypeParts, NowType
<1>2. Rates(cfg) \in Triples
      BY RatesType DEF TypeOK
<1>3. ASSUME NEW ack \in Waits, NEW room \in BOOLEAN,
             NEW s, s = [Now EXCEPT !.sync = None, !.waiting = ack],
             NEW c \in {[s |-> s, high |-> 0]} \union Checked(s, room),
             Becomes(c.s), highLeft' = highLeft - c.high
      PROVE  StackType' /\ highLeft' \in 0 .. MaxHigh
  <2>1. s \in Stacks
        BY <1>1, <1>3 DEF Stacks, Syncs
  <2>2. CASE c = [s |-> s, high |-> 0]
        BY <1>1, <1>3, <2>1, <2>2, BecomesType DEF RestType
  <2>3. CASE c \in Checked(s, room)
        BY <1>3, <2>1, <2>3, BecomesType, CheckedType
  <2> QED BY <2>2, <2>3
<1>4. ASSUME NEW room \in BOOLEAN,
             NEW s, s = [Now EXCEPT !.sync = None,
                                    !.waiting = IF sync = "ack" THEN "sync"
                                                ELSE None],
             NEW c \in IF HasQueued(s) THEN {[s |-> s, high |-> 0]}
                       ELSE Checked(s, room),
             Becomes(c.s), highLeft' = highLeft - c.high,
             home' \in {home, Rates(cfg)}
      PROVE  StackType' /\ highLeft' \in 0 .. MaxHigh /\ home' \in Triples
  <2>1. c \in {[s |-> s, high |-> 0]} \union Checked(s, room)
        OBVIOUS
  <2>2. (IF sync = "ack" THEN "sync" ELSE None) \in Waits
        BY DEF Waits
  <2> QED BY <1>1, <1>2, <1>3, <1>4, <2>1, <2>2 DEF RestType
<1>5. ASSUME Becomes([Now EXCEPT !.app = "sent", !.waiting = "app"]),
             UNCHANGED <<home, highLeft>>
      PROVE  StackType' /\ highLeft' \in 0 .. MaxHigh /\ home' \in Triples
  <2>1. [Now EXCEPT !.app = "sent", !.waiting = "app"] \in Stacks
        BY <1>1 DEF Stacks, Apps, Waits
  <2> QED BY <1>1, <1>5, <2>1, BecomesType DEF RestType
<1>6. StackType' /\ highLeft' \in 0 .. MaxHigh /\ home' \in Triples
      BY <1>4, <1>5 DEF Transmit
<1>7. RestType'
      BY <1>1, <1>6 DEF RestType, Transmit, tryVars, flashVars
<1> QED BY <1>6, <1>7, TypePartsNext

LEMMA RestFromTry ==
    ASSUME RestType, TryType', UNCHANGED <<home, flashVars, highLeft, callsLeft>>
    PROVE RestType'
BY DEF RestType, TryType, flashVars

LEMMA TimeoutType == TypeOK /\ Timeout => TypeOK'
<1> SUFFICES ASSUME TypeOK, Timeout PROVE TypeOK'
    OBVIOUS
<1>1. RestType /\ Now \in Stacks /\ Closed(Now) \in Stacks /\ TryType
      BY TypeParts, NowType, ClosedType DEF RestType, TryType
<1>2. ASSUME NEW room \in BOOLEAN, Becomes(Return(Closed(Now), room)),
             UNCHANGED tryVars
      PROVE  StackType' /\ TryType'
      BY <1>1, <1>2, ReturnType, BecomesType DEF TryType, tryVars
<1>3. ASSUME NEW room \in BOOLEAN,
             NEW again \in {[Now EXCEPT !.app = "queued", !.waiting = None],
                            Closed(Now)},
             FallBack(Closed(Now), again, tryCounter, tryPeriod, room)
      PROVE  StackType' /\ TryType'
  <2>1. [Now EXCEPT !.app = "queued", !.waiting = None] \in Stacks
        BY <1>1 DEF Stacks, Apps, Waits
  <2>2. again \in Stacks
        BY <1>1, <2>1
  <2> QED BY <1>1, <1>3, <2>2, FallBackType DEF TryType
<1>4. StackType' /\ TryType'
      BY <1>2, <1>3 DEF Timeout
<1>5. UNCHANGED <<home, flashVars, highLeft, callsLeft>>
      BY DEF Timeout
<1> QED BY <1>1, <1>4, <1>5, RestFromTry, TypePartsNext

\* What the handlers of frames share: the rates are looked at.
LEMMA CheckedStep ==
    ASSUME TypeOK, NEW s \in Stacks, NEW room \in BOOLEAN,
           NEW c \in Checked(s, room), Becomes(c.s)
    PROVE StackType' /\ highLeft - c.high \in 0 .. MaxHigh
BY CheckedType, BecomesType

LEMMA HeardNowType == TypeOK => HeardNow \in Stacks
BY NowType DEF HeardNow, Stacks

LEMMA AckedType == TypeOK /\ Acked => TypeOK'
<1> SUFFICES ASSUME TypeOK, Acked PROVE TypeOK'
    OBVIOUS
<1>1. RestType /\ Closed(HeardNow) \in Stacks
      BY TypeParts, HeardNowType, ClosedType
<1>2. PICK info \in Infos, room \in BOOLEAN :
         \E c \in Checked([Closed(HeardNow) EXCEPT !.station = info], room) :
            Becomes(c.s) /\ highLeft' = highLeft - c.high
      BY DEF Acked
<1>3. [Closed(HeardNow) EXCEPT !.station = info] \in Stacks
      BY <1>1 DEF Stacks
<1>4. StackType' /\ highLeft' \in 0 .. MaxHigh
      BY <1>2, <1>3, CheckedStep
<1>5. Len(Alternatives) \in Nat
      OBVIOUS
<1>6. RestType'
      BY <1>1, <1>4, <1>5 DEF RestType, Acked, flashVars
<1> QED BY <1>4, <1>6, TypePartsNext

LEMMA AckedInPartType == TypeOK /\ AckedInPart => TypeOK'
<1> SUFFICES ASSUME TypeOK, AckedInPart PROVE TypeOK'
    OBVIOUS
<1>1. RestType /\ Closed(HeardNow) \in Stacks
      BY TypeParts, HeardNowType, ClosedType
<1>2. PICK info \in Infos, room \in BOOLEAN :
         LET s == [Closed(HeardNow) EXCEPT !.station.ul = info.ul,
                                           !.station.dl = info.dl]
         IN  FallBack(s, s, 0, 0, room)
      BY DEF AckedInPart
<1> DEFINE s == [Closed(HeardNow) EXCEPT !.station.ul = info.ul,
                                         !.station.dl = info.dl]
<1>3. s \in Stacks
      BY <1>1 DEF Stacks, StationInfo
<1>4. 0 \in 0 .. Len(Alternatives) /\ 0 \in 0 .. PeriodMod - 1
      OBVIOUS
<1>5. StackType' /\ TryType'
      BY <1>2, <1>3, <1>4, FallBackType
<1> QED BY <1>1, <1>5, RestFromTry, TypePartsNext DEF AckedInPart

LEMMA HeardType == TypeOK /\ Heard => TypeOK'
<1> SUFFICES ASSUME TypeOK, Heard PROVE TypeOK'
    OBVIOUS
<1>1. RestType
      BY TypeParts
<1>2. StackType' /\ highLeft' \in 0 .. MaxHigh
      BY HeardNowType, CheckedStep DEF Heard
<1>3. RestType'
      BY <1>1, <1>2 DEF RestType, Heard, flashVars, tryVars
<1> QED BY <1>2, <1>3, TypePartsNext

LEMMA DroppedType == \A s \in Stacks : Dropped(s) \in Stacks
BY DEF Dropped, Stacks, Apps, Syncs, Waits

LEMMA HeardMessageType == TypeOK /\ HeardMessage => TypeOK'
<1> SUFFICES ASSUME TypeOK, HeardMessage PROVE TypeOK'
    OBVIOUS
<1>1. RestType /\ Dropped(HeardNow) \in Stacks
      BY TypeParts, HeardNowType, DroppedType
<1>2. PICK room \in BOOLEAN : \E c \in Checked(Dropped(HeardNow), room) :
         /\ c.high < highLeft
         /\ Becomes(c.s) /\ highLeft' = highLeft - 1 - c.high
      BY DEF HeardMessage
<1>3. PICK c \in Checked(Dropped(HeardNow), room) :
         /\ c.high < highLeft
         /\ Becomes(c.s) /\ highLeft' = highLeft - 1 - c.high
      BY <1>2
<1>4. StackType'
      BY <1>1, <1>3, CheckedStep
<1>5. c.high \in Nat /\ highLeft \in 0 .. MaxHigh
      BY <1>1, CheckedType DEF RestType
<1>6. highLeft' \in 0 .. MaxHigh
      BY <1>3, <1>5
<1>7. RestType'
      BY <1>1, <1>6 DEF RestType, HeardMessage, flashVars, tryVars
<1> QED BY <1>4, <1>7, TypePartsNext

LEMMA WrittenType == \A s \in Stacks : Written(s) \subseteq Stacks
<1> SUFFICES ASSUME NEW s \in Stacks PROVE Written(s) \subseteq Stacks
    OBVIOUS
<1>1. ASSUME NEW n \in Choices
      PROVE  /\ SetChans(s, n.tx, n.rx) \in Stacks
             /\ [s EXCEPT !.cfg.fp = n.fp] \in Stacks
             /\ [s EXCEPT !.cfg.fixed = n.fixed] \in Stacks
  <2>1. n \in Settings
        OBVIOUS
  <2>2. SetChans(s, n.tx, n.rx) \in Stacks
        BY <2>1, SettingsChans, SetChansType
  <2>3. [s EXCEPT !.cfg.fp = n.fp] \in Stacks
        BY <2>1 DEF Stacks, Settings
  <2>4. [s EXCEPT !.cfg.fixed = n.fixed] \in Stacks
        BY <2>1 DEF Stacks, Settings
  <2> QED BY <2>2, <2>3, <2>4
<1> QED BY <1>1 DEF Written

\* A command that writes parameters, applied to s, keeps p to return to.
LEMMA BeforeType ==
    \A s \in Stacks, p \in Settings :
        [s EXCEPT !.prev.cfg = p, !.prev.ok = TRUE] \in Stacks
BY DEF Stacks, Befores

LEMMA WriteType == TypeOK /\ Write => TypeOK'
<1> SUFFICES ASSUME TypeOK, Write PROVE TypeOK'
    OBVIOUS
<1>1. RestType /\ Now \in Stacks /\ cfg \in Settings
      BY TypeParts, NowType DEF TypeOK
<1>2. StackType'
      BY <1>1, BeforeType, WrittenType, BecomesType DEF Write
<1>3. RestType'
      BY <1>1 DEF RestType, Write, Calls, flashVars, tryVars
<1> QED BY <1>2, <1>3, TypePartsNext

LEMMA WriteAndSaveType == TypeOK /\ WriteAndSave => TypeOK'
<1> SUFFICES ASSUME TypeOK, WriteAndSave PROVE TypeOK'
    OBVIOUS
<1>1. RestType /\ SetDefault(Now, Saved) \in Stacks /\ Saved \in Settings
      BY TypeParts, NowType, SavedType, SetDefaultType
<1> DEFINE b == [SetDefault(Now, Saved) EXCEPT !.prev.cfg = Saved,
                                               !.prev.ok = TRUE]
<1>2. b \in Stacks
      BY <1>1, BeforeType
<1>3. PICK room \in BOOLEAN, s \in Written(b) : Becomes(SendSync(s, FALSE, room))
      BY DEF WriteAndSave
<1>4. SendSync(s, FALSE, room) \in Stacks
      BY <1>2, WrittenType, SendSyncType
<1>5. StackType'
      BY <1>3, <1>4, BecomesType
<1>6. RestType'
      BY <1>1 DEF RestType, WriteAndSave, Calls, tryVars
<1> QED BY <1>5, <1>6, TypePartsNext

LEMMA FactoryType == TypeOK /\ Factory => TypeOK'
<1> SUFFICES ASSUME TypeOK, Factory PROVE TypeOK'
    OBVIOUS
<1>1. RestType /\ SetDefault(Now, Board) \in Stacks
      BY TypeParts, NowType, SetDefaultType
<1>2. StackType'
      BY <1>1, SendSyncType, BecomesType DEF Factory
<1>3. RestType'
      BY <1>1 DEF RestType, Factory, Calls, tryVars
<1> QED BY <1>2, <1>3, TypePartsNext

LEMMA SetSettingsType == TypeOK /\ SetSettings => TypeOK'
<1> SUFFICES ASSUME TypeOK, SetSettings PROVE TypeOK'
    OBVIOUS
<1>1. RestType /\ Now \in Stacks
      BY TypeParts, NowType
<1>2. ASSUME NEW n \in Choices, NEW s,
             s = [Now EXCEPT !.cfg = n, !.sync = None, !.app = None,
                             !.waiting = None],
             \/ Becomes(SendSync(s, FALSE, TRUE)) \/ Becomes(s)
      PROVE  StackType'
  <2>1. n \in Settings
        OBVIOUS
  <2>2. s \in Stacks
        BY <1>1, <1>2, <2>1 DEF Stacks, Syncs, Apps, Waits
  <2>3. SendSync(s, FALSE, TRUE) \in Stacks
        BY <2>2, SendSyncType
  <2> QED BY <1>2, <2>2, <2>3, BecomesType
<1>3. StackType'
      BY <1>2 DEF SetSettings
<1>4. RestType'
      BY <1>1 DEF RestType, SetSettings, Calls, tryVars
<1> QED BY <1>3, <1>4, TypePartsNext

LEMMA SaveType == TypeOK /\ Save => TypeOK'
<1> SUFFICES ASSUME TypeOK, Save PROVE TypeOK'
    OBVIOUS
<1>1. cfg \in Settings
      BY DEF TypeOK
<1>2. /\ [cfg EXCEPT !.fp = Board.fp] \in Settings
      /\ [[cfg EXCEPT !.fp = Board.fp] EXCEPT !.tx = Board.tx, !.rx = Board.rx]
           \in Settings
      BY <1>1 DEF Settings
<1>3. cfg' \in Settings /\ flash' \in Settings
      BY <1>1, <1>2 DEF Save
<1> QED BY <1>3 DEF TypeOK, Save, tryVars

LEMMA ResetType == TypeOK /\ Reset => TypeOK'
<1> SUFFICES ASSUME TypeOK, Reset PROVE TypeOK'
    OBVIOUS
<1>1. RestType /\ Started(Saved) \in Stacks
      BY TypeParts, SavedType, StartedType
<1>2. StackType'
      BY <1>1, BecomesType DEF Reset
<1>3. Len(Alternatives) \in Nat
      OBVIOUS
<1>4. dirty' \in BOOLEAN
      BY Zenon DEF Reset
<1>5. RestType'
      BY <1>1, <1>3, <1>4 DEF RestType, Reset, Calls
<1> QED BY <1>2, <1>5, TypePartsNext

\* Rates, indices, plans and counters stay in range whatever is written, lost
\* or heard (nbfi_config.c), also with a channel that is in no table.
THEOREM ConfigTypeCorrect == Spec => []TypeOK
<1>1. Init => TypeOK
      BY InitType
<1>2. TypeOK /\ [Next]_vars => TypeOK'
  <2> SUFFICES ASSUME TypeOK, [Next]_vars PROVE TypeOK'
      OBVIOUS
  <2>1. CASE Packets
        BY <2>1, SubmitType, TransmitType, TimeoutType DEF Packets
  <2>2. CASE Frames
        BY <2>2, AckedType, AckedInPartType, HeardType, HeardMessageType
        DEF Frames
  <2>3. CASE Writes
        BY <2>3, WriteType, WriteAndSaveType, FactoryType, SetSettingsType,
           SaveType, ResetType DEF Writes
  <2>4. CASE UNCHANGED vars
        BY <2>4 DEF TypeOK, vars, stackVars, tryVars, flashVars
  <2> QED BY <2>1, <2>2, <2>3, <2>4 DEF Next
<1> QED BY <1>1, <1>2, PTL DEF Spec

-----------------------------------------------------------------------------
(***************************************************************************)
(* A change of rates is told.  Tried by r: its rates are those of s, or a  *)
(* SYNC asks the station to confirm and those of s are kept.               *)
(***************************************************************************)
TellsOf(s, r) == \/ Rates(r.cfg) = Rates(s.cfg)
                 \/ r.sync = "ack" /\ r.prev.ok /\ Rates(r.prev.cfg) = Rates(s.cfg)

LEMMA SendSyncKeeps ==
    ASSUME NEW s \in Stacks, NEW ack \in BOOLEAN, NEW room \in BOOLEAN
    PROVE /\ SendSync(s, ack, room).cfg = s.cfg
          /\ SendSync(s, ack, room).prev = s.prev
          /\ ack /\ room => SendSync(s, ack, room).sync = "ack"
BY DEF SendSync, Stacks

LEMMA ClosedKeeps == \A s \in Stacks : Closed(s).cfg = s.cfg
BY DEF Closed, Stacks

LEMMA SetChansRates ==
    \A s \in Stacks, tx, rx \in Chans :
        Rates(SetChans(s, tx, rx).cfg) = [tx |-> tx, rx |-> rx, fp |-> s.cfg.fp]
BY DEF SetChans, Stacks, Settings, Rates

LEMMA SetDefaultRates ==
    \A s \in Stacks, d \in Settings :
        /\ Rates(SetDefault(s, d).cfg) = Rates(d)
        /\ SetDefault(s, d).cfg.fp = d.fp
<1> SUFFICES ASSUME NEW s \in Stacks, NEW d \in Settings
             PROVE  /\ Rates(SetDefault(s, d).cfg) = Rates(d)
                    /\ SetDefault(s, d).cfg.fp = d.fp
    OBVIOUS
<1> DEFINE r == [s EXCEPT !.cfg = d, !.lowest = FALSE]
<1>1. r \in Stacks /\ r.cfg = d
      BY DEF Stacks
<1>2. d.tx \in Chans /\ d.rx \in Chans
      BY SettingsChans
<1>3. SetChans(r, d.tx, d.rx) \in Stacks
      BY <1>1, <1>2, SetChansType
<1>4. SetDefault(s, d).cfg = SetChans(r, d.tx, d.rx).cfg
      BY <1>3, ClosedKeeps DEF SetDefault
<1>5. Rates(SetDefault(s, d).cfg) = [tx |-> d.tx, rx |-> d.rx, fp |-> d.fp]
      BY <1>1, <1>2, <1>4, SetChansRates
<1> QED BY <1>5 DEF Rates

LEMMA ReturnRates ==
    ASSUME NEW s \in Stacks, NEW room \in BOOLEAN
    PROVE Rates(Return(s, room).cfg) =
            [tx |-> s.prev.cfg.tx, rx |-> s.prev.cfg.rx, fp |-> s.prev.fp]
<1> DEFINE c == [s.prev.cfg EXCEPT !.fp = s.prev.fp]
           i == [tx |-> s.prev.tx, rx |-> s.prev.rx]
           r == [s EXCEPT !.cfg = c, !.idx = i, !.prev.ok = FALSE]
<1>1. c \in Settings /\ i \in Indices
      BY DEF Stacks, Befores, Settings, Indices
<1>2. r \in Stacks /\ r.cfg = c
      BY <1>1 DEF Stacks, Befores
<1>3. Return(s, room).cfg = c
      BY <1>2, SendSyncKeeps DEF Return
<1>4. c.tx = s.prev.cfg.tx /\ c.rx = s.prev.cfg.rx /\ c.fp = s.prev.fp
      BY DEF Stacks, Befores, Settings
<1> QED BY <1>3, <1>4 DEF Rates

LEMMA ToldKeeps ==
    ASSUME NEW s \in Stacks, NEW c \in Settings, NEW room \in BOOLEAN
    PROVE /\ Told(s, c, room).prev = s.prev
          /\ room => Told(s, c, room).sync = "ack"
<1> DEFINE r == [s EXCEPT !.cfg = c, !.station.fp = NoChange]
<1>1. r \in Stacks /\ r.prev = s.prev
      BY DEF Stacks, StationInfo
<1> QED BY <1>1, SendSyncKeeps DEF Told

LEMMA RaisedTells ==
    ASSUME NEW s \in Stacks, NEW i \in Indices, NEW n \in Triples,
           NEW room \in BOOLEAN
    PROVE TellsOf(s, Raised(s, i, n, room))
<1> DEFINE before == [cfg |-> s.cfg, tx |-> s.idx.tx, rx |-> s.idx.rx,
                      fp |-> s.cfg.fp, ok |-> TRUE]
           changed == [s EXCEPT !.idx = i, !.prev = before]
           c == [s.cfg EXCEPT !.tx = n.tx, !.rx = n.rx, !.fp = n.fp]
           told == Told(changed, c, room)
<1>1. before \in Befores
      BY DEF Befores, Stacks, Indices, Settings
<1>2. changed \in Stacks /\ changed.prev = before
      BY <1>1 DEF Stacks
<1>3. c \in Settings
      BY DEF Stacks, Settings, Triples
<1>4. told \in Stacks /\ told.prev = before /\ (room => told.sync = "ack")
      BY <1>2, <1>3, ToldType, ToldKeeps
<1>5. CASE Rates(s.cfg) = n
  <2>1. Raised(s, i, n, room).cfg = s.cfg
        BY <1>5 DEF Raised, Stacks
  <2> QED BY <2>1 DEF TellsOf
<1>6. CASE Rates(s.cfg) # n /\ room
  <2>1. Raised(s, i, n, room) = told
        BY <1>6 DEF Raised
  <2> HIDE DEF told
  <2>2. told.sync = "ack"
        BY <1>4, <1>6, Zenon
  <2>3. told.prev.cfg = s.cfg /\ told.prev.ok = TRUE
        BY <1>4
  <2> QED BY <2>1, <2>2, <2>3, Zenon DEF TellsOf
<1>7. CASE Rates(s.cfg) # n /\ ~room
  <2>1. Raised(s, i, n, room) = Return(told, room)
        BY <1>7 DEF Raised
  <2>2. Rates(Return(told, room).cfg) =
           [tx |-> s.cfg.tx, rx |-> s.cfg.rx, fp |-> s.cfg.fp]
        BY <1>4, ReturnRates
  <2> QED BY <2>1, <2>2 DEF TellsOf, Rates
<1> QED BY <1>5, <1>6, <1>7

LEMMA RateChangeTells ==
    ASSUME NEW s \in Stacks, NEW rx \in BOOLEAN, NEW tx \in BOOLEAN,
           NEW room \in BOOLEAN, NEW x \in RateChange(s, rx, tx, room)
    PROVE TellsOf(s, x)
<1> DEFINE i == Risen(s, rx, tx)
           txs == IF ProtE(s) THEN Table(i.tx) ELSE {s.cfg.tx}
           rxs == Table(i.rx)
           out(t, r) ==
               Raised(s, i, [tx |-> t, rx |-> r, fp |-> NewPlan(s)], room)
<1>0. i \in Indices
      BY RisenType
<1> HIDE DEF i
<1>1. i \in Indices /\ i.tx \in Nat /\ i.rx \in Nat
      BY <1>0 DEF Indices, Chans
<1>2. txs \subseteq Chans /\ rxs \subseteq Chans
      BY <1>1, TableType DEF Stacks, Settings
<1>3. \A t \in txs, r \in rxs :
         [tx |-> t, rx |-> r, fp |-> NewPlan(s)] \in Triples
      BY <1>2, NewPlanType DEF Triples
<1>4. \A t \in txs, r \in rxs : TellsOf(s, out(t, r))
      BY <1>1, <1>3, RaisedTells
<1>5. RateChange(s, rx, tx, room) = {out(t, r) : t \in txs, r \in rxs}
      BY DEF RateChange, i
<1> HIDE DEF txs, rxs, out
<1>6. PICK t \in txs, r \in rxs : x = out(t, r)
      BY <1>5
<1> QED BY <1>4, <1>6

LEMMA CheckedTells ==
    ASSUME NEW s \in Stacks, NEW room \in BOOLEAN, NEW c \in Checked(s, room)
    PROVE TellsOf(s, c.s)
<1>1. CASE c = [s |-> s, high |-> 0]
      BY <1>1 DEF TellsOf
<1>2. ASSUME NEW rx \in BOOLEAN, NEW tx \in BOOLEAN,
             NEW r \in RateChange(s, rx, tx, room), c = [s |-> r, high |-> 1]
      PROVE  TellsOf(s, c.s)
      BY <1>2, RateChangeTells
<1>3. \/ c = [s |-> s, high |-> 0]
      \/ \E rx, tx \in BOOLEAN : \E r \in RateChange(s, rx, tx, room) :
            c = [s |-> r, high |-> 1]
      BY DEF Checked
<1> QED BY <1>1, <1>2, <1>3

\* Where a handler leaves the device: at its rates, at known ones, or telling.
Goes == \/ Rates(cfg') = Rates(cfg)
        \/ Rates(cfg') \in Known
        \/ sync' = "ack" /\ prev'.ok /\ Rates(prev'.cfg) = Rates(cfg)

LEMMA BecomesTells ==
    ASSUME NEW s, s.cfg = cfg, NEW r, TellsOf(s, r), Becomes(r)
    PROVE Goes
<1>1. cfg' = r.cfg /\ prev' = r.prev /\ sync' = r.sync
      BY DEF Becomes
<1> QED BY <1>1, Zenon DEF TellsOf, Goes

LEMMA SyncedGoes ==
    ASSUME NEW s \in Stacks, NEW room \in BOOLEAN,
           Rates(s.cfg) \in Known, Becomes(SendSync(s, FALSE, room))
    PROVE Goes
<1>1. cfg' = s.cfg
      BY SendSyncKeeps DEF Becomes
<1> QED BY <1>1 DEF Goes

LEMMA TriedRates ==
    ASSUME NEW s \in Stacks, NEW i \in 1 .. Len(Alternatives)
    PROVE Rates(Tried(s, i).cfg) = Rates(Alternatives[i])
<1> DEFINE a == Alternatives[i]
           r == SetChans(s, a.tx, a.rx)
<1>1. /\ a.tx \in Chans /\ a.rx \in Chans /\ a.fp \in Plans
      /\ r \in Stacks
      BY AlternativeType, SetChansType
<1>2. r.cfg.tx = a.tx /\ r.cfg.rx = a.rx
      BY <1>1, SetChansRates DEF Rates
<1>3. /\ [r EXCEPT !.cfg.fp = a.fp].cfg.tx = r.cfg.tx
      /\ [r EXCEPT !.cfg.fp = a.fp].cfg.rx = r.cfg.rx
      /\ [r EXCEPT !.cfg.fp = a.fp].cfg.fp = a.fp
      BY <1>1 DEF Stacks, Settings
<1> QED BY <1>2, <1>3 DEF Tried, Rates

LEMMA SetLowestRates ==
    \A s \in Stacks :
        Rates(SetLowest(s).cfg) = [tx |-> 0, rx |-> 0, fp |-> s.cfg.fp]
<1> SUFFICES ASSUME NEW s \in Stacks
             PROVE  Rates(SetLowest(s).cfg) = [tx |-> 0, rx |-> 0, fp |-> s.cfg.fp]
    OBVIOUS
<1>1. SetChans(s, 0, 0) \in Stacks
      BY SetChansType, ZeroIsChan
<1>2. SetLowest(s).cfg = SetChans(s, 0, 0).cfg
      BY <1>1 DEF SetLowest, Stacks
<1> QED BY <1>2, SetChansRates, ZeroIsChan

LEMMA FallBackGoes ==
    ASSUME TypeOK, NEW s \in Stacks, NEW again \in Stacks, NEW c, NEW p,
           NEW room \in BOOLEAN, FallBack(s, again, c, p, room)
    PROVE Goes
<1>0. Saved \in Settings
      BY SavedType
<1>1. ASSUME NEW i \in Due(c, p),
             Becomes(SendSync(Tried(SetDefault(again, Saved), i), FALSE, room))
      PROVE  Goes
  <2>1. i \in 1 .. Len(Alternatives) /\ i \in Usable
        BY DueType DEF Due
  <2>2. SetDefault(again, Saved) \in Stacks
        BY <1>0, SetDefaultType
  <2>3. Rates(Tried(SetDefault(again, Saved), i).cfg) \in Known
        BY <2>1, <2>2, TriedRates DEF Known
  <2> QED BY <1>1, <2>1, <2>2, <2>3, TriedType, SyncedGoes
<1>2. ASSUME NEW d \in {s, again}, Becomes(SendSync(SetDefault(d, Saved), FALSE, room))
      PROVE  Goes
  <2>1. SetDefault(d, Saved) \in Stacks
        BY <1>0, SetDefaultType
  <2>2. Rates(SetDefault(d, Saved).cfg) \in Known
        BY <1>0, SetDefaultRates DEF Known
  <2> QED BY <1>2, <2>1, <2>2, SyncedGoes
<1>3. ASSUME Becomes(SendSync(SetLowest(SetDefault(s, Saved)), FALSE, room))
      PROVE  Goes
  <2>1. SetDefault(s, Saved) \in Stacks
        BY <1>0, SetDefaultType
  <2>2. Rates(SetLowest(SetDefault(s, Saved)).cfg) =
           [tx |-> 0, rx |-> 0, fp |-> Saved.fp]
        BY <1>0, <2>1, SetLowestRates, SetDefaultRates
  <2>3. Rates(SetLowest(SetDefault(s, Saved)).cfg) \in Known
        BY <2>2 DEF Known
  <2> QED BY <1>3, <2>1, <2>3, SetLowestType, SyncedGoes
<1> QED BY <1>1, <1>2, <1>3 DEF FallBack

-----------------------------------------------------------------------------
(***************************************************************************)
(* Action by action.                                                       *)
(***************************************************************************)
LEMMA NowCfg == Now.cfg = cfg /\ HeardNow.cfg = cfg
BY DEF Now, HeardNow

LEMMA SameGoes ==
    ASSUME NEW r, r.cfg = cfg, Becomes(r)
    PROVE Goes
BY DEF Becomes, Goes

LEMMA SubmitGoes == TypeOK /\ Submit => Goes
<1> SUFFICES ASSUME TypeOK, Submit PROVE Goes
    OBVIOUS
<1>1. Now \in Stacks /\ Saved \in Settings
      BY NowType, SavedType
<1>2. ASSUME NEW room \in BOOLEAN,
             Becomes([SendSync(SetDefault(Now, Saved), FALSE, room)
                         EXCEPT !.app = "queued"])
      PROVE  Goes
  <2>1. SetDefault(Now, Saved) \in Stacks
        BY <1>1, SetDefaultType
  <2>2. SendSync(SetDefault(Now, Saved), FALSE, room) \in Stacks
        BY <2>1, SendSyncType
  <2>3. cfg' = SetDefault(Now, Saved).cfg
        BY <1>2, <2>1, <2>2, SendSyncKeeps DEF Becomes, Stacks
  <2> QED BY <1>1, <2>3, SetDefaultRates DEF Goes, Known
<1>3. ASSUME Becomes([Now EXCEPT !.app = "queued"])
      PROVE  Goes
  <2>1. [Now EXCEPT !.app = "queued"].cfg = cfg
        BY DEF Now
  <2> QED BY <1>3, <2>1, SameGoes
<1> QED BY <1>2, <1>3 DEF Submit

LEMMA TransmitGoes == TypeOK /\ Transmit => Goes
<1> SUFFICES ASSUME TypeOK, Transmit PROVE Goes
    OBVIOUS
<1>1. Now \in Stacks
      BY NowType
<1>2. ASSUME NEW room \in BOOLEAN,
             NEW s, s = [Now EXCEPT !.sync = None,
                                    !.waiting = IF sync = "ack" THEN "sync"
                                                ELSE None],
             NEW c \in IF HasQueued(s) THEN {[s |-> s, high |-> 0]}
                       ELSE Checked(s, room),
             Becomes(c.s)
      PROVE  Goes
  <2>1. s \in Stacks
        BY <1>1, <1>2 DEF Stacks, Syncs, Waits
  <2>2. s.cfg = cfg
        BY <1>2 DEF Now
  <2>3. CASE c = [s |-> s, high |-> 0]
        BY <1>2, <2>2, <2>3, SameGoes
  <2>4. CASE c \in Checked(s, room)
        BY <1>2, <2>1, <2>2, <2>4, CheckedTells, BecomesTells
  <2> QED BY <2>3, <2>4
<1>3. ASSUME Becomes([Now EXCEPT !.app = "sent", !.waiting = "app"])
      PROVE  Goes
  <2>1. [Now EXCEPT !.app = "sent", !.waiting = "app"].cfg = cfg
        BY DEF Now
  <2> QED BY <1>3, <2>1, SameGoes
<1> QED BY <1>2, <1>3 DEF Transmit

LEMMA TimeoutGoes == TypeOK /\ Timeout => Goes
<1> SUFFICES ASSUME TypeOK, Timeout PROVE Goes
    OBVIOUS
<1>1. Now \in Stacks /\ Closed(Now) \in Stacks
      BY NowType, ClosedType
<1>2. ASSUME NEW room \in BOOLEAN, Becomes(Return(Closed(Now), room))
      PROVE  Goes
  <2>1. Closed(Now).prev = prev
        BY <1>1 DEF Closed, Now
  <2>2. cfg' = Return(Closed(Now), room).cfg
        BY <1>2 DEF Becomes
  <2>3. Rates(cfg') = [tx |-> prev.cfg.tx, rx |-> prev.cfg.rx, fp |-> prev.fp]
        BY <1>1, <2>1, <2>2, ReturnRates
  <2> QED BY <2>3 DEF Goes, Known
<1>3. ASSUME NEW room \in BOOLEAN,
             NEW again \in {[Now EXCEPT !.app = "queued", !.waiting = None],
                            Closed(Now)},
             FallBack(Closed(Now), again, tryCounter, tryPeriod, room)
      PROVE  Goes
  <2>1. [Now EXCEPT !.app = "queued", !.waiting = None] \in Stacks
        BY <1>1 DEF Stacks, Apps, Waits
  <2>2. again \in Stacks
        BY <1>1, <2>1
  <2> QED BY <1>1, <1>3, <2>2, FallBackGoes
<1> QED BY <1>2, <1>3 DEF Timeout

LEMMA FramesGo == TypeOK /\ Frames => Goes
<1> SUFFICES ASSUME TypeOK, Frames PROVE Goes
    OBVIOUS
<1>1. /\ HeardNow \in Stacks /\ Closed(HeardNow) \in Stacks
      /\ Dropped(HeardNow) \in Stacks
      BY HeardNowType, ClosedType, DroppedType
<1>2. Closed(HeardNow).cfg = cfg /\ Dropped(HeardNow).cfg = cfg
      BY <1>1, NowCfg, ClosedKeeps DEF Dropped, Stacks
<1>3. ASSUME NEW s \in Stacks, s.cfg = cfg, NEW room \in BOOLEAN,
             NEW c \in Checked(s, room), Becomes(c.s)
      PROVE  Goes
      BY <1>3, CheckedTells, BecomesTells
<1>4. CASE Acked
  <2>1. PICK info \in Infos, room \in BOOLEAN :
           \E c \in Checked([Closed(HeardNow) EXCEPT !.station = info], room) :
              Becomes(c.s)
        BY <1>4 DEF Acked
  <2> DEFINE s == [Closed(HeardNow) EXCEPT !.station = info]
  <2>2. s \in Stacks /\ s.cfg = cfg
        BY <1>1, <1>2 DEF Stacks
  <2> QED BY <1>3, <2>1, <2>2
<1>5. CASE AckedInPart
  <2>1. PICK info \in Infos, room \in BOOLEAN :
           LET s == [Closed(HeardNow) EXCEPT !.station.ul = info.ul,
                                             !.station.dl = info.dl]
           IN  FallBack(s, s, 0, 0, room)
        BY <1>5 DEF AckedInPart
  <2>2. [Closed(HeardNow) EXCEPT !.station.ul = info.ul, !.station.dl = info.dl]
           \in Stacks
        BY <1>1 DEF Stacks, StationInfo
  <2> QED BY <2>1, <2>2, FallBackGoes
<1>6. CASE Heard
      BY <1>1, <1>3, <1>6, NowCfg DEF Heard
<1>7. CASE HeardMessage
      BY <1>1, <1>2, <1>3, <1>7 DEF HeardMessage
<1> QED BY <1>4, <1>5, <1>6, <1>7 DEF Frames

\* The others are writes: they use up a call, or save.
LEMMA WritesCount ==
    TypeOK /\ Writes => callsLeft' # callsLeft \/ dirty' # dirty
<1> SUFFICES ASSUME TypeOK, Writes
             PROVE callsLeft' # callsLeft \/ dirty' # dirty
    OBVIOUS
<1>1. callsLeft \in Nat
      BY DEF TypeOK
<1>2. CASE Calls
      BY <1>1, <1>2 DEF Calls
<1>3. CASE Save
      BY <1>3, Zenon DEF Save
<1> QED BY <1>2, <1>3
        DEF Writes, Write, WriteAndSave, Factory, SetSettings, Reset

\* Unless somebody writes settings, the device goes where the station is looked
\* for, or it asks for confirmation and keeps what it had
\* (NBFi_Config_Rate_Change, also with a full ring and with a channel that is
\* in no table).
THEOREM ConfigRaisedIsTold == Spec => RaisedIsTold
<1>1. TypeOK /\ [Next]_vars => [Tells]_vars
  <2> SUFFICES ASSUME TypeOK, Next PROVE Tells
      BY Zenon
  <2>1. CASE Packets
        BY <2>1, SubmitGoes, TransmitGoes, TimeoutGoes DEF Packets, Goes, Tells
  <2>2. CASE Frames
        BY <2>2, FramesGo DEF Goes, Tells
  <2>3. CASE Writes
        BY <2>3, WritesCount DEF Tells
  <2> QED BY <2>1, <2>2, <2>3 DEF Next
<1> QED BY <1>1, ConfigTypeCorrect, PTL DEF Spec, RaisedIsTold

=============================================================================
