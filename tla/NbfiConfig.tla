----------------------------- MODULE NbfiConfig -----------------------------
(***************************************************************************)
(* The rates and the frequency plan of the device: nbfi_config.c, and the  *)
(* places of nbfi_transport.c, nbfi_transport_misc.c and nbfi.c that change *)
(* them.  The device raises its rates when the station allows, falls back  *)
(* to the settings in flash when its packets are lost, and then searches   *)
(* the alternatives of its settings for the station.                       *)
(*                                                                         *)
(* A channel is its index in TxRateTable or RxRateTable; a channel that is *)
(* in neither (another protocol, not PROT_E) is Foreign, the index         *)
(* NBFi_Config_Set_TX_Chan leaves for it.  Uplink and downlink plan are one.*)
(* The mode is not NRX and the handshake is on; retries before a packet is *)
(* given up, the power steps and the CONFIG replies are left out; the SNR  *)
(* averages only say that a rate may rise.  A SYNC tells the settings at   *)
(* the time it is transmitted, so the ring only holds that there is one.   *)
(***************************************************************************)
EXTENDS Naturals, Sequences

CONSTANTS
    NumRates,       \* NUM_OF_TX_RATES, NUM_OF_RX_RATES: 4
    Plans,          \* frequency plans; 0 is NBFI_FREQ_PLAN_MINIMAL
    NoChange,       \* NBFI_UL_FREQ_PLAN_NO_CHANGE
    NoSettings,     \* what an empty flash holds
    Board,          \* __nbfi_read_default_settings
    Alternatives,   \* nbfi.try_alternative: a sequence of records
    TryAlternatives,    \* NBFI_FLG_DO_NOT_TRY_ALTERNATIVE is clear
    LowestOnLoss,   \* NBFI_FLG_RESET_TO_LOWEST_RATES
    PeriodMod,      \* try_period is a uint16_t: 65536
    Homes,          \* where the station may be at first
    Choices,        \* bound: the settings that somebody writes
    Infos,          \* bound: what the station says of itself in an ACK
    MaxHigh,        \* bound: how often the SNR is high enough for more, and how
                    \* many messages are received
    MaxCalls        \* bound: settings written, and resets

Foreign  == NumRates
Chans    == 0 .. NumRates
Settings == [tx : Chans, rx : Chans, fp : Plans, fixed : BOOLEAN]
StationInfo == [ul : BOOLEAN, dl : BOOLEAN, fp : Plans \union {NoChange}]
Triples  == [tx : Chans, rx : Chans, fp : Plans]

ASSUME RateAssumption  == NumRates \in Nat \ {0} /\ 0 \in Plans /\ NoChange \notin Plans
ASSUME BoardAssumption == Board \in Settings /\ NoSettings \notin Settings
ASSUME AlternativeAssumption ==
    /\ Alternatives \in Seq([interval : Nat, tx : Chans, rx : Chans, fp : Plans])
    /\ TryAlternatives \in BOOLEAN /\ LowestOnLoss \in BOOLEAN
ASSUME BoundAssumption ==
    PeriodMod \in Nat \ {0} /\ MaxHigh \in Nat /\ MaxCalls \in Nat
ASSUME HomeAssumption  == Homes \subseteq Triples /\ Choices \subseteq Settings
ASSUME InfoAssumption  == Infos \subseteq StationInfo

None     == "none"

VARIABLES
    home,           \* the rates and the plan the station uses
    cfg,            \* nbfi: the settings in use
    idx,            \* current_tx_rate, current_rx_rate
    prev,           \* nbfi_prev, prev_tx_rate, prev_rx_rate, prev_fplan; ok is
                    \* FALSE when nbfi_prev.tx_phy_channel is UNDEFINED
    flash,          \* the settings in flash
    dirty,          \* nbfi_settings_need_to_save_to_flash
    lowest,         \* switched_to_lowest_rates
    tryCounter, tryPeriod,
    station,        \* nbfi_station_info: UL_SPEED_NOT_MAX, DL_SPEED_NOT_MAX, fp
    sync,           \* the SYNC in the ring: "plain", or "ack" if it asks for an
                    \* ACK, or None
    app,            \* a message of the application: None, "queued" or "sent"
    waiting,        \* what nbfi_active_pkt waits for: None, "app" or "sync"
    highLeft, callsLeft     \* what the bounds leave

stackVars == <<cfg, idx, prev, lowest, station, sync, app, waiting>>
tryVars   == <<tryCounter, tryPeriod>>
flashVars == <<flash, dirty>>
vars      == <<home, stackVars, tryVars, flashVars, highLeft, callsLeft>>

Rates(c) == [tx |-> c.tx, rx |-> c.rx, fp |-> c.fp]

TypeOK ==
    /\ home \in Triples
    /\ cfg \in Settings
    /\ idx \in [tx : Chans, rx : Chans]
    /\ prev \in [cfg : Settings, tx : Chans, rx : Chans, fp : Plans,
                 ok : BOOLEAN]
    /\ flash \in Settings \union {NoSettings}
    /\ dirty \in BOOLEAN /\ lowest \in BOOLEAN
    /\ tryCounter \in 0 .. Len(Alternatives)
    /\ tryPeriod \in 0 .. PeriodMod - 1
    /\ station \in StationInfo
    /\ sync \in {None, "plain", "ack"}
    /\ app \in {None, "queued", "sent"} /\ waiting \in {None, "app", "sync"}
    /\ highLeft \in 0 .. MaxHigh /\ callsLeft \in 0 .. MaxCalls

-----------------------------------------------------------------------------
(***************************************************************************)
(* The functions of nbfi_config.c work on a record s of the variables the  *)
(* handlers change; room says that NBFi_AllocateTxPkt finds a slot.        *)
(***************************************************************************)
Now == [cfg |-> cfg, idx |-> idx, prev |-> prev, lowest |-> lowest,
        station |-> station, sync |-> sync, app |-> app, waiting |-> waiting]

Becomes(s) ==
    /\ cfg' = s.cfg /\ idx' = s.idx /\ prev' = s.prev /\ lowest' = s.lowest
    /\ station' = s.station /\ sync' = s.sync /\ app' = s.app
    /\ waiting' = s.waiting

HasQueued(s) == s.sync # None \/ s.app = "queued"

\* NBFi_Close_Active_Packet: what the active packet waited for is lost.
Closed(s) == [s EXCEPT !.app = IF s.waiting = "app" THEN None ELSE @,
                       !.waiting = None]

\* NBFi_Config_Set_TX_Chan, NBFi_Config_Set_RX_Chan
SetChans(s, tx, rx) ==
    [s EXCEPT !.cfg.tx = tx, !.cfg.rx = rx,
              !.idx = IF s.cfg.fixed THEN @ ELSE [tx |-> tx, rx |-> rx]]

\* NBFi_ReadConfig
Saved == IF flash = NoSettings THEN Board ELSE flash

\* NBFi_Config_Set_Default; d is what NBFi_ReadConfig reads.
SetDefault(s, d) ==
    LET r == [s EXCEPT !.cfg = d, !.lowest = FALSE]
    IN  Closed(SetChans(r, d.tx, d.rx))

\* NBFi_Config_Send_Sync: a SYNC in the ring or awaiting its ACK is replaced.
SendSync(s, ack, room) ==
    [s EXCEPT !.sync = IF ~room THEN None ELSE IF ack THEN "ack" ELSE "plain",
              !.waiting = IF @ = "sync" THEN None ELSE @]

\* NBFi_Config_Return
Return(s, room) ==
    SendSync([s EXCEPT !.cfg = [s.prev.cfg EXCEPT !.fp = s.prev.fp],
                       !.idx = [tx |-> s.prev.tx, rx |-> s.prev.rx],
                       !.prev.ok = FALSE], FALSE, room)

\* TxRateTable[i], RxRateTable[i]; behind the table lies any value.
Table(i) == IF i < NumRates THEN {i} ELSE Chans

\* Mutant: the last rate is not the limit.
Up_NoLimit(i) == i + 1

\* The next rate.
Up(i) == IF i + 1 > NumRates - 1 THEN NumRates - 1 ELSE i + 1

\* Mutant: the station is not asked for its ACK.
Told_Unasked(s, c, room) ==
    SendSync([s EXCEPT !.cfg = c, !.station.fp = NoChange], FALSE, room)

\* The new settings take effect and are told to the station.
Told(s, c, room) ==
    SendSync([s EXCEPT !.cfg = c, !.station.fp = NoChange], TRUE, room)

ProtE(s) == s.cfg.tx # Foreign

\* The indices after NBFi_Config_Rate_Change(.., UP) for the directions that are
\* high.
Risen(s, rx, tx) ==
    [rx |-> IF rx /\ s.station.dl THEN Up(s.idx.rx) ELSE s.idx.rx,
     tx |-> IF tx /\ s.station.ul /\ ProtE(s) THEN Up(s.idx.tx) ELSE s.idx.tx]

\* NBFi_Config_Check_If_FP_Need_To_Change
NewPlan(s) == IF s.station.fp = NoChange THEN s.cfg.fp ELSE s.station.fp

\* The settings n take effect, are told, and are taken back if no SYNC finds room.
Raised(s, i, n, room) ==
    IF Rates(s.cfg) = n THEN [s EXCEPT !.idx = i]
    ELSE LET changed == [s EXCEPT !.idx = i, !.prev =
                            [cfg |-> s.cfg, tx |-> s.idx.tx, rx |-> s.idx.rx,
                             fp |-> s.cfg.fp, ok |-> TRUE]]
             c == [s.cfg EXCEPT !.tx = n.tx, !.rx = n.rx, !.fp = n.fp]
         IN  IF room THEN Told(changed, c, room)
             ELSE Return(Told(changed, c, room), room)

\* NBFi_Config_Rate_Change; which channels the tables give.
RateChange(s, rx, tx, room) ==
    LET i == Risen(s, rx, tx)
    IN  {Raised(s, i, [tx |-> t, rx |-> r, fp |-> NewPlan(s)], room) :
            t \in IF ProtE(s) THEN Table(i.tx) ELSE {s.cfg.tx}, r \in Table(i.rx)}

\* NBFI_Config_Check_State: what may come of it, and whether the SNR was high.
Checked(s, room) ==
    {[s |-> s, high |-> 0]} \union
    IF s.cfg.fixed \/ s.waiting # None \/ highLeft = 0 THEN {}
    ELSE {[s |-> r, high |-> 1] :
            r \in UNION {RateChange(s, rx, tx, room) :
                           rx, tx \in BOOLEAN}}

-----------------------------------------------------------------------------
(***************************************************************************)
(* The search for the station.                                             *)
(***************************************************************************)

\* The alternatives that are looked at: up to the first without an interval.
Usable == {i \in 1 .. Len(Alternatives) :
              TryAlternatives /\ \A j \in 1 .. i : Alternatives[j].interval > 0}

\* Mutant: the turn of an alternative never comes if it is not always.
Due_Always(c, p) == {i \in Usable : i > c /\ Alternatives[i].interval = 1}

\* The alternatives whose turn it is, from try_counter on; the first of them is
\* what NBFi_Config_Try_Alternative finds.
Due(c, p) == {i \in Usable : i > c /\ p % Alternatives[i].interval = 0}

Tried(s, i) ==
    LET a == Alternatives[i]
    IN  [SetChans(s, a.tx, a.rx) EXCEPT !.cfg.fp = a.fp]

\* NBFi_Config_set_lowest_rates
SetLowest(s) == [SetChans(s, 0, 0) EXCEPT !.lowest = TRUE]

\* NBFi_Config_is_settings_default
IsDefault == Rates(cfg) = Rates(Saved)

\* The fallback of a packet that is lost, in NBFi_Receive_Timeout_cb and
\* NBFi_Resend_Pkt: s has the packet closed, again has it queued once more;
\* c and p are try_counter and try_period.
FallBack(s, again, c, p, room) ==
    IF IsDefault \/ c # 0
    THEN \/ \E i \in Due(c, p) :
              /\ \A j \in Due(c, p) : i <= j
              /\ tryCounter' = i /\ tryPeriod' = p
              /\ Becomes(SendSync(Tried(SetDefault(again, Saved), i), FALSE, room))
         \/ /\ Due(c, p) = {}
            /\ tryCounter' = 0 /\ tryPeriod' = (p + 1) % PeriodMod
            /\ LET d == SetDefault(s, Saved)
                   l == IF LowestOnLoss /\ ~HasQueued(d) THEN SetLowest(d) ELSE d
               IN  Becomes(SendSync(l, FALSE, room))
    ELSE /\ tryCounter' = c /\ tryPeriod' = p
         /\ Becomes(SendSync(SetDefault(again, Saved), FALSE, room))

-----------------------------------------------------------------------------
(***************************************************************************)
(* NBFI_Init: everything but the flash is new.                             *)
(***************************************************************************)
Started(d) ==
    [cfg     |-> d,
     idx     |-> IF d.fixed THEN [tx |-> 0, rx |-> 0]
                 ELSE [tx |-> d.tx, rx |-> d.rx],
     prev    |-> [cfg |-> [tx |-> Foreign, rx |-> Foreign, fp |-> 0,
                           fixed |-> FALSE],
                  tx |-> 0, rx |-> 0, fp |-> 0, ok |-> TRUE],
     lowest  |-> FALSE,
     station |-> [ul |-> FALSE, dl |-> FALSE, fp |-> NoChange],
     sync    |-> "plain", app |-> None, waiting |-> None]

Init ==
    /\ home \in Homes
    /\ flash = NoSettings /\ dirty = FALSE
    /\ LET s == Started(Board)
       IN  /\ cfg = s.cfg /\ idx = s.idx /\ prev = s.prev /\ lowest = s.lowest
           /\ station = s.station /\ sync = s.sync /\ app = s.app
           /\ waiting = s.waiting
    /\ tryCounter = 0 /\ tryPeriod = 0
    /\ highLeft = MaxHigh /\ callsLeft = MaxCalls

Calls == callsLeft > 0 /\ callsLeft' = callsLeft - 1

Reset ==
    /\ Calls
    /\ Becomes(Started(Saved))
    /\ tryCounter' = 0 /\ tryPeriod' = 0 /\ dirty' = FALSE
    /\ UNCHANGED <<home, flash, highLeft>>

-----------------------------------------------------------------------------
(***************************************************************************)
(* Packets.                                                                *)
(***************************************************************************)

\* NBFi_Send5: the lowest rates are left before a message is queued.
Submit ==
    /\ app = None
    /\ \E room \in BOOLEAN :
         LET s == IF LowestOnLoss /\ lowest
                  THEN SendSync(SetDefault(Now, Saved), FALSE, room) ELSE Now
         IN  Becomes([s EXCEPT !.app = "queued"])
    /\ UNCHANGED <<home, tryVars, flashVars, highLeft, callsLeft>>

\* NBFi_ProcessTasks sends the SYNC first; after a packet nobody answers, with
\* nothing else to send, the rates are looked at.  The station may follow what
\* the SYNC tells.
Transmit ==
    /\ waiting = None
    /\ \/ /\ sync # None
          /\ LET s == [Now EXCEPT !.sync = None,
                                  !.waiting = IF sync = "ack" THEN "sync" ELSE None]
             IN  \E room \in BOOLEAN :
                   \E c \in IF HasQueued(s) THEN {[s |-> s, high |-> 0]}
                            ELSE Checked(s, room) :
                      Becomes(c.s) /\ highLeft' = highLeft - c.high
          /\ home' \in {home, Rates(cfg)}
       \/ /\ sync = None /\ app = "queued"
          /\ Becomes([Now EXCEPT !.app = "sent", !.waiting = "app"])
          /\ UNCHANGED <<home, highLeft>>
    /\ UNCHANGED <<tryVars, flashVars, callsLeft>>

\* The packet is given up after its last retry.
Timeout ==
    /\ waiting # None
    /\ \E room \in BOOLEAN :
         IF waiting = "sync" /\ prev.ok
         THEN Becomes(Return(Closed(Now), room)) /\ UNCHANGED tryVars
         ELSE LET again == IF waiting = "app"
                           THEN [Now EXCEPT !.app = "queued", !.waiting = None]
                           ELSE Closed(Now)
              IN  FallBack(Closed(Now), again, tryCounter, tryPeriod, room)
    /\ UNCHANGED <<home, flashVars, highLeft, callsLeft>>

-----------------------------------------------------------------------------
(***************************************************************************)
(* Frames, heard only where the station is.                                *)
(***************************************************************************)
Meets == Rates(cfg) = home
Hears == cfg.rx = home.rx /\ cfg.fp = home.fp

\* Any frame ends the stay on the lowest rates.
HeardNow == [Now EXCEPT !.lowest = IF LowestOnLoss THEN FALSE ELSE @]

\* The ACK: the search is over, and the station says what it allows.
Acked ==
    /\ Meets /\ waiting # None
    /\ tryCounter' = 0 /\ tryPeriod' = 0
    /\ \E info \in Infos, room \in BOOLEAN :
          \E c \in Checked([Closed(HeardNow) EXCEPT !.station = info], room) :
             Becomes(c.s) /\ highLeft' = highLeft - c.high
    /\ UNCHANGED <<home, flashVars, callsLeft>>

\* An ACK that misses fragments, one of them after its last retry: with the
\* search over, NBFi_Resend_Pkt falls back all the same and queues nothing again.
AckedInPart ==
    /\ Meets /\ waiting = "app"
    /\ \E info \in Infos, room \in BOOLEAN :
         LET s == [Closed(HeardNow) EXCEPT !.station.ul = info.ul,
                                           !.station.dl = info.dl]
         IN  FallBack(s, s, 0, 0, room)
    /\ UNCHANGED <<home, flashVars, highLeft, callsLeft>>

\* Any other frame.
Heard ==
    /\ Hears
    /\ \E room \in BOOLEAN : \E c \in Checked(HeardNow, room) :
          Becomes(c.s) /\ highLeft' = highLeft - c.high
    /\ UNCHANGED <<home, tryVars, flashVars, callsLeft>>

\* A packet of a message: NBFi_AllocateRxPkt drops the active packet, which is
\* then sent again; its retries are not counted, nor is it given up.
Dropped(s) == [s EXCEPT !.app  = IF s.waiting = "app" THEN "queued" ELSE @,
                        !.sync = IF s.waiting = "sync" THEN "ack" ELSE @,
                        !.waiting = None]

HeardMessage ==
    /\ Hears
    /\ \E room \in BOOLEAN : \E c \in Checked(Dropped(HeardNow), room) :
          /\ c.high < highLeft
          /\ Becomes(c.s) /\ highLeft' = highLeft - 1 - c.high
    /\ UNCHANGED <<home, tryVars, flashVars, callsLeft>>

-----------------------------------------------------------------------------
(***************************************************************************)
(* Settings.                                                               *)
(***************************************************************************)

\* The parameters a command writes: the channels, the plan, the flags.
Written(s) ==
    {SetChans(s, n.tx, n.rx) : n \in Choices}
    \union {[s EXCEPT !.cfg.fp = n.fp] : n \in Choices}
    \union {[s EXCEPT !.cfg.fixed = n.fixed] : n \in Choices}

\* WRITE_PARAM_CMD: nbfi_prev is the settings before.
Write ==
    /\ Calls
    /\ \E s \in Written([Now EXCEPT !.prev.cfg = cfg, !.prev.ok = TRUE]) :
          Becomes(s)
    /\ UNCHANGED <<home, tryVars, flashVars, highLeft>>

\* WRITE_PARAM_AND_SAVE_CMD
WriteAndSave ==
    /\ Calls
    /\ \E room \in BOOLEAN :
         \E s \in Written([SetDefault(Now, Saved)
                             EXCEPT !.prev.cfg = Saved, !.prev.ok = TRUE]) :
            Becomes(SendSync(s, FALSE, room))
    /\ dirty' = TRUE
    /\ UNCHANGED <<home, tryVars, flash, highLeft>>

\* RESET_TO_FACTORY_SETTINGS
Factory ==
    /\ Calls
    /\ flash' = NoSettings
    /\ \E room \in BOOLEAN :
          Becomes(SendSync(SetDefault(Now, Board), FALSE, room))
    /\ UNCHANGED <<home, tryVars, dirty, highLeft>>

\* NBFi_set_Settings(.., 1): the ring is cleared; the rate indices stay.
SetSettings ==
    /\ Calls
    /\ \E n \in Choices :
         LET s == [Now EXCEPT !.cfg = n, !.sync = None, !.app = None,
                              !.waiting = None]
         IN  Becomes(IF n.rx # cfg.rx \/ n.fp # cfg.fp
                     THEN SendSync(s, FALSE, TRUE) ELSE s)
    /\ dirty' = TRUE
    /\ UNCHANGED <<home, tryVars, flash, highLeft>>

\* NBFI_Main_Level_Loop: without fixed rates the board's rates and plan are
\* saved; the rates are put back, the plan is not.
Save ==
    /\ dirty
    /\ dirty' = FALSE
    /\ LET c == IF cfg.fixed THEN cfg ELSE [cfg EXCEPT !.fp = Board.fp]
       IN  /\ cfg' = c
           /\ flash' = IF cfg.fixed THEN cfg
                       ELSE [c EXCEPT !.tx = Board.tx, !.rx = Board.rx]
    /\ UNCHANGED <<home, idx, prev, lowest, station, sync, app, waiting, tryVars,
                   highLeft, callsLeft>>

-----------------------------------------------------------------------------
Packets == Submit \/ Transmit \/ Timeout
Frames  == Acked \/ AckedInPart \/ Heard \/ HeardMessage
Writes  == Write \/ WriteAndSave \/ Factory \/ SetSettings \/ Save \/ Reset

Next == Packets \/ Frames \/ Writes

Spec == Init /\ [][Next]_vars

\* The application sends, and what it sends is transmitted and given up in
\* time; nothing is assumed of the station.
FairSpec == Spec /\ WF_vars(Packets)

-----------------------------------------------------------------------------
(***************************************************************************)
(* Properties.                                                             *)
(***************************************************************************)

\* Unless somebody writes settings, the device changes its rates and its plan in
\* two ways: it goes where the station is looked for, or it tries something new,
\* and then it asks the station to confirm it and keeps what it had, to return to
\* (NBFi_Config_Rate_Change; with a full ring nothing changes).
Known == {Rates(Saved), [tx |-> 0, rx |-> 0, fp |-> Saved.fp],
          [tx |-> prev.cfg.tx, rx |-> prev.cfg.rx, fp |-> prev.fp]}
         \union {Rates(Alternatives[i]) : i \in Usable}

Tells == Rates(cfg') # Rates(cfg) /\ callsLeft' = callsLeft /\ dirty' = dirty
         => \/ Rates(cfg') \in Known
            \/ sync' = "ack" /\ prev'.ok /\ Rates(prev'.cfg) = Rates(cfg)

RaisedIsTold == [][Tells]_vars

\* A station that is where the settings in flash or a usable alternative say is
\* met again and again, whatever rates, settings, losses and resets led the
\* device elsewhere, as long as the application sends.
Findable == \/ home = Rates(Saved)
            \/ \E i \in Usable : home = Rates(Alternatives[i])

Reunites == <>[]Findable => []<>Meets
=============================================================================
