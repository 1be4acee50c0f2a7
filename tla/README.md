# NB-Fi end device: TLA+ models and proofs

This directory models the device side of the NB-Fi LPWAN protocol stack
(`src/NBFiLib/nbfi`). The code is a C library that runs on a microcontroller
next to an application: the application queues messages, the stack cuts them
into packets, sends them over a slow and lossy radio, waits for
acknowledgements, retransmits, and tells the application what became of each
message.

Paths below are relative to `src/`; `transport.c`, `transport_misc.c`,
`config.c`, `crypto.c`, `mac.c`, `rf.c` stand for `NBFiLib/nbfi/nbfi_*.c`.

## 1. Inventory

### 1.1 Components

| Component | State it keeps | Operations | Status |
|---|---|---|---|
| Uplink transport (`transport.c`, `transport_misc.c`) | ring of 64 packets with a head index, the active packet, UL ITER, `not_acked`, status ring of 16 messages, three timers | `NBFi_Send5`, `NBFi_ProcessTasks`, `NBFi_TX_Finished`, `NBFi_Receive_Timeout_cb`, `NBFi_Wait_Extra_Handler`, `NBFi_Wait_Clear_cb`, the ACK / system / message branches of `NBFi_ParseReceivedPacket`, `NBFi_Resend_Pkt`, `NBFi_SendHeartBeats` | `NbfiTx`; DRX mode and the receive window in `NbfiRf`, the SYNC of a changed rate in `NbfiConfig`. Left out: `NBFI_FLG_SEND_IN_RESPONSE`, blocking transmission |
| Uplink service (`nbfi.h` as the application sees it) | status of each message | `NBFi_Send5`, `NBFi_Get_UL_status`, the send-complete callback | `UlService` (abstract specification) |
| Downlink transport | receive ring of 32 packets, last ITER, queue of 4 received messages | `NBFi_AllocateRxPkt`, `NBFi_Get_RX_ACK_Mask`, `NBFi_Check_RX_Packet_Duplicate`, `NBFi_ProcessRxPackets`, `NBFi_Queue_Next_DL`, `NBFi_Next_Ready_DL` | `NbfiRx` and the abstract `DlService` |
| Crypto (`crypto.c`, iterator calls in `mac.c`) | UL and DL iterators, key chains, what was saved to flash | `NBFi_Crypto_Set_KEY`, `NBFi_Crypto_UL_...`, `NBFI_Crypto_inc_iter`, `NBFI_Crypto_mic_check`, save / restore, switch to the short-range link | `NbfiCrypto`, except protocol D on the default channels and the builds without crypto |
| MAC (`mac.c`, `nbfi_crc.c`, `zcode.c`, `pcode.c`) | none of its own | frame layout, CRC, coding, frequency choice | not modelled: conversion of data; what it does to the iterator belongs to Crypto |
| RF (`rf.c`) | `rf_busy`, `rf_state`, `transmit`, antenna and frequency | `NBFi_RF_Init`, `_Deinit`, `_Transmit`, `NBFi_RF_is_TX_in_Progress` | `NbfiRf`, with the process task and the receive window of `transport.c`; `rf_busy`, antenna and frequency values left out |
| Configuration (`config.c`) | modes, rates, power, channel plan, alternatives tried | `NBFi_Config_Parser`, `Rate_Change`, `Set_Default`, `Try_Alternative`, `Config_Return`, send / receive of configuration packets | `NbfiConfig` (rates, plan, search); mode and sleep in `NbfiRf`; READ commands and power steps left out |
| Device life cycle (`nbfi.c`) | settings, saved context | `NBFI_Init`, `NBFI_Main_Level_Loop`, `NBFi_go_to_Sleep`, `NBFi_can_sleep`, settings, save / restore, watchdog | spread over the modules: status report in `NbfiTx`, message report in `NbfiRx`, settings, sleep and `can_sleep` in `NbfiRf`, start and saving of settings in `NbfiConfig`, keys and iterators in `NbfiCrypto` |
| AT server (`NBFiLib/nbfi_at_server`) | text buffers | commands that call the operations above | not modelled: a text front end |
| Board ports (`stm32l0x`, `v85xx`, `nuvoton_m251x`, `stm32l4x`: `NBFiHAL`) | timers, pins, EEPROM | scheduler interrupt, loop-interrupt lock, flash access | assumptions of the models (1.2) |
| Applications of the boards (`stm32l0x/*/Src`, `stm32l4x/Src`) | UART ring (`xbuf.c`), firmware image (`shared/update.c`), meter records (`WVT`) | put / get, copy of a new image, EEPROM save | not modelled (section 9) |
| Vendored CMSIS, HAL, drivers | | | not modelled; scheduler, radio driver and cipher are submodules that are not in the tree |

### 1.2 How the parts interact

There are two contexts of execution. The scheduler's callbacks (process task,
receive timer, extra-packet timer, clear timer, radio poll) run in a timer
interrupt (`stm32l0x/WRM1470DevKit/NBFiHAL/scheduler_hal.c:73-83`). The
application and `NBFI_Main_Level_Loop` run in the main loop and take the lock
`__nbfi_lock_unlock_loop_irq`, which masks that interrupt
(`scheduler_hal.c:173-177`). Callbacks do not preempt one another. Both
contexts share the packet ring, the active packet and the status ring.

    application --Send5--> transport --MAC_TX--> MAC/crypto --> RF --> air
                <-status--          <-Parse----             <--  <-- base station
                   ^                     |
                   |                     +--> configuration (rates, SYNC, defaults)
               main loop

A frame that is received goes from the radio through MAC and crypto to
`NBFi_ParseReceivedPacket`, which cancels timers, changes the active packet,
walks the ring when the frame is an ACK, and may queue answers. The
configuration is changed by such frames, by lost packets and by the
application, and in turn queues SYNC and CLEAR packets.

### 1.3 What is hard, and what makes each part correct

* **Uplink transport.** Late ACKs, ACKs for earlier messages, an active packet
  dropped for a downlink while it waits, a ring that wraps, an ACK mask that
  must line up with ITERs and with a window spanning several messages. Correct
  when a verdict is given once and is true, messages stay in order, no message
  is forgotten, and the ring does not clog.
* **Downlink transport.** Lost and repeated fragments, groups that overlap, a
  reader slower than the air. Correct when a group is handed up once, whole and
  in order.
* **Crypto.** Resets between use and save of an iterator, the wrap at 2^20, the
  scan window for lost frames. Correct when no iterator is used twice with one
  key, no frame is accepted twice, and both ends can always meet again.
* **RF / life cycle.** A transmission cut by a settings change or a watchdog,
  the non-nesting lock. Correct when at most one transmission is under way and
  the radio is off only when nothing is.
* **Configuration.** Rate changes confirmed by the other side or taken back.
  Correct when the device always returns to settings at which the base station
  hears it, and table indexes stay in range.
* **Board applications.** Ring boundary cases and resets while copying.

`PROJECT.json` lists each hazard at its line, with the property that covers it
or the reason none does yet.

## 2. Plan

The modules in the order they were written. Each stands for one component and
takes the effect of the others as free choices, so that its runs stay small;
the table says where they meet.

| # | Modules | What they add | Where it meets the others |
|---|---|---|---|
| 1 | `NbfiTxBuffer`, `NbfiTx`, `UlService`, `NbfiTxMC`, `NbfiTxProofs`, `NbfiTxSafety`, `NbfiTxWindows` | uplink transport against a base station; abstract service | `NbfiTx` EXTENDS the buffer and instantiates the service |
| 2 | `NbfiCrypto`, `NbfiCryptoSafety`, `NbfiLemmas` | iterators, key chains, resets, replay, the short-range link | one call: the hand-over of an accepted frame |
| 3 | `NbfiRx`, `DlService`, `NbfiRxProofs` | receive ring, group reassembly, ACK mask, queue of messages; abstract service | the ACK it queues is an urgent packet of `NbfiTx` and `NbfiRf`; its base station sends as `NbfiTx` does |
| 4 | `NbfiRf`, `NbfiRfProofs` | transmission, receive window, the process task and when it is due, settings and sleep | packets are counted by kind; their order and ITERs are in `NbfiTx` |
| 5 | `NbfiConfig`, `NbfiConfigMC`, `NbfiConfigProofs` | rates, plan, search for the station, SYNC, saved settings | stands for the loss policies of `NbfiTx` and the flag `default` of `NbfiRf` |

Left for later: proofs of `NoOrphan` and `InOrder` with downlinks and sleep, of
`Covered` for groups that share a window and of `QuietHasRoom` for several
messages per ACK (7.5 says what each needs), and models of the two board
applications of section 9.

## 3. The uplink: modules and their correspondence to the code

**`NbfiTxBuffer`** holds the packet ring as a value and the operators of
`transport_misc.c` on it. `ring.pkt` is `nbfi_TX_pktBuf` together with
`idle_pkt`, `ring.head` is `nbfi_TXbuf_head`. A scan that in C starts at head
and stops at the first hit is `Oldest(head, S)`; one that runs backward is
`Newest`. Searches of the code that change packets while they search
(`NBFi_GetQueuedTXPkt` and `NBFi_Packets_To_Send` turn a stale `WAIT_ACK`
packet into a retransmission) are pairs: the pure answer (`Queued`,
`FreeSlots`) and the ring afterwards (`Sweep`, `CountSweep`).

**`NbfiTx`** is the state machine. Each handler is one action:

| Action | Code |
|---|---|
| `Send5` | `NBFi_Send5`, with the free-slot check, cutting into packets, ACK turn and window |
| `SendNext`, `ArmTimer`, `ProcessOff` | the branches of `NBFi_ProcessTasks` and `NBFi_Force_process` |
| `TxFinished` | `NBFi_TX_Finished` |
| `ReceiveTimeout` | `NBFi_Receive_Timeout_cb` with `NBFi_Close_Active_Packet` and the fall-back of settings |
| `RxAck`, `RxSystem`, `RxMessage` | `NBFi_ParseReceivedPacket` by kind of frame, `NBFi_Resend_Pkt` |
| `WaitExtraTimeout`, `WaitClearTimeout` | `NBFi_Wait_Extra_Handler`, `NBFi_Wait_Clear_cb` |
| `HeartBeat` | `NBFi_SendHeartBeats`, `NBFi_SendHB` |
| `ReportStatus` | the status part of `NBFI_Main_Level_Loop` |
| `GoToSleep`, `WakeUp` | `NBFi_go_to_Sleep` |

The base station is external: its memory of ITERs and its answer
(`StationHears`) follow the device's own code for the other direction
(`NBFi_Get_RX_ACK_Mask`) and what `NBFi_Resend_Pkt` expects. It keeps one
reply; a reply may arrive arbitrarily late, or never, because `RxAck` is not
fair, and each frame of the device may be lost (`Air`). The walk of
`NBFi_Resend_Pkt` over the mask is described by the set of steps it reaches
(`Walked`) and by where it ends (`Stops`) instead of a loop.

History variables: `frags`, `confirm`, `heard`, `told`, the counter `sent` of
a packet. No guard reads them.

**`UlService`** is the promise to the application: a message gets at most one
verdict, DELIVERED for a message with a handshake only when the base station
has all of it, LOST only for a message with a handshake.

### 3.1 What is abstracted

* Payloads are gone; of the header the model keeps kind, ITER, ACK and MULTI.
  The flag 0x80 of `mack_num` is dropped. Fields of a FREE packet are those of
  `FreePkt`, and the ITER of the stack's own answers is 0: nothing reads them.
* A handler is one action: main-loop calls hold the lock, callbacks do not
  preempt. The exceptions (the configuration change at `transport.c:130`, the
  status read at `transport.c:268`, the non-nesting lock) are hazards without a
  property.
* ACKs and system frames of the base station have no MULTI bit: the wait for
  extra packets that a frame with MULTI and without ACK starts
  (`transport.c:577-588`) is in `RxMessage`, where frames of groups come in, and
  not in `RxAck` and `RxSystem`. `NbfiRf` starts it for any frame.
* The station answers heartbeats and system packets with ACK_ON_SYS. The device
  side takes a SYSTEM_PACKET_ACK for a packet without a window as well
  (`TakeAck`, `Selection`).
* `rf_busy` is 0 between handlers and the MAC call succeeds.
* The end of a transmission is noticed by polling, so frames may be parsed
  before `TxFinished`.
* Configuration flags: `NBFI_FLG_FIXED_BAUD_RATE` set (no rate-change
  packets), `NBFI_FLG_SEND_IN_RESPONSE` and `NBFI_FLG_RESET_TO_LOWEST_RATES`
  clear, no ALOHA, no blocking transmission, not the malloc build.
* What a lost packet does to the settings is a constant `LossPolicies`:
  nothing ("keep"), a return to defaults in use anyway ("sync"), a changed
  setting that queues the packet again ("requeue").
* `GoToSleep` and `WakeUp` stand for calls of `NBFi_go_to_Sleep` that change
  the mode. A message refused for its length changes nothing and is left out.

## 4. Crypto: module and its correspondence to the code

`NbfiCrypto` follows an iterator of 20 bits through `crypto.c`: the low part
travels in the frame, the high part numbers an epoch, and each epoch has a key
meshed from the one before. A key is the record of how it was made (root, first
byte, number of meshings), so two keys are equal when they were made alike.

| Action | Code |
|---|---|
| `RxFrame`, `RxPeer` | `NBFi_MAC_RX_ProtocolD` up to `NBFI_Crypto_mic_check`: window of the current epoch, then a scan of `ScanDepth` epochs ahead |
| `RxDone` | the rest: `NBFi_MAC_Set_Iterator` stores the iterators, the transport gets the frame |
| `SendE`, `TxDone` | `NBFi_MAC_TX_ProtocolE`, encrypted or not; with ALOHA it calls itself once; the iterator is stored after the transmission |
| `SendD` | `NBFi_MAC_TX_ProtocolD` on the short-range link; nothing is stored |
| `SwitchTo`, `SwitchFrom` | `NBFi_switch_to_custom_settings`, `NBFi_save_restore_protocol_context`, `NBFi_Crypto_Save_Restore_All_KEYs` |
| `Reset` | power loss at any point, then `NBFI_Init`: iterators from storage, keys from `NBFi_Crypto_Set_KEY` |
| `StationSends` | external: the base station's next downlink frame |

Handlers are split exactly where they touch storage or the air, because a reset
may fall there; nothing else runs in between (`step`).

Abstractions: a MIC matches exactly when the key does. A frame of the main link
is its number in the order of sending; the air may lose it, repeat it, or hold
it for `MaxDelay` frames. Payloads, packet kinds and protocol D on the default
channels (which uses no iterator) are gone. Storage is what the comments of the
board ports say it is: it keeps the last value written. How the base station
follows a device that restarted (SYNC) is not in the repository.

## 5. Downlink, radio, configuration: modules and their correspondence to the code

### 5.1 `NbfiRx` and `DlService`

The receive ring has one slot per ITER; `buf` is `nbfi_RX_pktBuf`, `queue` and
`head` are `NBFi_received_DL_Buf` and `nbfi_receive_buf_head`.

| Action | Code |
|---|---|
| `Transmits` (with `Receive`) | the base station sends the next frame of its window and it is lost or reaches the message branch of `NBFi_ParseReceivedPacket`: `NBFi_Check_RX_Packet_Duplicate`, `NBFi_AllocateRxPkt`, `NBFi_ProcessRxPackets` (`Drain`) with `NBFi_Get_QueuedRXPkt`, the CRC of a group and `NBFi_Queue_Next_DL`, then the ACK with `NBFi_Get_RX_ACK_Mask` |
| `SendAck` | the queued ACK goes out; heard by the station (`Confirm`) or lost |
| `SendClear` | the station's CLEAR: `NBFi_Clear_RX_Buffer` |
| `AppRead` | `NBFi_Next_Ready_DL` in the main loop |
| `TenMinutes` | the age at which a new group clears old slots (`transport.c:488`) |
| `Offers`, `Timeout` | external: the base station, which sends as the device does (`NBFi_Send5`, `NBFi_Resend_Pkt`, the ACK timeout) |

Abstractions: a payload is the number of its message and part; the CRC8 of a
group is taken to tell any mix of packets from a message (`BadCrc`; the code has
only 8 bits for it), which `ServiceSpec` rests on and
`NoMixInLap` does not; an ACK that finds no slot is an ACK that is lost;
the clock is "young or old". History variables `log`, `read`, `confirmed`,
`sinceClear` are read by no guard of the device.

`DlService` is the promise: the application reads an increasing selection of
what the base station offered. `NbfiRx` implements it with `mack_mode` 1.

### 5.2 `NbfiRf`

When the radio sends, listens and is off. `radio.state` is `rf_state`,
`radio.transmit` is `transmit`, `radio.hw` is what the hardware does; packets
are counted by kind.

| Action | Code |
|---|---|
| `ProcessOff`, `ProcessWait`, `ProcessSend`, `ProcessRest`, `ProcessBusy` | the ways through `NBFi_ProcessTasks`, each with the end of the function (`Again`): applied settings, `NBFi_RX_Controller`, whether the task is scheduled again |
| `TxDone`, `TxSilent` | `NBFi_RF_TX_Finished` with `NBFi_TX_Finished`; a radio that ends and does not report |
| `RxEnd`, `WaitClearEnds`, `WaitExtraEnds`, `ReceiveTimeout` | the callbacks of the four timers |
| `HearAck` | an ACK: all confirmed (`Confirmed`), some packets missing (`InPart`), a fragment given up (`GivenUp`), as `NBFi_Resend_Pkt` decides |
| `HearData`, `HearOther`, `HearConfig` | the other branches of `NBFi_ParseReceivedPacket` |
| `SendPacket`, `SetSettings`, `AtWrite`, `SaveSettings`, `Sleep`, `Wake` | `NBFi_Send5` and heartbeats, `NBFi_set_Settings`, the parser called by the AT server, the saving in `NBFI_Main_Level_Loop`, `NBFi_go_to_Sleep` |

Abstractions: which packet of a kind goes next, ITERs and verdicts (`NbfiTx`);
how an ACK divides the packets of a window is a free choice within what the
window may hold; the ring does not wrap; rates do not change (`NbfiConfig`).
`NBFI_FLG_SEND_IN_RESPONSE`, ALOHA, blocking transmission, custom settings and
`NBFI_UL_FLAG_NO_RETRIES` are off. The frequency and the antenna are gone.

### 5.3 `NbfiConfig`

Rates and plan of the device (`cfg`, `idx`), the settings to return to (`prev`),
those in flash, and the search (`tryCounter`, `tryPeriod`, `lowest`).

| Action | Code |
|---|---|
| `Submit`, `Transmit`, `Timeout` | `NBFi_Send5` leaving the lowest rates; `NBFi_ProcessTasks` with `NBFI_Config_Check_State` (`Checked`, `RateChange`, `Raised`); the fall back of `NBFi_Receive_Timeout_cb` (`FallBack`: `NBFi_Config_Set_Default`, `Try_Alternative`, `set_lowest_rates`) or `NBFi_Config_Return` |
| `Acked`, `AckedInPart`, `Heard`, `HeardMessage` | the branches of `NBFi_ParseReceivedPacket`, with the station's info, and the fall back inside `NBFi_Resend_Pkt` |
| `Write`, `WriteAndSave`, `Factory`, `SetSettings`, `Save`, `Reset` | `NBFi_Config_Parser`, `NBFi_set_Settings`, the saving in the main loop, `NBFI_Init` |

The base station is a triple `home` of rates and plan. It hears the device when
the device is there, and may (never must) follow a SYNC. Abstractions: SNR is
"high or not"; retries are over when a packet times out; `room` says whether
the ring has a slot for a SYNC; a channel in no table is `Foreign`, index 4,
and what lies behind the table of four is any channel.

## 6. Runs

The `NbfiTx` runs use `NbfiTxMC`. Unless the table says otherwise: ring of 5 slots
(`NBFi_Send5` wants `mack_mode + 3` free ones), one ACK per message, one
retry, one-packet messages, mode CRX with handshake, no CLEAR/SYNC at start,
settings kept after a loss, no downlink frame, no heartbeat, no sleep.
Deadlock is not checked: the bounds on messages, calls and frames make every
run stop.

| Run | Size | What it shows |
|---|---|---|
| `NbfiTxSingle` | 3 messages, one downlink frame | `TypeOK`; verdicts are true (`DeliveredIsComplete`), in order (`InOrder`), after which nothing is left to send (`SendComplete`), never before all tries (`LostAfterAllTries`); no message is forgotten as long as no more than the one downlink frame interferes (`NoOrphan`; a second one loses it, 8.2 (2)); the transport implements `UlService` (`ServiceSpec`), so a verdict is given once |
| `NbfiTxRetries` | 2 messages, 2 retries, 1 heartbeat, messages with and without handshake, CLEAR/SYNC packets, one sleep and wake-up at any point | no packet is sent more often than the limit (`TriesBounded`), none that asks for no ACK is given up (`UnconfirmedNeverLost`), and dropping the queue for sleep never makes a verdict double (`ToldOnce`) |
| `NbfiTxGroup` | 2 messages, single or a group, `mack_mode` 2, ring of 7 that wraps | the ACK walk marks exactly what was heard (`AckedIsHeard`); every packet sent without an ACK request is in the window of one that asks, or of the next that will (`Covered`); the ring never clogs (`QuietHasRoom`) |
| `NbfiTxNrx` | 4 messages, mode NRX, all flags | without a receiver messages are decided in order, when sent |
| `NbfiTxLive` | 2 messages, one downlink frame, `FairSpec` | every message gets a verdict |
| `NbfiCryptoReset` | 2 x 3 iterators, ALOHA, 6 uplink and 8 downlink frames, one reset | `TypeOK`; keys belong to iterators (`KeysFollow`); every frame in the scan window is accepted with the iterator it was sent with, also across the end of the 20 bits (`WindowAccepted`); no frame is handed over twice (`HandedOnce`); a reset costs only the iterators of the call it cuts (`ReuseBounded`) |
| `NbfiCryptoLinks` | 2 x 3 iterators, client of a short-range link, two stays | keys and iterators of the main link come back as they were left, whatever was received meanwhile |
| `NbfiRx` | 4 ITERs, queue of 2, 3 messages of a SHORT, one, two or three packets, one retry, one lapse of ten minutes | within a lap of ITERs since the last CLEAR a group is only completed with packets of its own message, with or without a CRC (`NoMixInLap`); messages are handed up once (`HandedOnce`), what the station takes as confirmed was handed up (`ConfirmedIsHanded`), a late reader still finds the newest (`NewestKept`); it implements `DlService` |
| `NbfiRf` | start in DRX, 2 packets of a kind, one retry, 2 calls, one frame, `FairSpec` | the processor never stops with the radio on (`SleepIsSafe`); the process task is never forgotten (`NotForgotten`); DRX listens when it must (`Listens`) and no longer (`ReceiverRests`); a transmission is cut by settings, sleep or time-out only (`CutOnlyBySettings`); everything queued is sent or dropped (`Settles`) |
| `NbfiConfig` | 2 rates, 2 plans, 2 alternatives (intervals 1 and 2), rates raised or messages heard twice, one write or reset, `FairSpec` | a rate that is tried is told, with a way back (`RaisedIsTold`); a device that lost its station meets it again and again (`Reunites`) |
| `NbfiTxGroupLost`, `NbfiRxTwice` | see 8.1 | disagreements between code and comments |

**Why the bounds are enough.** *Uplink.* ITERs and ids are used without
aliasing: a run sends fewer packets than `IterMod` inside any window, and fewer
messages than `IdMod`; what happens with aliases is a hazard noted without a
property. Three messages give one decided, one waiting and one queued, hence
every pair of neighbours in the order of sending; one retry separates the
first, a middle and the last transmission; five slots wrap with three messages
and their CLEAR packets. One downlink frame reaches every way of dropping or
delaying the active packet. `MaxSent` caps the history counter `sent`, one
above the limit so that exceeding it is visible. `told` keeps two verdicts,
enough to see a second one. No passing run uses the loss policy "requeue":
under it `ToldOnce` and `SendComplete` fail because the code queues a packet
again after its verdict (`transport.c:922`); the proofs include it.

*Crypto.* 2 low values and 3 epochs are the least at which a low part can be
older, an epoch can be skipped, and an epoch lies outside the scan; six uplink
frames and eight downlink frames carry both iterators past the end. `MaxUl`
stops the uplink at the end: after it the chain starts from byte FF, while a
reset goes back to the chain from 00, so the same keys and iterators would come
again (a hazard; 2^20 frames). `MaxDelay` must be shorter than the
`Epochs - ScanDepth` epochs it takes the numbering to come round; in the code
these are 4086 epochs of 256 frames. `HandedOnce` leaves iterator 0 out,
because the check lets it in as long as the stored iterator is 0. Resets are
off on the short-range link: there 8.2 (3) is what they show.

*Downlink.* Four slots hold a group of three and one packet of its predecessor,
and three messages go once round the ring, so slots of an earlier lap are met.
A queue of two is overwritten by three messages. `ConfirmedIsHanded` is stated
up to one lap since the last CLEAR; beyond it the code breaks it (8.2).
No window of the station outlasts ten minutes.

*Radio.* Two packets of a kind, so that one waits while another is sent; one
retry; `TxMax` 1 lets a transmission be within and over its time. Two calls
give every pair of settings, AT commands, sleep, wake-up and packets. Larger
instances were checked once with no error: 2 calls with 2 frames (1.3 million
states) and 3 calls with one frame (1.2 million).

*Configuration.* Two rates have a first and a last; two alternatives with
different intervals make one that is always due and one that takes turns;
`PeriodMod` 2 makes `try_period` wrap. `MaxHigh` also bounds received messages:
see 8.2 for what a station that never stops sending them would do.

**Fairness.** `NbfiTx`: weak fairness of `SendNext` and `ArmTimer`
(`NBFi_ProcessTasks` reschedules itself after at most 50 ms in CRX,
`transport.c:794-800`), of `TxFinished` (the process task ends a transmission
that exceeds `TX_MAX_TIME` if the radio does not) and of the three timers (the
scheduler runs what is due). `NbfiRf` asks less: the process task, when it is
scheduled, and the four timers; `TxDone` is not fair, so there the radio may
never report. `NbfiConfig` asks that the application keeps sending and that what
it sends is transmitted and answered or timed out (`WF_vars(Packets)`; the
other two models are the reason it may). Nothing is asked of the air, the base
station, or the heartbeats.

## 7. Proofs

All are safety properties of the specifications, for every value of the
constants the named ASSUMEs allow. Where a theorem needs more it says so as a
hypothesis on the constants, and the text below says what the code does beyond
it. `NbfiLemmas` holds what several of the proofs share: least and greatest
elements of sets of numbers, and arithmetic of remainders.

### 7.1 Uplink

`NbfiTxProofs`, for every ring size, number of ITERs, window, retry limit,
message mix, flag set, mode and loss policy:

* `TypeCorrect == Spec => []TypeOK`. Inductive as it stands. The work is in
  the scans (they yield a slot of the ring or `None`), in ITER arithmetic
  staying in its field, and in the ACK walk, which only touches cells.
* `OnlyConfirmedLost`: if `MaxMsgs < IdMod` then
  `Spec => []UnconfirmedNeverLost`. The assumption says that message ids fit
  the 8 bits `packet->id` keeps; with aliases the statement is false, as a
  verdict may hit another message's entry.

`UnconfirmedNeverLost` is not inductive: LOST is stored under the id of a
packet, so one must know whose packets can reach the code that gives packets
up. `OwnerInv` adds `RingOwned`: a packet that is waited for, was sent
unacknowledged, is queued again, or has been given up or acknowledged belongs
to a message with a handshake, or to the stack itself (id 0); and the state
saved while the active packet waits for extra packets is read the same way.
The lemmas show that nearly every ring operator is *calm*: it replaces a
packet by one of the stack's own, or changes it without taking it into those
states. One lemma then carries `RingOwned` through all of them; the rest
(transmission, the restored state, a new active packet, new messages, the ACK
walk) have lemmas of their own. `SetStatus` with an id below `IdMod` touches
that message only, which closes the argument.

`NbfiTxSafety` proves the rest, in parts, each with its own invariant:

| Theorem | Property | Hypothesis | Invariant |
|---|---|---|---|
| `LostOnlyWhenTried` | `LostAfterAllTries` | ids fit 8 bits | `TriedInv` |
| `OneVerdict`, `CompleteIsComplete` | `ToldOnce`, `SendComplete` | `Singles` | `LinedInv` |
| `DeliveredIsTrue`, `TxImplementsService` | `DeliveredIsComplete`, `ServiceSpec` | `OneLap` | `HeardInv` |
| `TriesLimited` | `TriesBounded` | `NoDownlinks` | `BoundedInv` |
| `MarkedIsHeard` | `AckedIsHeard` | `LapFits(F)` | `KnownInv(F)` |
| `OrderKept` | `InOrder` | `Singles` and `[]NoOrphan` | `OrderInv` |
| `NoneForgotten` | `NoOrphan` | `Undisturbed` | `CarryInv` |
| `OrderAlwaysKept` | `InOrder` | `Undisturbed` | the two above |

* **`Singles`**: `mack_mode` 1, one-packet messages, no policy "requeue", ids
  that fit. Beyond it the properties fail: a group may be told LOST and then
  DELIVERED (8.1), a packet queued again after its verdict gives another one
  (8.2). `LinedInv` says that the packets of messages stand in line: a packet
  that was given to the radio is never younger than one that waits for its turn
  or its ACK, and one that waits has a message without a verdict. So the
  backward search of `NBFi_Resend_Pkt` for the ITER of an ACK finds the active
  packet, whatever older packets with the same ITER are left in the ring.
* **`OneLap`**: `Singles`, mode CRX, no `SEND_WITH_SAME_TX_ITER`, and messages
  and heartbeats within one lap of ITER. An ACK names five bits and may be
  late; beyond a lap it is ambiguous and nothing in the code tells the laps
  apart. `HeardInv` ties each packet to the ITER of its message and each ACK
  under way to a message the station has. `TxImplementsService` is the
  refinement, handler by handler: each is an arrival, an acceptance, one
  verdict, or a stutter of `UlService`.
* **`NoDownlinks`**: no downlink message and no "requeue". A downlink message
  takes the active packet away and the search sends it again without counting
  the try; that the code has no limit there is a hazard of `PROJECT.json`.
  Groups, windows, heartbeats and sleep are included. `BoundedInv` shows that
  the searches never meet a packet that waits, as only the active one does.
* **`LapFits(F)`**: messages of at most `F` packets, the ITERs of all of them
  within a lap, windows that fit the six bits kept of them. The window may span
  messages and its packets be resent. `KnownInv(F)`: the ITERs under way to the
  device are those of packets the station heard, no two messages share one, and
  an ACK of a heartbeat, whose ITER no message has, never meets a message's
  packet, since that always asks for at least one packet.
* **`Undisturbed`**: `Singles`, no downlink, no sleep, and no more messages than
  the status ring holds, as the verdict of one that left it is lost
  (`transport_misc.c:740`). `CarryInv` counts the free slots between head and
  each packet that waits. `NBFi_Send5` asks for four; SYNC and CLEAR take a slot
  without asking, but a verdict frees the slot of the oldest packet first, and
  the one heartbeat that may be queued goes on the air after every older
  message. With downlinks the statement is not provable in this form: see 8.2 (2).

`NbfiTxWindows` proves what keeps the windows of the ACKs closed:

| Theorem | Property | Hypothesis | Invariant |
|---|---|---|---|
| `WindowsCover` | `Covered` | `Windowed` | `WindowInv` |
| `QuietLeavesRoom` | `QuietHasRoom` | `Windowed` and `Mack = 1` | `WindowInv` |

* **`Windowed`**: mode CRX, `NoDownlinks`, no ITER used twice on purpose
  (`SEND_WITH_SAME_TX_ITER`), `IterMod` at most 64 so that a window fits the six
  bits an ACK keeps of it, and no message of more fragments than there are ITERs.
  Then either `mack_mode` 1, with groups, heartbeats, sleep and messages without
  handshake in any mix; or any `mack_mode` whose messages are single packets with
  handshake, without heartbeats. Laps of ITER, messages, retries and losses are
  not bounded. What the rest of the hypothesis excludes is false: 8.2 (1), (16), (17).
* **The numbering.** `Covered` compares ITERs, which come round again, so it does
  not say which packet is older than which. The invariant says that *some*
  numbering `f` of the packets and a next number `n` fit the device: each ITER is
  its number modulo `IterMod`, and the order of the numbers is that of the slots
  behind the head (`Windows`). Every packet sent without an ACK request lies
  inside the window of one that still asks, or in the tail of `notAcked` numbers
  below `n`, which the next message will cover (`Reached`). The device keeps no
  such number, so each lemma about a step hands over the old numbering or extends
  it by the packets `NBFi_Send5` has just queued (`Send5Windows`).
* **The walk over an ACK.** `NBFi_Resend_Pkt` narrows windows and resends what the
  mask misses; whatever it leaves SENT_NOACKED must lie in the window of a packet
  it leaves asking. For this no packet in a window may ask itself (`Alone`), none
  may be missing while an older one is left (`Whole`), what is newer than the packet
  that waits has not been sent, or is settled (`Younger`), and a round of
  retransmissions ends with the packet that asks (`OneRound`).
* **`Heeded`, `Hushed`.** With `mack_mode` 1 the slots behind the head may be SENT_NOACKED
  although `NBFi_Send5` counts them (`transport_misc.c:279`) only while a packet is
  active; so a group under way keeps the stack's own packets out until its last
  packet waits. With the device OFF nothing is active, and nothing may be left
  SENT_NOACKED: `NBFi_Clear_TX_Buffer` has freed it.
* `QuietHasRoom` follows: with nothing queued and nothing waited for no packet asks,
  and with `mack_mode` 1 the tail is empty, so no packet is SENT_NOACKED and the slot
  at head is free.

### 7.2 Crypto

`NbfiCryptoSafety` proves `CryptoTypeCorrect` (`TypeOK`) and
`KeysBelongToIterators` (`KeysFollow`) for every number of epochs and low
values and every scan depth below the number of epochs. `CryptoInv` is
`TypeOK`, `KeysFollow`, and the fact that both epochs are 0 on the short-range
link; without it `KeysFollow` is not inductive, as the short-range branches set
the epoch to 0 and leave the key alone. The core is `OneHit`: two epochs less
than `Epochs` apart have different keys, so the scan has one answer and
`Ahead` and `KeyAhead` move iterator and key together, also when the chain
starts again.

It then proves what the iterators are for:

* `WindowStaysOpen` (`WindowAccepted`): `DownlinkInv` ties the downlink iterator
  of the main link, wherever it is kept (RAM, saved context, flash), to the
  newest frame accepted.
* `FramesHandedOnce` (`HandedOnce`): the invariant adds that the newest frame in
  RAM is not older than the one in flash, and that what was handed over is not
  newer than that. `DelayFits` says no frame is so late that its epoch number
  comes round again inside the scan.
* `ResetCostsLittle` (`ReuseBounded`): the iterators used lie below a top, and
  what flash holds is behind it by no more than the calls that have not saved
  theirs. `UplinkFits` keeps to one round of the 20 bits, after which a reset
  does go back (`crypto.c:126`, a hazard).

These three take `StorageIsMain`: a device that is reset or one that visits the
short-range link, but not both; with both, flash may hold the other link's
iterators (8.2 (3)).

### 7.3 Downlink

`NbfiRxProofs`, for every ring, queue, window and mix of messages:

* `RxTypeCorrect` (`TypeOK`), from `RxInv`: a slot that was written holds a
  well-formed packet of an offered message under its own ITER, and
  `NBFi_ProcessRxPackets` leaves nothing complete behind. The hand-over loop is
  a recursive function; the lemmas unfold it one turn at a time and use that
  at most one packet is new when it starts, so it hands up at most one payload.
* `LateReaderFinds` (`NewestKept`), from `QueueInv`: the queue holds what was
  last put into it, in order, and what was read lies before.
* `HandsOnce` (`HandedOnce`) with `mack_mode` 1, from `OnceInv`: a packet that
  is sent again after its message was handed up is the one received last, which
  is the only one the check for duplicates compares with. With `mack_mode` 2 it
  is false (8.1).
* `ConfirmedTruly` (`ConfirmedIsHanded`) with `mack_mode` 1 and either kind of
  group start, from `ConfirmInv`. Within one lap since the last CLEAR the ITERs
  not used yet are in no ACK mask, no queued ACK names them, and no older group
  reaches into them or into the window (`UnusedInv`, `GroupsApart`). So a slot
  of the window that counts in the mask, or that a queued ACK names, holds the
  window's packet, and that packet waits, not old, until the message is handed
  up (`KeptInv`): a start packet clears only what is old. When nothing is
  missing in a mask, and the packets after its ITER were sent before, the
  message is complete; as `RxInv` leaves nothing complete behind, it was handed
  up. After the lap, or when ten minutes pass inside a window, which the model
  leaves out, the code breaks it (8.2 (5)).
* `GroupsApartInLap` (`NoMixInLap`) with `mack_mode` 1 and either kind of group
  start, from the same invariant: what a reception completes within the lap is
  the message in the window, since `GroupsApart` keeps older groups out of it and
  `KeptInv` says that no slot of it counts with a packet of another message. It
  does not use the CRC. After the lap a group may be completed with packets of
  the lap before, and only the CRC8 of GROUP_START tells; GROUP_START_OLD has
  none (8.2 (6)).
* `ImplementsService`: with `mack_mode` 1 and start packets with a CRC, `NbfiRx`
  implements `DlService`. Here the CRC8 is taken to tell every mix of packets, as
  the model does (`CrcTellsMixes`); laps are not bounded.

### 7.4 Radio and configuration

`NbfiRfProofs` proves `RfTypeCorrect`, `RfSleepIsSafe`, `RfNotForgotten`,
`RfListens` and `RfCutOnlyBySettings` for every mode at start, flag, retry
limit and ring size. `RfInv` adds to `TypeOK` and `NotForgotten` that

* `rf_state` agrees with the hardware (`RadioOK`): OFF means off and nothing
  being sent, RX means receiving;
* a packet that awaits its ACK has the ACK flag, also while it is set aside for
  extra packets (`AckOK`): else its transmission would go on to the next packet
  instead of listening, and `Listens` would fail;
* no end of a DRX window is pending while the radio sends: its handler calls
  `NBFi_RX_Controller`, which would cut the transmission.

The three together are inductive, and each is needed: the settings calls leave
`rf_state` at CHANGED, from where only the scheduled process task brings the
radio back, so `NotForgotten` and `RadioOK` rest on each other.

`NbfiConfigProofs` proves `ConfigTypeCorrect` and `ConfigRaisedIsTold` for every
number of rates, set of plans, list of alternatives, settings and answers of
the station. The functions of `config.c` become lemmas on the record they change
(`SetDefaultRates`, `ReturnRates`, `RaisedTells`, ...); what a table gives
beyond its last index is any channel, and the theorems hold all the same.

### 7.5 Only model-checked

* `NoOrphan` and `InOrder` with downlinks and sleep: a downlink sets the active
  packet aside, in a slot that may be taken (8.2 (2)), and sleep drops packets;
  an invariant would have to say for which orders of frames that stays harmless.
* `Covered` beyond `Windowed`, and `QuietHasRoom` with `mack_mode` 2 and more: false
  for some settings (8.2 (1), (16), (17)), true for the groups of run
  `NbfiTxGroup`, whose ring is too small for 8.2 (16). `NbfiTxGroup` (groups with
  `mack_mode` 2) and the theorems (groups with `mack_mode` 1, single packets with
  any) complement each other. For `QuietHasRoom` with a larger `mack_mode` one
  would have to show that a tail shorter than the window never fills the ring.
* `ConfirmedIsHanded` and `NoMixInLap` with other `mack_mode`s, where windows hold several messages.
* `ReceiverRests`, `Settles`, `Reunites`, `EventuallyDecided`: liveness; fairness
  and ENABLED are outside what the prover does.
* Groups for `ToldOnce` and `SendComplete`, modes NRX and DRX for
  `DeliveredIsComplete`: beyond the hypotheses above, in the runs of section 6
  only where these say so.

## 8. Findings

### 8.1 With a run

Each is a run in which TLC finds a behaviour of the code that contradicts a
comment of the repository; `PROJECT.json` quotes the lines.

1. `NbfiTxGroupLost`: a group one fragment of which ran out of retries is
   reported LOST and at once overwritten with DELIVERED.
2. `NbfiRxTwice`: with `mack_mode` 2 a SHORT message that was received is
   missing from the ACK mask, is repeated and handed up twice.

### 8.2 Met while modelling

They explain what the instances and properties above leave out.

Uplink and crypto:

1. With `mack_mode` 2, a message sent with `NBFI_UL_FLAG_NOACK` between two
   others pushes the first out of every ACK window; its slot stays busy and the
   ring is "full" while idle.
2. The CLEAR command may take the slot of the packet just confirmed before its
   id is read (`transport_misc.c:681`); the message gets no verdict. It takes two
   downlink frames that are answered: with `MaxDl = 2` TLC finds `NoOrphan`
   violated in the instance of run `NbfiTxSingle` (two messages, ACK of the
   first). With one frame the run finds no error, without any `NoneForgotten`
   rules it out.
3. A frame received on the short-range link stores that link's iterators over
   those of the main link (`mac.c:19`); a reset after the return and before the
   next packet resumes the main link with them.
4. Without a receiver a group is reported DELIVERED after its first fragment
   (`transport.c:767`); a message reported LOST is queued again when the
   settings change (`transport.c:922`).

Downlink:

5. After more than a lap of ITERs without a CLEAR, and when ten minutes pass
   inside a window (`transport.c:488`), the ACK mask answers for packets that
   were never handed up.
6. A group begun with `GROUP_START_OLD` has no CRC, so after a lap without a
   CLEAR mixed groups are handed up (within it `NoMixInLap` holds); `mack_mode` 2 does not keep
   the order of messages.

Radio and life cycle:

7. Settings saved in NRX or DRX at rest, with nothing to tell, leave `rf_state`
   at CHANGED with no task scheduled; `NBFi_can_sleep` says no until the next
   packet (`nbfi.c:240`).
8. Settings saved while the device sleeps put mode OFF into flash, so the next
   wake-up reads OFF (`nbfi.c:98`, `nbfi.c:117`).
9. A packet queued without the ACK flag in NRX and sent after a change to DRX
   or CRX stays SENT_NOACKED.
10. `rand() % heartbeat_interval` with an interval of 0 (`transport.c:1020`).

Configuration:

11. `NBFi_Config_Return` restores `nbfi_prev`, which a WRITE command or a second
    rate change before the confirmation overwrites (`config.c:515`).
12. Saving with rates that are not fixed leaves the board's plan in RAM and does
    not tell the station (`nbfi.c:90-97`).
13. `NBFi_set_Settings`, and switching FIXED_BAUD_RATE, leave the rate indices as
    they were; a channel in no table leaves index 4 for tables of 4.
14. An ACK in part that gives a fragment up sends the device to the first
    alternative although the station was just heard
    (`transport_misc.c:638-652`).
15. A station that keeps sending messages to a device it cannot hear keeps
    dropping the active packet, whose loss is then never counted
    (`transport_misc.c:110`).

Windows of several messages (the limits of `Windowed`; TLC finds each in an
instance of `NbfiTxMC`):

16. With `mack_mode` 2 the check for room in `NBFi_Send5` counts slots that are
    sent and not acknowledged as free, but `NBFi_AllocateTxPkt` does not take
    them: a group may be cut short midway. Its last packet, which carries the
    ACK request, is then missing and the others are in no window (`Covered`,
    depth 19), or a message is accepted and has no packet at all (`NoOrphan`,
    depth 18). Ring of 9, 6 ITERs, messages of 45 bytes.
17. With `mack_mode` 4 a heartbeat between two messages takes an ITER the window
    does not count: it is one too short for the oldest packet (`Covered`, depth
    10). Ring of 9, 8 ITERs, messages of 4 bytes, one heartbeat.

## 9. Not modelled

* **MAC framing** (`nbfi_mac.c`, `nbfi_crc.c`, `zcode.c`, `pcode.c`): bit packing,
  CRC, channel coding, carrier arithmetic on random
  numbers. Functions of their input without control state; the iterator they
  advance is in `NbfiCrypto`.
* **AT server**: text front end. Its commands call operations that are modelled.
* **Board ports**: register access. The scheduler and the lock appear as the
  atomicity and fairness assumptions of 1.2 and section 6.
* **Applications of the boards**: the UART ring of `xbuf.c` and the image copy of
  `update.c` are programs that use the stack and share no state with it; meter
  records (`WVT`) are storage formats.
* **Inside the stack**: `NBFI_FLG_SEND_IN_RESPONSE`, blocking and ALOHA
  transmissions of the transport, the malloc build, custom settings in
  `NbfiRf`, power steps, READ commands, builds without crypto, device
  information, `NBFi_is_Idle`.
* **Vendored code**: CMSIS, HAL and StdDriver make up nearly all of the lines in
  the tree (the stack itself is about one percent of them). They are
  third-party; the scheduler, the radio driver and the cipher are submodules
  whose directories are empty. This is why the share of mapped lines is small
  although nearly every function of `nbfi_transport*.c`, `nbfi_config.c`,
  `nbfi_crypto.c` and `nbfi.c` that changes state has a definition here.

## 10. Running

    tlc -workers 2 -config NbfiTxSingle.cfg NbfiTxMC
    tlc -workers 2 -config NbfiCryptoReset.cfg NbfiCrypto
    tlc -workers 2 -config NbfiRx.cfg NbfiRx
    tlc -workers 2 -config NbfiRf.cfg NbfiRf
    tlc -workers 2 -config NbfiConfig.cfg NbfiConfigMC
    tlapm NbfiTxProofs.tla          (and the other *Proofs and *Safety modules, NbfiTxWindows)

Each run ends within two or three minutes. `NbfiTxSafety` and `NbfiTxWindows` take
some ten to twenty minutes to prove, each of the others a few.
