----------------------------- MODULE NbfiCrypto -----------------------------
(***************************************************************************)
(* Crypto iterators and key chains of an NB-Fi device (nbfi_crypto.c, and  *)
(* the code of nbfi_mac.c and nbfi.c that moves, saves and swaps them).    *)
(*                                                                         *)
(* An iterator has 20 bits: the low 8 travel with every frame, the high 12 *)
(* number the epoch, and each epoch has a key of its own, made from the    *)
(* one before.  The receiver learns the epoch by trying keys.  Iterators   *)
(* go to retained storage; keys are computed from them after a reset.      *)
(*                                                                         *)
(* The main link uses protocol E upward and D downward; the short-range    *)
(* link, entered with NBFi_switch_to_custom_settings, uses protocol D and  *)
(* NBFI_FLG_SHORT_RANGE_CRYPTO both ways.  A reset may fall between any    *)
(* two writes a handler makes, so handlers are split where storage or the  *)
(* air is touched.                                                         *)
(***************************************************************************)
EXTENDS Integers, FiniteSets

CONSTANTS
    LowMod,         \* values of the low part, 256 in the code
    Epochs,         \* 1 << (CRYPTO_ITER_SIZE - 8), 4096
    ScanDepth,      \* KEY_SCAN_DEPTH, 10
    ShortRoot,      \* key of the short-range link: "own" as server, "peer" as client
    Aloha,          \* NBFI_FLG_SEND_ALOHA
    MaxUl,          \* bound: uplink frames
    MaxFrames,      \* bound: downlink frames of the base station
    MaxDelay,       \* bound: how many frames late a frame may still arrive
    MaxResets,      \* bound: resets
    MaxSwitches     \* bound: changes to the short-range link

ASSUME SizeAssumption  == /\ LowMod \in Nat \ {0}
                          /\ Epochs \in Nat \ {0}
                          /\ ScanDepth \in 0 .. Epochs - 1
ASSUME LinkAssumption  == ShortRoot \in {"own", "peer"} /\ Aloha \in BOOLEAN
ASSUME CountAssumption == /\ MaxUl \in Nat /\ MaxFrames \in Nat /\ MaxDelay \in Nat
                          /\ MaxResets \in Nat /\ MaxSwitches \in Nat

Lows      == 0 .. LowMod - 1
EpochNums == 0 .. Epochs - 1
Iter      == [hi : EpochNums, lo : Lows]
ZeroIter  == [hi |-> 0, lo |-> 0]
NoFrame   == -1

\* A master key: the byte the root was meshed with first, and how often the
\* result was meshed with 0x0F.  MIC and work keys are made from it.
Key == [root : {"own", "peer"}, start : {"00", "FF"}, n : EpochNums]

VARIABLES
    link,           \* "main" or "short": switched_to_custom_settings
    key,            \* key_ul_*_ctx and key_dl_*_ctx
    iter,           \* nbfi_iter
    ctx,            \* what NBFi_save_restore_protocol_context keeps
    stored,         \* iterators in retained storage
    step,           \* where a handler stands
    parity,         \* parity of NBFi_MAC_TX_ProtocolE
    pending,        \* frame accepted and not yet handed to the transport
    sent,           \* base station: downlink frames sent so far
    last,           \* history: newest frame accepted, as known to RAM, storage, ctx
    handed,         \* history: times a frame was handed to the transport
    used,           \* history: <<key, iterator>> of uplink frames, main link
    reused,         \* history: uplink frames with an iterator used before
    wrapped,        \* history: the uplink iterator passed 2^20 since the reset
    ulLeft, resets, switches

histVars  == <<last, handed, used, reused, wrapped>>
boundVars == <<ulLeft, resets, switches>>
vars      == <<link, key, iter, ctx, stored, step, parity, pending, sent,
               histVars, boundVars>>

-----------------------------------------------------------------------------
(***************************************************************************)
(* Keys.                                                                   *)
(***************************************************************************)
Short == link = "short"             \* NBFI_FLG_SHORT_RANGE_CRYPTO
RootOf(l) == IF l = "short" THEN ShortRoot ELSE "own"

\* Mutant: the short-range link starts the downlink chain like the main link.
SetKey_SameStart(root, it, short) ==
    [ul |-> [root |-> root, start |-> "00", n |-> it.ul.hi],
     dl |-> [root |-> root, start |-> "FF", n |-> it.dl.hi]]

\* NBFi_Crypto_Set_KEY.
SetKey(root, it, short) ==
    [ul |-> [root |-> root, start |-> "00", n |-> it.ul.hi],
     dl |-> [root |-> root, start |-> IF short THEN "00" ELSE "FF", n |-> it.dl.hi]]

\* Mutant: the chain restarts one epoch late.
Ahead_Late(hi, j) == IF hi + j > Epochs THEN hi + j - Epochs ELSE hi + j

\* The epoch j after hi, and its downlink key: past the last epoch the chain
\* starts again from the root.
Ahead(hi, j) == IF hi + j >= Epochs THEN hi + j - Epochs ELSE hi + j

KeyAhead(k, hi, j) ==
    IF hi + j >= Epochs
    THEN [root |-> k.root, start |-> "FF", n |-> hi + j - Epochs]
    ELSE [k EXCEPT !.n = @ + j]

\* NBFI_Crypto_inc_iter: the next uplink iterator, its key, and whether it
\* started over.
Carries(it) == it.lo = LowMod - 1

IncIter(it) ==
    IF ~Carries(it) THEN [it EXCEPT !.lo = @ + 1, !.hi = IF Short THEN 0 ELSE @]
    ELSE [hi |-> IF Short THEN 0 ELSE Ahead(it.hi, 1), lo |-> 0]

Restarts(it) == Carries(it) /\ ~Short /\ it.hi = Epochs - 1

\* Mutant: the key is kept when a new epoch begins.
IncKey_Kept(k, it) == k

IncKey(k, it) ==
    IF Short \/ ~Carries(it) THEN k
    ELSE IF Restarts(it) THEN [root |-> k.root, start |-> "FF", n |-> 0]
    ELSE [k EXCEPT !.n = @ + 1]

-----------------------------------------------------------------------------
(***************************************************************************)
(* NBFI_Crypto_mic_check.  A frame shows its low part and the key its MIC  *)
(* was made with.                                                          *)
(***************************************************************************)
IterAt(n)  == [hi |-> (n \div LowMod) % Epochs, lo |-> n % LowMod]
FrameAt(n) == [key |-> [root |-> "own", start |-> "FF", n |-> IterAt(n).hi],
               lo  |-> IterAt(n).lo]
PeerFrame(lo) == [key |-> [root |-> ShortRoot, start |-> "00", n |-> 0], lo |-> lo]

\* Mutant: the low part just received is taken again.
Newer_OrSame(it, lo) == it = ZeroIter \/ it.lo <= lo

Newer(it, lo) == it = ZeroIter \/ it.lo < lo

InEpoch(f) == key.dl = f.key /\ (Short \/ Newer(iter.dl, f.lo))

\* Mutant: the scan starts two epochs ahead.
Hits_SkipNext(f) == {j \in 2 .. ScanDepth : KeyAhead(key.dl, iter.dl.hi, j) = f.key}

Hits(f) == {j \in 1 .. ScanDepth : KeyAhead(key.dl, iter.dl.hi, j) = f.key}

Accepts(f) == InEpoch(f) \/ (~Short /\ Hits(f) # {})

Jump(f) == IF InEpoch(f) THEN 0
           ELSE CHOOSE j \in Hits(f) : \A i \in Hits(f) : j <= i

\* The downlink iterator afterwards; the short-range branch sets it before
\* it looks at the MIC.
DlIter(f) ==
    IF Short THEN [hi |-> 0, lo |-> f.lo]
    ELSE IF Accepts(f) THEN [hi |-> Ahead(iter.dl.hi, Jump(f)), lo |-> f.lo]
    ELSE iter.dl

DlKey(f) == IF Accepts(f) /\ ~InEpoch(f) THEN KeyAhead(key.dl, iter.dl.hi, Jump(f))
            ELSE key.dl

-----------------------------------------------------------------------------
Init ==
    /\ link = "main"
    /\ iter = [ul |-> ZeroIter, dl |-> ZeroIter]
    /\ key = SetKey("own", iter, FALSE)
    /\ ctx = [key |-> key, iter |-> iter]
    /\ stored = iter
    /\ step = "idle"
    /\ parity = FALSE
    /\ pending = NoFrame
    /\ sent = 0
    /\ last = [ram |-> NoFrame, stored |-> NoFrame, ctx |-> NoFrame]
    /\ handed = [n \in 0 .. MaxFrames - 1 |-> 0]
    /\ used = {} /\ reused = 0 /\ wrapped = FALSE
    /\ ulLeft = MaxUl /\ resets = 0 /\ switches = 0

-----------------------------------------------------------------------------
\* The base station sends its next frame; the air loses, repeats and delays.
StationSends ==
    /\ sent < MaxFrames
    /\ sent' = sent + 1
    /\ UNCHANGED <<link, key, iter, ctx, stored, step, parity, pending,
                   histVars, boundVars>>

InAir == {n \in 0 .. MaxFrames - 1 : n < sent /\ n >= sent - MaxDelay}

\* NBFi_MAC_RX_ProtocolD up to the check; a frame that fails it is dropped.
Check(f, n) ==
    /\ step = "idle"
    /\ iter' = [iter EXCEPT !.dl = DlIter(f)]
    /\ key' = [key EXCEPT !.dl = DlKey(f)]
    /\ step' = IF Accepts(f) THEN "rx" ELSE "idle"
    /\ pending' = IF Accepts(f) THEN n ELSE NoFrame
    /\ last' = IF Accepts(f) /\ n # NoFrame THEN [last EXCEPT !.ram = n] ELSE last
    /\ UNCHANGED <<link, ctx, stored, parity, sent, handed, used, reused, wrapped,
                   boundVars>>

RxFrame == \E n \in InAir : Check(FrameAt(n), n)

\* A frame of the other end of the short-range link.
RxPeer == Short /\ \E lo \in Lows : Check(PeerFrame(lo), NoFrame)

\* Mutant: the frame is handed over and the iterator not saved.
SaveAfterRx_Never == UNCHANGED <<stored, last>>

\* NBFi_MAC_Set_Iterator.
SaveIter == stored' = iter /\ last' = [last EXCEPT !.stored = last.ram]

SaveAfterRx == SaveIter

\* The rest of it: the iterator is saved, then the frame is parsed.
RxDone ==
    /\ step = "rx"
    /\ step' = "idle"
    /\ pending' = NoFrame
    /\ SaveAfterRx
    /\ handed' = IF pending = NoFrame THEN handed
                 ELSE [handed EXCEPT ![pending] = IF @ < 2 THEN @ + 1 ELSE @]
    /\ UNCHANGED <<link, key, iter, ctx, parity, sent, used, reused, wrapped, boundVars>>

-----------------------------------------------------------------------------
\* What an encrypted uplink frame of the main link uses up.
Spend ==
    /\ iter' = [iter EXCEPT !.ul = IncIter(iter.ul)]
    /\ key' = [key EXCEPT !.ul = IncKey(key.ul, iter.ul)]
    /\ used' = used \cup {<<key.ul, iter.ul>>}
    /\ reused' = IF <<key.ul, iter.ul>> \in used THEN reused + 1 ELSE reused
    /\ wrapped' = (wrapped \/ Restarts(iter.ul))

\* NBFi_MAC_TX_ProtocolE up to the transmission.  ALOHA sends the packet
\* twice, by a call of itself, before the iterator is saved.
SendE ==
    /\ ~Short
    /\ step \in {"idle", "again"}
    /\ ulLeft > 0
    /\ ulLeft' = ulLeft - 1
    /\ parity' = ~parity
    /\ step' = IF Aloha /\ ~parity THEN "again" ELSE "tx"
    /\ \/ Spend
       \/ UNCHANGED <<iter, key, used, reused, wrapped>>   \* NBFI_UL_FLAG_UNENCRYPTED
    /\ UNCHANGED <<link, ctx, stored, pending, sent, last, handed, resets, switches>>

\* Mutant: the iterator is saved with received frames only.
SaveAfterTx_Never == UNCHANGED <<stored, last>>

SaveAfterTx == SaveIter

TxDone ==
    /\ step = "tx"
    /\ step' = "idle"
    /\ SaveAfterTx
    /\ UNCHANGED <<link, key, iter, ctx, parity, pending, sent, handed, used, reused,
                   wrapped, boundVars>>

\* NBFi_MAC_TX_ProtocolD on a downlink channel: nothing is saved.
SendD ==
    /\ Short
    /\ step = "idle"
    /\ ulLeft > 0
    /\ ulLeft' = ulLeft - 1
    /\ iter' = [iter EXCEPT !.ul = IncIter(iter.ul)]
    /\ key' = [key EXCEPT !.ul = IncKey(key.ul, iter.ul)]
    /\ UNCHANGED <<link, ctx, stored, step, parity, pending, sent, histVars,
                   resets, switches>>

-----------------------------------------------------------------------------
\* NBFi_switch_to_custom_settings, to the short-range link and back.
SwitchTo ==
    /\ step = "idle"
    /\ ~Short
    /\ switches < MaxSwitches
    /\ switches' = switches + 1
    /\ link' = "short"
    /\ ctx' = [key |-> key, iter |-> iter]
    /\ iter' = [ul |-> ZeroIter, dl |-> ZeroIter]
    /\ key' = SetKey(ShortRoot, iter', TRUE)
    /\ last' = [last EXCEPT !.ctx = last.ram]
    /\ UNCHANGED <<stored, step, parity, pending, sent, handed, used, reused, wrapped,
                   ulLeft, resets>>

\* Mutant: the iterators come back, the keys do not.
RestoredKey_Forgotten == key

RestoredKey == ctx.key

SwitchFrom ==
    /\ step = "idle"
    /\ Short
    /\ link' = "main"
    /\ iter' = ctx.iter
    /\ key' = RestoredKey
    /\ last' = [last EXCEPT !.ram = last.ctx]
    /\ UNCHANGED <<ctx, stored, step, parity, pending, sent, handed, used, reused, wrapped,
                   boundVars>>

\* A reset at any moment, and NBFI_Init with what the storage holds.
Reset ==
    /\ resets < MaxResets
    /\ resets' = resets + 1
    /\ link' = "main"
    /\ iter' = stored
    /\ key' = SetKey("own", stored, FALSE)
    /\ step' = "idle"
    /\ parity' = FALSE
    /\ pending' = NoFrame
    /\ wrapped' = FALSE
    /\ last' = [last EXCEPT !.ram = last.stored]
    /\ UNCHANGED <<ctx, stored, sent, handed, used, reused, ulLeft, switches>>

Next == \/ StationSends
        \/ RxFrame \/ RxPeer \/ RxDone
        \/ SendE \/ TxDone \/ SendD
        \/ SwitchTo \/ SwitchFrom
        \/ Reset

Spec == Init /\ [][Next]_vars

-----------------------------------------------------------------------------
(***************************************************************************)
(* Properties.                                                             *)
(***************************************************************************)
\* Every variable has its type.
TypeOK ==
    /\ link \in {"main", "short"}
    /\ key \in [ul : Key, dl : Key]
    /\ iter \in [ul : Iter, dl : Iter]
    /\ ctx \in [key : [ul : Key, dl : Key], iter : [ul : Iter, dl : Iter]]
    /\ stored \in [ul : Iter, dl : Iter]
    /\ step \in {"idle", "rx", "again", "tx"}
    /\ parity \in BOOLEAN
    /\ pending \in {NoFrame} \cup 0 .. MaxFrames - 1
    /\ sent \in 0 .. MaxFrames
    /\ last \in [ram : Int, stored : Int, ctx : Int]
    /\ handed \in [0 .. MaxFrames - 1 -> 0 .. 2]
    /\ used \subseteq Key \X Iter
    /\ reused \in Nat
    /\ wrapped \in BOOLEAN
    /\ ulLeft \in 0 .. MaxUl /\ resets \in 0 .. MaxResets
    /\ switches \in 0 .. MaxSwitches

\* The keys belong to the iterators: whatever was received, skipped, sent or
\* restored, they are what NBFi_Crypto_Set_KEY would compute from the
\* iterators after a reset.  One exception is in the code: the uplink chain
\* that NBFI_Crypto_inc_iter starts when the iterator has run through is not
\* the one NBFi_Crypto_Set_KEY starts.
UlStart == IF wrapped THEN "FF" ELSE "00"
Follows(k, it, root, ulStart, dlStart) ==
    /\ k.ul = [root |-> root, start |-> ulStart, n |-> it.ul.hi]
    /\ k.dl = [root |-> root, start |-> dlStart, n |-> it.dl.hi]

KeysFollow ==
    /\ Short => /\ Follows(key, iter, ShortRoot, "00", "00")
                /\ Follows(ctx.key, ctx.iter, "own", UlStart, "FF")
    /\ ~Short => Follows(key, iter, "own", UlStart, "FF")

\* A frame newer than the last one, at most KEY_SCAN_DEPTH epochs ahead, is
\* accepted and decoded with the iterator it was sent with, however many
\* frames were lost, also across the end of the 20 bits.
Epoch(n) == IF n = NoFrame THEN 0 ELSE n \div LowMod
WindowAccepted ==
    step = "idle" /\ ~Short =>
        \A n \in 0 .. MaxFrames - 1 :
            /\ n > last.ram
            /\ Epoch(n) <= Epoch(last.ram) + ScanDepth
            => Accepts(FrameAt(n)) /\ DlIter(FrameAt(n)) = IterAt(n)

\* The transport gets a frame once, however often it arrives and whenever the
\* device is reset.  A frame with iterator 0 is the exception: the check lets
\* it in as long as the saved iterator is 0.
HandedOnce ==
    \A n \in 0 .. MaxFrames - 1 : IterAt(n) # ZeroIter => handed[n] <= 1

\* A reset costs at most the iterators of the call it interrupts: no uplink
\* frame reuses an iterator but those.
ReuseBounded == reused <= resets * (IF Aloha THEN 2 ELSE 1)
=============================================================================
