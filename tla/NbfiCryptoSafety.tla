--------------------------- MODULE NbfiCryptoSafety ---------------------------
(***************************************************************************)
(* What the iterators of the device are good for, for every number of      *)
(* epochs, scan depth, link and mix of events: the keys of the device      *)
(* belong to its iterators, the window of the key scan stays open for      *)
(* every newer frame, no frame is handed over twice, and a reset costs no  *)
(* more than the iterators of the call it interrupts.                      *)
(*                                                                         *)
(* The theorems on replay and on resets leave out a device that both uses  *)
(* the short-range link and is reset: a frame received on that link stores *)
(* the link's iterators over those of the main one.                        *)
(***************************************************************************)
EXTENDS NbfiCrypto, NbfiLemmas

USE SizeAssumption, LinkAssumption, CountAssumption

(***************************************************************************)
(* The inductive invariant.  On the short-range link the epochs stay 0,    *)
(* because its iterators are cut to the low part; this is what keeps the   *)
(* two ends on one key.                                                    *)
(***************************************************************************)
CryptoInv == /\ TypeOK
             /\ KeysFollow
             /\ Short => iter.ul.hi = 0 /\ iter.dl.hi = 0

-----------------------------------------------------------------------------
LEMMA ZeroIterType == ZeroIter \in Iter
BY DEF ZeroIter, Iter, EpochNums, Lows

LEMMA SetKeyType ==
    ASSUME NEW root \in {"own", "peer"}, NEW it \in [ul : Iter, dl : Iter],
           NEW short \in BOOLEAN
    PROVE SetKey(root, it, short) \in [ul : Key, dl : Key]
BY DEF SetKey, Key, Iter

LEMMA AheadType ==
    ASSUME NEW hi \in EpochNums, NEW j \in 0 .. ScanDepth
    PROVE Ahead(hi, j) \in EpochNums
BY DEF Ahead, EpochNums

LEMMA IncIterType ==
    ASSUME NEW it \in Iter
    PROVE IncIter(it) \in Iter
<1>1. Lows \subseteq Int /\ 0 \in EpochNums /\ 0 \in Lows
  BY DEF Lows, EpochNums
<1>2. CASE ~Carries(it)
  <2>1. it.lo + 1 \in Lows
    BY <1>2 DEF Carries, Iter, Lows
  <2> QED BY <1>1, <1>2, <2>1 DEF IncIter, Iter
<1>3. CASE Carries(it)
  <2>1. Ahead(it.hi, 1) \in EpochNums
    BY DEF Ahead, Iter, EpochNums
  <2> QED BY <1>1, <1>3, <2>1 DEF IncIter, Iter
<1> QED BY <1>2, <1>3

\* The uplink key follows the iterator through an increment.
LEMMA IncKeyFollows ==
    ASSUME TypeOK, NEW root, NEW start,
           key.ul = [root |-> root, start |-> start, n |-> iter.ul.hi],
           Short => iter.ul.hi = 0
    PROVE IncKey(key.ul, iter.ul) =
            [root  |-> root,
             start |-> IF Restarts(iter.ul) THEN "FF" ELSE start,
             n     |-> IncIter(iter.ul).hi]
<1> DEFINE it == iter.ul
<1>0. it \in Iter /\ it.hi \in EpochNums
  BY DEF TypeOK, Iter
<1>1. CASE Short
  BY <1>0, <1>1 DEF IncKey, IncIter, Restarts, Iter
<1>2. CASE ~Short /\ ~Carries(it)
  BY <1>0, <1>2 DEF IncKey, IncIter, Restarts, Iter
<1>3. CASE ~Short /\ Carries(it)
  <2>1. IncIter(it).hi = IF it.hi = Epochs - 1 THEN 0 ELSE it.hi + 1
    BY <1>0, <1>3 DEF IncIter, Ahead, EpochNums
  <2>2. CASE it.hi = Epochs - 1
    <3>1. IncKey(key.ul, it) = [root |-> key.ul.root, start |-> "FF", n |-> 0]
      BY <1>3, <2>2 DEF IncKey, Restarts
    <3>2. Restarts(it)
      BY <1>3, <2>2 DEF Restarts
    <3>3. IncKey(key.ul, it) = [root |-> root, start |-> "FF", n |-> 0]
      BY <3>1
    <3> QED BY <2>1, <2>2, <3>2, <3>3
  <2>3. CASE it.hi # Epochs - 1
    <3>1. IncKey(key.ul, it) = [key.ul EXCEPT !.n = @ + 1]
      BY <1>3, <2>3 DEF IncKey, Restarts
    <3>2. ~Restarts(it)
      BY <1>3, <2>3 DEF Restarts
    <3>3. IncKey(key.ul, it) = [root |-> root, start |-> start, n |-> it.hi + 1]
      BY <3>1
    <3> QED BY <2>1, <2>3, <3>2, <3>3
  <2> QED BY <2>2, <2>3
<1> QED BY <1>1, <1>2, <1>3

-----------------------------------------------------------------------------
\* No two epochs the scan tries have the same key, so the scan finds at most
\* one, and the least one it finds exists.
LEMMA OneHit ==
    ASSUME NEW root, NEW hi \in EpochNums, NEW f,
           key.dl = [root |-> root, start |-> "FF", n |-> hi], iter.dl.hi = hi,
           Hits(f) # {}, ~InEpoch(f)
    PROVE /\ Jump(f) \in 1 .. ScanDepth
          /\ KeyAhead(key.dl, hi, Jump(f)) =
                [root |-> root, start |-> "FF", n |-> Ahead(hi, Jump(f))]
<1>1. PICK j \in 1 .. ScanDepth : KeyAhead(key.dl, hi, j) = f.key
  BY DEF Hits
<1>2. \A i \in 1 .. ScanDepth :
        KeyAhead(key.dl, hi, i) =
          [root |-> root, start |-> "FF", n |-> Ahead(hi, i)]
  BY DEF KeyAhead, Ahead, EpochNums
<1>3. \A i \in Hits(f) : i = j
  <2> SUFFICES ASSUME NEW i \in Hits(f) PROVE i = j
    OBVIOUS
  <2>0. i \in 1 .. ScanDepth /\ KeyAhead(key.dl, hi, i) = f.key
    BY DEF Hits
  <2>1. i \in 1 .. ScanDepth /\ Ahead(hi, i) = Ahead(hi, j)
    <3> DEFINE K(e) == [root |-> root, start |-> "FF", n |-> e]
    <3>1. K(Ahead(hi, i)) = K(Ahead(hi, j))
      BY <1>1, <1>2, <2>0
    <3>2. K(Ahead(hi, i)).n = K(Ahead(hi, j)).n
      BY <3>1
    <3> QED BY <2>0, <3>2
  <2> QED BY <2>1 DEF Ahead, EpochNums
<1>4. Jump(f) = CHOOSE k \in Hits(f) : \A i \in Hits(f) : k <= i
  BY DEF Jump
<1>5. j \in Hits(f)
  BY <1>1 DEF Hits
<1>6. Jump(f) \in Hits(f)
  BY <1>3, <1>4, <1>5
<1> QED BY <1>2, <1>6 DEF Hits

\* What a received frame does to the downlink iterator and its key.
LEMMA CheckFollows ==
    ASSUME CryptoInv, NEW f, f.lo \in Lows
    PROVE /\ DlIter(f) \in Iter
          /\ DlKey(f) \in Key
          /\ DlKey(f).root = key.dl.root /\ DlKey(f).start = key.dl.start
          /\ DlKey(f).n = DlIter(f).hi
          /\ Short => DlIter(f).hi = 0
<1>1. /\ iter.dl \in Iter /\ iter.dl.hi \in EpochNums /\ key.dl \in Key
      /\ key.dl.n = iter.dl.hi
      /\ Short => iter.dl.hi = 0
  BY DEF CryptoInv, TypeOK, KeysFollow, Follows, Iter
<1>2. CASE Short
  <2>1. DlKey(f) = key.dl
    BY <1>2 DEF DlKey, Accepts
  <2>2. DlIter(f) = [hi |-> 0, lo |-> f.lo] /\ 0 \in EpochNums
    BY <1>2 DEF DlIter, EpochNums
  <2> QED BY <1>1, <1>2, <2>1, <2>2 DEF Iter
<1>3. CASE ~Short
  <2>1. key.dl = [root |-> "own", start |-> "FF", n |-> iter.dl.hi]
    BY <1>3 DEF CryptoInv, KeysFollow, Follows
  <2>2. CASE ~Accepts(f)
    BY <1>1, <1>3, <2>2 DEF DlIter, DlKey
  <2>3. CASE Accepts(f) /\ InEpoch(f)
    <3>1. Jump(f) = 0 /\ Ahead(iter.dl.hi, 0) = iter.dl.hi
      BY <1>1, <2>3 DEF Jump, Ahead, EpochNums
    <3>2. DlIter(f) = [hi |-> iter.dl.hi, lo |-> f.lo]
      BY <1>3, <2>3, <3>1 DEF DlIter
    <3>3. DlKey(f) = key.dl
      BY <2>3 DEF DlKey
    <3> QED BY <1>1, <1>3, <3>2, <3>3 DEF Iter
  <2>4. CASE Accepts(f) /\ ~InEpoch(f)
    <3>1. Hits(f) # {}
      BY <2>4 DEF Accepts
    <3>2. /\ Jump(f) \in 1 .. ScanDepth
          /\ KeyAhead(key.dl, iter.dl.hi, Jump(f)) =
                [root |-> "own", start |-> "FF", n |-> Ahead(iter.dl.hi, Jump(f))]
      BY <1>1, <2>1, <2>4, <3>1, OneHit
    <3>3. Ahead(iter.dl.hi, Jump(f)) \in EpochNums
      BY <1>1, <3>2, AheadType
    <3>4. DlIter(f) = [hi |-> Ahead(iter.dl.hi, Jump(f)), lo |-> f.lo]
      BY <1>3, <2>4 DEF DlIter
    <3>5. DlKey(f) = [root |-> "own", start |-> "FF",
                      n |-> Ahead(iter.dl.hi, Jump(f))]
      BY <2>4, <3>2 DEF DlKey
    <3> QED BY <1>3, <2>1, <3>3, <3>4, <3>5 DEF Iter, Key
  <2> QED BY <2>2, <2>3, <2>4
<1> QED BY <1>2, <1>3

-----------------------------------------------------------------------------
LEMMA CryptoInit == ASSUME Init PROVE CryptoInv
<1> USE DEF Init
<1>1. iter \in [ul : Iter, dl : Iter]
  BY ZeroIterType
<1>2. key \in [ul : Key, dl : Key]
  BY <1>1, SetKeyType
<1>3. TypeOK
  <2>1. handed \in [0 .. MaxFrames - 1 -> 0 .. 2]
    OBVIOUS
  <2>2. last \in [ram : Int, stored : Int, ctx : Int] /\ pending = NoFrame
    BY DEF NoFrame
  <2>3. ctx \in [key : [ul : Key, dl : Key], iter : [ul : Iter, dl : Iter]]
    BY <1>1, <1>2
  <2>4. /\ sent \in 0 .. MaxFrames /\ ulLeft \in 0 .. MaxUl
        /\ resets \in 0 .. MaxResets /\ switches \in 0 .. MaxSwitches
        /\ reused \in Nat
    OBVIOUS
  <2>5. parity \in BOOLEAN /\ wrapped \in BOOLEAN /\ used \subseteq Key \X Iter
    OBVIOUS
  <2>6. link = "main" /\ step = "idle" /\ stored = iter
    OBVIOUS
  <2> HIDE DEF Init
  <2> QED BY <1>1, <1>2, <2>1, <2>2, <2>3, <2>4, <2>5, <2>6 DEF TypeOK
<1>4. KeysFollow
  BY DEF KeysFollow, Follows, SetKey, Short, UlStart
<1> QED BY <1>3, <1>4 DEF CryptoInv, Short

LEMMA CheckInv ==
    ASSUME CryptoInv, NEW f, NEW n \in {NoFrame} \cup 0 .. MaxFrames - 1,
           f.lo \in Lows, Check(f, n)
    PROVE CryptoInv'
<1>1. /\ DlIter(f) \in Iter /\ DlKey(f) \in Key
      /\ DlKey(f).root = key.dl.root /\ DlKey(f).start = key.dl.start
      /\ DlKey(f).n = DlIter(f).hi
      /\ Short => DlIter(f).hi = 0
  BY CheckFollows
<1>2. /\ iter' = [iter EXCEPT !.dl = DlIter(f)]
      /\ key' = [key EXCEPT !.dl = DlKey(f)]
      /\ UNCHANGED <<link, ctx, stored, parity, sent, handed, used, reused, wrapped,
                     ulLeft, resets, switches>>
  BY DEF Check, boundVars
<1>3. TypeOK
  BY DEF CryptoInv
<1>4. iter' \in [ul : Iter, dl : Iter] /\ key' \in [ul : Key, dl : Key]
  BY <1>1, <1>2, <1>3 DEF TypeOK
<1>5. /\ iter'.ul = iter.ul /\ iter'.dl = DlIter(f)
      /\ key'.ul = key.ul /\ key'.dl = DlKey(f)
  BY <1>2, <1>3 DEF TypeOK
<1>6. TypeOK'
  <2>1. step' \in {"idle", "rx", "again", "tx"}
    BY DEF Check
  <2>2. pending' \in {NoFrame} \cup 0 .. MaxFrames - 1
    BY DEF Check
  <2>3. last' \in [ram : Int, stored : Int, ctx : Int]
    <3>1. last \in [ram : Int, stored : Int, ctx : Int] /\ n \in Int
      BY <1>3 DEF TypeOK, NoFrame
    <3> QED BY <3>1 DEF Check
  <2> QED BY <1>2, <1>3, <1>4, <2>1, <2>2, <2>3 DEF TypeOK
<1>7. KeysFollow'
  <2>1. DlKey(f) = [root |-> key.dl.root, start |-> key.dl.start, n |-> DlIter(f).hi]
    BY <1>1 DEF Key
  <2>2. KeysFollow
    BY DEF CryptoInv
  <2> QED BY <1>2, <1>5, <2>1, <2>2 DEF KeysFollow, Follows, Short, UlStart
<1> QED BY <1>1, <1>2, <1>5, <1>6, <1>7 DEF CryptoInv, Short

-----------------------------------------------------------------------------
LEMMA SpendInv ==
    ASSUME CryptoInv,
           iter' = [iter EXCEPT !.ul = IncIter(iter.ul)],
           key' = [key EXCEPT !.ul = IncKey(key.ul, iter.ul)],
           wrapped' = (wrapped \/ Restarts(iter.ul)),
           UNCHANGED <<link, ctx>>
    PROVE /\ iter' \in [ul : Iter, dl : Iter]
          /\ key' \in [ul : Key, dl : Key]
          /\ wrapped' \in BOOLEAN
          /\ KeysFollow'
          /\ (Short => iter.ul.hi = 0 /\ iter.dl.hi = 0)'
<1>0. TypeOK /\ KeysFollow /\ (Short => iter.ul.hi = 0 /\ iter.dl.hi = 0)
  BY DEF CryptoInv
<1>1. IncIter(iter.ul) \in Iter
  BY <1>0, IncIterType DEF TypeOK
<1>2. iter' \in [ul : Iter, dl : Iter] /\ iter'.dl = iter.dl
      /\ iter'.ul = IncIter(iter.ul)
  BY <1>0, <1>1 DEF TypeOK
<1>3. key'.dl = key.dl /\ key'.ul = IncKey(key.ul, iter.ul)
  BY <1>0 DEF TypeOK
<1>4. wrapped' \in BOOLEAN
  BY <1>0 DEF TypeOK, Restarts, Carries
<1>5. CASE Short
  <2>1. key.ul = [root |-> ShortRoot, start |-> "00", n |-> iter.ul.hi]
    BY <1>0, <1>5 DEF KeysFollow, Follows
  <2>2. key'.ul = key.ul /\ wrapped' = wrapped
    BY <1>0, <1>3, <1>5 DEF IncKey, Restarts, TypeOK
  <2>3. IncIter(iter.ul).hi = 0
    BY <1>0, <1>5 DEF IncIter, TypeOK, Iter
  <2>4. key' = key
    BY <1>0, <2>2, <1>3 DEF TypeOK
  <2>5. KeysFollow'
    BY <1>0, <1>2, <1>5, <2>2, <2>3, <2>4 DEF KeysFollow, Follows, Short, UlStart
  <2> QED BY <1>0, <1>2, <1>4, <1>5, <2>3, <2>4, <2>5 DEF TypeOK, Short
<1>6. CASE ~Short
  <2>1. key.ul = [root |-> "own", start |-> UlStart, n |-> iter.ul.hi]
    BY <1>0, <1>6 DEF KeysFollow, Follows
  <2>2. key'.ul = [root |-> "own",
                   start |-> IF Restarts(iter.ul) THEN "FF" ELSE UlStart,
                   n |-> IncIter(iter.ul).hi]
    BY <1>0, <1>3, <2>1, IncKeyFollows
  <2>3. UlStart' = IF Restarts(iter.ul) THEN "FF" ELSE UlStart
    BY DEF UlStart
  <2>4. key' \in [ul : Key, dl : Key]
    <3>1. key'.ul \in Key
      BY <1>1, <2>2 DEF Key, Iter, UlStart
    <3> QED BY <1>0, <1>3, <3>1 DEF TypeOK
  <2>5. KeysFollow'
    BY <1>0, <1>2, <1>3, <1>6, <2>2, <2>3 DEF KeysFollow, Follows, Short
  <2> QED BY <1>2, <1>4, <1>6, <2>4, <2>5 DEF Short
<1> QED BY <1>5, <1>6

LEMMA SendEInv == ASSUME CryptoInv, SendE PROVE CryptoInv'
<1>0. TypeOK /\ KeysFollow /\ ~Short
  BY DEF CryptoInv, SendE
<1>1. /\ step' \in {"idle", "rx", "again", "tx"} /\ parity' \in BOOLEAN
      /\ ulLeft' \in 0 .. MaxUl
      /\ UNCHANGED <<link, ctx, stored, pending, sent, last, handed, resets, switches>>
  BY <1>0 DEF SendE, TypeOK
<1>2. CASE Spend
  <2>1. /\ iter' \in [ul : Iter, dl : Iter] /\ key' \in [ul : Key, dl : Key]
        /\ wrapped' \in BOOLEAN /\ KeysFollow'
        /\ (Short => iter.ul.hi = 0 /\ iter.dl.hi = 0)'
    BY <1>1, <1>2, SpendInv DEF Spend
  <2>2. used' \subseteq Key \X Iter /\ reused' \in Nat
    <3>1. <<key.ul, iter.ul>> \in Key \X Iter /\ used \subseteq Key \X Iter
          /\ reused \in Nat
      BY <1>0 DEF TypeOK
    <3> QED BY <1>2, <3>1 DEF Spend
  <2> QED BY <1>0, <1>1, <2>1, <2>2 DEF CryptoInv, TypeOK
<1>3. CASE UNCHANGED <<iter, key, used, reused, wrapped>>
  <2>1. TypeOK'
    BY <1>0, <1>1, <1>3 DEF TypeOK
  <2>2. KeysFollow'
    BY <1>0, <1>1, <1>3 DEF KeysFollow, Follows, Short, UlStart
  <2> QED BY <1>0, <1>1, <2>1, <2>2 DEF CryptoInv, Short
<1> QED BY <1>2, <1>3 DEF SendE

LEMMA SendDInv == ASSUME CryptoInv, SendD PROVE CryptoInv'
<1>0. TypeOK /\ Short
  BY DEF CryptoInv, SendD
<1>1. /\ ulLeft' \in 0 .. MaxUl
      /\ UNCHANGED <<link, ctx, stored, step, parity, pending, sent, last, handed, used,
                     reused, wrapped, resets, switches>>
  <2>1. ulLeft \in 0 .. MaxUl
    BY <1>0 DEF TypeOK
  <2>2. ulLeft' \in 0 .. MaxUl
    BY <2>1 DEF SendD
  <2> QED BY <2>2 DEF SendD, histVars
<1>2. wrapped' = (wrapped \/ Restarts(iter.ul))
  BY <1>0, <1>1 DEF Restarts, TypeOK
<1>3. /\ iter' \in [ul : Iter, dl : Iter] /\ key' \in [ul : Key, dl : Key]
      /\ KeysFollow' /\ (Short => iter.ul.hi = 0 /\ iter.dl.hi = 0)'
  BY <1>1, <1>2, SpendInv DEF SendD
<1> QED BY <1>0, <1>1, <1>3 DEF CryptoInv, TypeOK

-----------------------------------------------------------------------------
LEMMA SwitchToInv == ASSUME CryptoInv, SwitchTo PROVE CryptoInv'
<1>0. TypeOK /\ KeysFollow /\ ~Short
  BY DEF CryptoInv, SwitchTo
<1>1. iter' = [ul |-> ZeroIter, dl |-> ZeroIter] /\ iter' \in [ul : Iter, dl : Iter]
  BY ZeroIterType DEF SwitchTo
<1>2. key' \in [ul : Key, dl : Key]
  BY <1>1, SetKeyType DEF SwitchTo
<1>3. TypeOK'
  <2>1. last' \in [ram : Int, stored : Int, ctx : Int]
    BY <1>0 DEF SwitchTo, TypeOK
  <2>2. ctx' \in [key : [ul : Key, dl : Key], iter : [ul : Iter, dl : Iter]]
    BY <1>0 DEF SwitchTo, TypeOK
  <2>3. switches' \in 0 .. MaxSwitches
    <3>1. switches \in 0 .. MaxSwitches
      BY <1>0 DEF TypeOK
    <3> QED BY <3>1 DEF SwitchTo
  <2> QED BY <1>0, <1>1, <1>2, <2>1, <2>2, <2>3 DEF SwitchTo, TypeOK
<1>4. link' = "short" /\ ctx' = [key |-> key, iter |-> iter] /\ wrapped' = wrapped
      /\ key' = SetKey(ShortRoot, iter', TRUE)
  BY DEF SwitchTo
<1>5. KeysFollow'
  BY <1>0, <1>1, <1>4 DEF KeysFollow, Follows, Short, UlStart, SetKey, ZeroIter
<1> QED BY <1>1, <1>3, <1>5 DEF CryptoInv, ZeroIter

LEMMA SwitchFromInv == ASSUME CryptoInv, SwitchFrom PROVE CryptoInv'
<1>0. TypeOK /\ KeysFollow /\ Short
  BY DEF CryptoInv, SwitchFrom
<1>1. link' = "main" /\ iter' = ctx.iter /\ key' = ctx.key /\ wrapped' = wrapped
  BY DEF SwitchFrom, RestoredKey
<1>2. TypeOK'
  BY <1>0, <1>1 DEF SwitchFrom, TypeOK, boundVars
<1>3. KeysFollow'
  BY <1>0, <1>1 DEF KeysFollow, Follows, Short, UlStart
<1> QED BY <1>1, <1>2, <1>3 DEF CryptoInv, Short

LEMMA ResetInv == ASSUME CryptoInv, Reset PROVE CryptoInv'
<1>0. TypeOK
  BY DEF CryptoInv
<1>1. link' = "main" /\ iter' = stored /\ wrapped' = FALSE
      /\ key' = SetKey("own", stored, FALSE)
  BY DEF Reset
<1>2. key' \in [ul : Key, dl : Key]
  BY <1>0, <1>1, SetKeyType DEF TypeOK
<1>3. TypeOK'
  <2>1. last' \in [ram : Int, stored : Int, ctx : Int]
    BY <1>0 DEF Reset, TypeOK
  <2>2. resets' \in 0 .. MaxResets
    <3>1. resets \in 0 .. MaxResets
      BY <1>0 DEF TypeOK
    <3> QED BY <3>1 DEF Reset
  <2>3. pending' = NoFrame /\ step' = "idle" /\ parity' = FALSE
    BY DEF Reset
  <2> QED BY <1>0, <1>1, <1>2, <2>1, <2>2, <2>3 DEF Reset, TypeOK
<1>4. KeysFollow'
  BY <1>1 DEF KeysFollow, Follows, Short, UlStart, SetKey
<1> QED BY <1>1, <1>3, <1>4 DEF CryptoInv, Short

\* Steps that touch neither keys nor the iterators in RAM.
LEMMA StillInv ==
    ASSUME CryptoInv, TypeOK', UNCHANGED <<link, key, iter, ctx, wrapped>>
    PROVE CryptoInv'
BY DEF CryptoInv, KeysFollow, Follows, Short, UlStart

LEMMA CryptoNext == ASSUME CryptoInv, [Next]_vars PROVE CryptoInv'
<1>0. TypeOK
  BY DEF CryptoInv
<1>1. CASE StationSends
  <2>1. TypeOK'
    BY <1>0, <1>1 DEF StationSends, TypeOK, histVars, boundVars
  <2> QED BY <1>1, <2>1, StillInv DEF StationSends, histVars
<1>2. CASE RxFrame
  <2>1. PICK n \in InAir : Check(FrameAt(n), n)
    BY <1>2 DEF RxFrame
  <2>2. n \in 0 .. MaxFrames - 1
    BY DEF InAir
  <2>3. FrameAt(n).lo \in Lows
    <3>1. FrameAt(n).lo = n % LowMod
      BY DEF FrameAt, IterAt
    <3> QED BY <2>2, <3>1 DEF Lows
  <2> QED BY <2>1, <2>2, <2>3, CheckInv
<1>3. CASE RxPeer
  <2>1. PICK lo \in Lows : Check(PeerFrame(lo), NoFrame)
    BY <1>3 DEF RxPeer
  <2>2. PeerFrame(lo).lo \in Lows
    BY DEF PeerFrame
  <2> QED BY <2>1, <2>2, CheckInv
<1>4. CASE RxDone
  <2>1. last' \in [ram : Int, stored : Int, ctx : Int] /\ stored' = iter
    BY <1>0, <1>4 DEF RxDone, SaveAfterRx, SaveIter, TypeOK
  <2>2. handed' \in [0 .. MaxFrames - 1 -> 0 .. 2]
    BY <1>0, <1>4 DEF RxDone, TypeOK
  <2>3. TypeOK'
    BY <1>0, <1>4, <2>1, <2>2 DEF RxDone, TypeOK, boundVars
  <2> QED BY <1>4, <2>3, StillInv DEF RxDone
<1>5. CASE SendE
  BY <1>5, SendEInv
<1>6. CASE TxDone
  <2>1. TypeOK'
    BY <1>0, <1>6 DEF TxDone, SaveAfterTx, SaveIter, TypeOK, boundVars
  <2> QED BY <1>6, <2>1, StillInv DEF TxDone
<1>7. CASE SendD
  BY <1>7, SendDInv
<1>8. CASE SwitchTo
  BY <1>8, SwitchToInv
<1>9. CASE SwitchFrom
  BY <1>9, SwitchFromInv
<1>10. CASE Reset
  BY <1>10, ResetInv
<1>11. CASE UNCHANGED vars
  <2>1. TypeOK'
    BY <1>0, <1>11 DEF vars, histVars, boundVars, TypeOK
  <2> QED BY <1>11, <2>1, StillInv DEF vars, histVars
<1> QED
  BY <1>1, <1>2, <1>3, <1>4, <1>5, <1>6, <1>7, <1>8, <1>9, <1>10, <1>11 DEF Next

-----------------------------------------------------------------------------
\* Type correctness of the iterators, keys and histories: in particular the
\* scan never leaves the 12 bits of the epoch.
THEOREM CryptoTypeCorrect == Spec => []TypeOK
<1>1. Init => CryptoInv
  BY CryptoInit
<1>2. CryptoInv /\ [Next]_vars => CryptoInv'
  BY CryptoNext
<1>3. CryptoInv => TypeOK
  BY DEF CryptoInv
<1> QED BY <1>1, <1>2, <1>3, PTL DEF Spec

\* The keys the device works with are those that belong to its iterators, on
\* both links, after any sequence of frames, losses, switches and resets.
THEOREM KeysBelongToIterators == Spec => []KeysFollow
<1>1. Init => CryptoInv
  BY CryptoInit
<1>2. CryptoInv /\ [Next]_vars => CryptoInv'
  BY CryptoNext
<1>3. CryptoInv => KeysFollow
  BY DEF CryptoInv
<1> QED BY <1>1, <1>2, <1>3, PTL DEF Spec

-----------------------------------------------------------------------------
\* No frame of the short-range link is stored for the main one.
StorageIsMain == MaxSwitches = 0 \/ MaxResets = 0

-----------------------------------------------------------------------------
(***************************************************************************)
(* Downlink.  The first inductive invariant ties the downlink iterator of  *)
(* the main link, wherever it is kept - in RAM, in the context saved for   *)
(* the short-range link, in storage - to the newest frame accepted.        *)
(***************************************************************************)
IterOf(n) == IF n = NoFrame THEN ZeroIter ELSE IterAt(n)

Numbers == {NoFrame} \cup 0 .. MaxFrames - 1

IterIsNewest ==
    /\ last \in [ram : Numbers, stored : Numbers, ctx : Numbers]
    /\ Short => last.ctx = last.ram /\ ctx.iter.dl = IterOf(last.ctx)
    /\ ~Short => iter.dl = IterOf(last.ram)
    /\ MaxSwitches = 0 => stored.dl = IterOf(last.stored) /\ ~Short

DownlinkInv == CryptoInv /\ IterIsNewest

LEMMA IterAtType ==
    ASSUME NEW n \in Nat
    PROVE IterAt(n) \in Iter /\ IterAt(n).hi = (n \div LowMod) % Epochs
          /\ IterAt(n).lo = n % LowMod /\ n \div LowMod \in Nat
<1>1. n \div LowMod \in Nat /\ n % LowMod \in Lows
  <2>1. n \div LowMod \in Int /\ n % LowMod \in 0 .. LowMod - 1
        /\ n = LowMod * (n \div LowMod) + (n % LowMod)
    BY DivMod
  <2>2. 0 \div LowMod = 0 /\ 0 \div LowMod <= n \div LowMod
    BY DivOrder
  <2> QED BY <2>1, <2>2 DEF Lows
<1>2. (n \div LowMod) % Epochs \in EpochNums
  BY <1>1, DivMod DEF EpochNums
<1> QED BY <1>1, <1>2 DEF IterAt, Iter

\* The key the scan tries for the j-th epoch is the key of that epoch.
LEMMA KeyAheadIs ==
    ASSUME NEW hi \in EpochNums, NEW j \in 0 .. ScanDepth,
           key.dl = [root |-> "own", start |-> "FF", n |-> hi]
    PROVE KeyAhead(key.dl, hi, j) = [root |-> "own", start |-> "FF", n |-> Ahead(hi, j)]
BY DEF KeyAhead, Ahead, EpochNums

LEMMA OwnKey ==
    ASSUME CryptoInv, ~Short
    PROVE /\ key.dl = [root |-> "own", start |-> "FF", n |-> iter.dl.hi]
          /\ iter.dl.hi \in EpochNums /\ iter.dl \in Iter
BY DEF CryptoInv, KeysFollow, Follows, TypeOK, Iter

\* A frame of the base station is in the epoch of the device when it shows
\* the epoch, and its low part is newer.
LEMMA InEpochIs ==
    ASSUME CryptoInv, ~Short, NEW n \in Nat
    PROVE InEpoch(FrameAt(n)) <=> /\ IterAt(n).hi = iter.dl.hi
                                  /\ Newer(iter.dl, IterAt(n).lo)
<1>1. key.dl = FrameAt(n).key <=> IterAt(n).hi = iter.dl.hi
  BY OwnKey DEF FrameAt
<1>2. FrameAt(n).lo = IterAt(n).lo
  BY DEF FrameAt
<1> QED BY <1>1, <1>2 DEF InEpoch

LEMMA HitsIs ==
    ASSUME CryptoInv, ~Short, NEW n \in Nat, NEW j
    PROVE j \in Hits(FrameAt(n)) <=>
            j \in 1 .. ScanDepth /\ IterAt(n).hi = Ahead(iter.dl.hi, j)
<1>1. ASSUME j \in 1 .. ScanDepth
      PROVE KeyAhead(key.dl, iter.dl.hi, j) = FrameAt(n).key
              <=> IterAt(n).hi = Ahead(iter.dl.hi, j)
  <2>1. j \in 0 .. ScanDepth
    BY <1>1
  <2>2. KeyAhead(key.dl, iter.dl.hi, j) =
          [root |-> "own", start |-> "FF", n |-> Ahead(iter.dl.hi, j)]
    BY <2>1, OwnKey, KeyAheadIs
  <2> QED BY <2>2 DEF FrameAt
<1> QED BY <1>1 DEF Hits

\* The check accepts the frames of the epochs 0 to ScanDepth ahead, and
\* decodes each with the iterator it was sent with.
LEMMA AcceptsIs ==
    ASSUME CryptoInv, ~Short, NEW n \in Nat
    PROVE /\ Accepts(FrameAt(n)) <=>
               \E j \in 0 .. ScanDepth :
                   /\ IterAt(n).hi = Ahead(iter.dl.hi, j)
                   /\ j = 0 => Newer(iter.dl, IterAt(n).lo)
          /\ Accepts(FrameAt(n)) => DlIter(FrameAt(n)) = IterAt(n)
<1> DEFINE f == FrameAt(n)
<1>0. Ahead(iter.dl.hi, 0) = iter.dl.hi
  BY OwnKey DEF Ahead, EpochNums
<1>1. Accepts(f) <=> InEpoch(f) \/ Hits(f) # {}
  BY DEF Accepts
<1>2. Hits(f) # {} <=> \E j \in 1 .. ScanDepth : IterAt(n).hi = Ahead(iter.dl.hi, j)
  BY HitsIs
<1>3. Accepts(f) <=>
        \E j \in 0 .. ScanDepth :
            /\ IterAt(n).hi = Ahead(iter.dl.hi, j)
            /\ j = 0 => Newer(iter.dl, IterAt(n).lo)
  <2>1. /\ 0 \in 0 .. ScanDepth
        /\ \A j \in 0 .. ScanDepth : j = 0 \/ j \in 1 .. ScanDepth
        /\ \A j \in 1 .. ScanDepth : j # 0 /\ j \in 0 .. ScanDepth
    OBVIOUS
  <2>2. InEpoch(f) <=> /\ IterAt(n).hi = Ahead(iter.dl.hi, 0)
                       /\ Newer(iter.dl, IterAt(n).lo)
    BY <1>0, InEpochIs
  <2> HIDE DEF f
  <2> QED BY <1>1, <1>2, <2>1, <2>2
<1>4. ASSUME Accepts(f) PROVE DlIter(f) = IterAt(n)
  <2>1. f.lo = IterAt(n).lo /\ IterAt(n) \in Iter
    BY IterAtType DEF FrameAt
  <2>2. IterAt(n) = [hi |-> IterAt(n).hi, lo |-> IterAt(n).lo]
    BY <2>1 DEF Iter
  <2>3. DlIter(f) = [hi |-> Ahead(iter.dl.hi, Jump(f)), lo |-> f.lo]
    BY <1>4 DEF DlIter
  <2>4. CASE InEpoch(f)
    <3>1. Jump(f) = 0 /\ IterAt(n).hi = iter.dl.hi
      BY <2>4, InEpochIs DEF Jump
    <3> QED BY <1>0, <2>1, <2>2, <2>3, <3>1
  <2>5. CASE ~InEpoch(f)
    <3>1. Hits(f) # {}
      BY <1>1, <1>4, <2>5
    <3>2. /\ Jump(f) \in 1 .. ScanDepth
          /\ KeyAhead(key.dl, iter.dl.hi, Jump(f)) =
                [root |-> "own", start |-> "FF", n |-> Ahead(iter.dl.hi, Jump(f))]
      BY <2>5, <3>1, OwnKey, OneHit
    <3>3. Jump(f) \in Hits(f)
      <4>1. PICK j \in Hits(f) : TRUE
        BY <3>1
      <4>2. \A i \in Hits(f) : i = j
        <5>1. ASSUME NEW i \in Hits(f) PROVE i = j
          <6>1. i \in 1 .. ScanDepth /\ j \in 1 .. ScanDepth
                /\ Ahead(iter.dl.hi, i) = Ahead(iter.dl.hi, j)
            BY <4>1, <5>1, HitsIs
          <6> QED BY <6>1, OwnKey DEF Ahead, EpochNums
        <5> QED BY <5>1
      <4>3. j <= j
        BY <4>1 DEF Hits
      <4> QED BY <2>5, <4>1, <4>2, <4>3 DEF Jump
    <3>4. IterAt(n).hi = Ahead(iter.dl.hi, Jump(f))
      BY <3>3, HitsIs
    <3> QED BY <2>1, <2>2, <2>3, <3>4
  <2> QED BY <2>4, <2>5
<1> QED BY <1>3, <1>4

-----------------------------------------------------------------------------
(***************************************************************************)
(* How epochs are counted: the number of a frame against what is left of   *)
(* it in the 20 bits.                                                      *)
(***************************************************************************)
LEMMA AheadIsSum ==
    ASSUME NEW a \in Nat, NEW j \in 0 .. ScanDepth
    PROVE (a + j) % Epochs = Ahead(a % Epochs, j)
<1> DEFINE q == a \div Epochs
           r == a % Epochs
<1>1. q \in Int /\ r \in 0 .. Epochs - 1 /\ a = Epochs * q + r
  BY DivMod
<1>2. CASE r + j < Epochs
  <2>1. a + j = Epochs * q + (r + j) /\ r + j \in 0 .. Epochs - 1
    BY <1>1, <1>2
  <2>2. (a + j) % Epochs = r + j
    BY <1>1, <2>1, DivModUnique
  <2> QED BY <1>1, <1>2, <2>2 DEF Ahead
<1>3. CASE r + j >= Epochs
  <2>1. Epochs * (q + 1) = Epochs * q + Epochs * 1
    BY <1>1, MulSum
  <2>2. a + j = Epochs * (q + 1) + (r + j - Epochs) /\ r + j - Epochs \in 0 .. Epochs - 1
    BY <1>1, <1>3, <2>1
  <2>3. (a + j) % Epochs = r + j - Epochs
    <3>1. q + 1 \in Int
      BY <1>1
    <3> QED BY <2>2, <3>1, DivModUnique
  <2> QED BY <1>1, <1>3, <2>3 DEF Ahead
<1> QED BY <1>1, <1>2, <1>3

\* A newer frame, at most ScanDepth epochs later, is j epochs ahead for some
\* j of the scan, and its low part is newer if it is in the same epoch.
LEMMA NewerIsAhead ==
    ASSUME NEW r \in Nat, NEW n \in Nat, r < n,
           n \div LowMod <= r \div LowMod + ScanDepth
    PROVE \E j \in 0 .. ScanDepth :
            /\ IterAt(n).hi = Ahead(IterAt(r).hi, j)
            /\ j = 0 => IterAt(r).lo < IterAt(n).lo
<1> DEFINE a == r \div LowMod
           b == n \div LowMod
           j == b - a
<1>1. a \in Nat /\ b \in Nat /\ a <= b
  BY IterAtType, DivOrder
<1>2. j \in 0 .. ScanDepth /\ b = a + j
  BY <1>1
<1>3. IterAt(n).hi = Ahead(IterAt(r).hi, j)
  <2>1. (a + j) % Epochs = Ahead(a % Epochs, j)
    BY <1>1, <1>2, AheadIsSum
  <2>2. IterAt(n).hi = b % Epochs /\ IterAt(r).hi = a % Epochs
    BY IterAtType
  <2> HIDE DEF a, b, j
  <2> QED BY <1>2, <2>1, <2>2
<1>4. ASSUME j = 0 PROVE IterAt(r).lo < IterAt(n).lo
  <2>1. r = LowMod * a + (r % LowMod) /\ n = LowMod * b + (n % LowMod)
        /\ r % LowMod \in Int /\ n % LowMod \in Int
    BY DivMod
  <2>2. LowMod * a = LowMod * b /\ LowMod * a \in Int
    BY <1>1, <1>4, MulSum
  <2>3. r % LowMod < n % LowMod
    <3> HIDE DEF a, b
    <3> QED BY <2>1, <2>2
  <2> QED BY <2>3, IterAtType
<1> QED BY <1>2, <1>3, <1>4

\* A frame no newer, and not older than the delay allows, is in the window of
\* the scan only if its epoch is the epoch of the newest frame.
LEMMA OlderIsNotAhead ==
    ASSUME NEW r \in Nat, NEW n \in Nat, n <= r,
           r - n <= (Epochs - ScanDepth - 1) * LowMod,
           NEW j \in 0 .. ScanDepth, IterAt(n).hi = Ahead(IterAt(r).hi, j)
    PROVE j = 0 /\ n \div LowMod = r \div LowMod
<1> DEFINE a == n \div LowMod
           b == r \div LowMod
           k == (b + j) \div Epochs - a \div Epochs
<1>1. a \in Nat /\ b \in Nat /\ a <= b
  <2>1. a \in Nat /\ b \in Nat
    BY IterAtType
  <2>2. a <= b
    BY DivOrder
  <2> QED BY <2>1, <2>2
<1>2. a % Epochs = (b + j) % Epochs
  <2>1. IterAt(n).hi = a % Epochs /\ IterAt(r).hi = b % Epochs
    BY IterAtType
  <2>2. (b + j) % Epochs = Ahead(b % Epochs, j)
    BY <1>1, AheadIsSum
  <2> QED BY <2>1, <2>2
<1>3. k \in Int /\ b + j - a = Epochs * k
  <2>1. /\ a = Epochs * (a \div Epochs) + (a % Epochs)
        /\ a \div Epochs \in Int /\ a % Epochs \in Int
    BY <1>1, DivMod
  <2>2. /\ b + j = Epochs * ((b + j) \div Epochs) + ((b + j) % Epochs)
        /\ (b + j) \div Epochs \in Int /\ (b + j) % Epochs \in Int
    BY <1>1, DivMod
  <2>3. Epochs * k = Epochs * ((b + j) \div Epochs) - Epochs * (a \div Epochs)
        /\ Epochs * ((b + j) \div Epochs) \in Int /\ Epochs * (a \div Epochs) \in Int
    BY <2>1, <2>2, MulSum
  <2> QED BY <1>1, <1>2, <2>1, <2>2, <2>3
<1>4. k < 1
  <2> SUFFICES ASSUME 1 <= k PROVE FALSE
    BY <1>3
  <2>1. Epochs * 1 <= Epochs * k
    BY <1>3, MulOrder
  <2>2. Epochs - ScanDepth <= b - a
    <3> HIDE DEF k, a, b
    <3> QED BY <1>1, <1>3, <2>1
  <2>3. LowMod * (Epochs - ScanDepth) <= LowMod * (b - a)
    BY <1>1, <2>2, MulOrder
  <2>4. /\ LowMod * (b - a) = LowMod * b - LowMod * a
        /\ LowMod * b \in Int /\ LowMod * a \in Int
    BY <1>1, MulSum
  <2>5. /\ r = LowMod * b + (r % LowMod) /\ n = LowMod * a + (n % LowMod)
        /\ r % LowMod \in 0 .. LowMod - 1 /\ n % LowMod \in 0 .. LowMod - 1
    BY DivMod
  <2>6. /\ (Epochs - ScanDepth - 1) * LowMod = LowMod * (Epochs - ScanDepth) - LowMod * 1
        /\ LowMod * (Epochs - ScanDepth) \in Int
    <3> DEFINE c == Epochs - ScanDepth
    <3>1. c \in Int /\ c - 1 \in Int
      OBVIOUS
    <3>2. LowMod * (c - 1) = LowMod * c - LowMod * 1 /\ LowMod * c \in Int
      BY <3>1, MulSum
    <3>3. (c - 1) * LowMod = LowMod * (c - 1)
      BY <3>1, MulSum
    <3> QED BY <3>2, <3>3
  <2> HIDE DEF a, b
  <2> QED BY <2>3, <2>4, <2>5, <2>6
<1>5. b + j - a <= 0
  <2>1. k <= 0
    BY <1>3, <1>4
  <2>2. Epochs * k <= Epochs * 0
    BY <1>3, <2>1, MulOrder
  <2> HIDE DEF k, a, b
  <2> QED BY <1>3, <2>2
<1> HIDE DEF a, b
<1>6. j = 0 /\ a = b
  BY <1>1, <1>5
<1> QED BY <1>6 DEF a, b

-----------------------------------------------------------------------------
(***************************************************************************)
(* The iterator is that of the newest frame.                               *)
(***************************************************************************)
\* On the short-range link the key starts another chain: no frame of the base
\* station passes the check.
LEMMA ShortRejects ==
    ASSUME CryptoInv, Short, NEW n
    PROVE ~Accepts(FrameAt(n))
<1>1. key.dl.start = "00"
  BY DEF CryptoInv, KeysFollow, Follows
<1>2. FrameAt(n).key.start = "FF"
  BY DEF FrameAt
<1> QED BY <1>1, <1>2 DEF Accepts, InEpoch

LEMMA NewestInit == ASSUME Init PROVE DownlinkInv
<1>1. CryptoInv
  BY CryptoInit
<1>2. last = [ram |-> NoFrame, stored |-> NoFrame, ctx |-> NoFrame]
      /\ iter.dl = ZeroIter /\ stored = iter /\ ~Short
  BY DEF Init, Short
<1> QED BY <1>1, <1>2 DEF DownlinkInv, IterIsNewest, IterOf, Numbers

LEMMA NewestCheck ==
    ASSUME DownlinkInv, NEW f, NEW n \in Numbers, Check(f, n),
           n # NoFrame => f = FrameAt(n),
           n = NoFrame => Short
    PROVE IterIsNewest'
<1>0. CryptoInv /\ IterIsNewest /\ TypeOK
  BY DEF DownlinkInv, CryptoInv
<1>1. /\ iter' = [iter EXCEPT !.dl = DlIter(f)] /\ link' = link /\ ctx' = ctx
      /\ stored' = stored
      /\ last' = IF Accepts(f) /\ n # NoFrame THEN [last EXCEPT !.ram = n] ELSE last
  BY DEF Check
<1>2. iter'.dl = DlIter(f)
  BY <1>0, <1>1 DEF TypeOK
<1>3. CASE Short
  <2>1. last' = last
    BY <1>0, <1>1, <1>3, ShortRejects
  <2> QED BY <1>0, <1>1, <1>3, <2>1 DEF IterIsNewest, Short
<1>4. CASE ~Short
  <2>1. n # NoFrame /\ f = FrameAt(n) /\ n \in Nat
    BY <1>4 DEF Numbers
  <2>2. CASE ~Accepts(f)
    <3>1. iter'.dl = iter.dl /\ last' = last
      BY <1>1, <1>2, <1>4, <2>2 DEF DlIter
    <3> QED BY <1>0, <1>1, <1>4, <3>1 DEF IterIsNewest, Short
  <2>3. CASE Accepts(f)
    <3>1. DlIter(f) = IterAt(n)
      BY <1>0, <1>4, <2>1, <2>3, AcceptsIs
    <3>2. last' = [last EXCEPT !.ram = n]
      BY <1>1, <2>1, <2>3
    <3>3. last' \in [ram : Numbers, stored : Numbers, ctx : Numbers]
          /\ last'.ram = n /\ last'.stored = last.stored
      BY <1>0, <3>2 DEF IterIsNewest
    <3> QED BY <1>0, <1>1, <1>2, <1>4, <2>1, <3>1, <3>3 DEF IterIsNewest, Short, IterOf
  <2> QED BY <2>2, <2>3
<1> QED BY <1>3, <1>4

LEMMA NewestSave ==
    ASSUME DownlinkInv, SaveIter, UNCHANGED <<link, iter, ctx>>
    PROVE IterIsNewest'
<1>0. IterIsNewest
  BY DEF DownlinkInv
<1>1. stored' = iter /\ last' = [last EXCEPT !.stored = last.ram]
  BY DEF SaveIter
<1>2. last' \in [ram : Numbers, stored : Numbers, ctx : Numbers]
      /\ last'.ram = last.ram /\ last'.stored = last.ram /\ last'.ctx = last.ctx
  BY <1>0, <1>1 DEF IterIsNewest
<1> QED BY <1>0, <1>1, <1>2 DEF IterIsNewest, Short

\* Steps that leave the downlink iterator alone.
LEMMA NewestStill ==
    ASSUME DownlinkInv, iter'.dl = iter.dl, UNCHANGED <<link, ctx, stored, last>>
    PROVE IterIsNewest'
BY DEF DownlinkInv, IterIsNewest, Short

LEMMA NewestNext ==
    ASSUME StorageIsMain, DownlinkInv, [Next]_vars
    PROVE DownlinkInv'
<1>0. CryptoInv /\ IterIsNewest /\ TypeOK
  BY DEF DownlinkInv, CryptoInv
<1>1. CryptoInv'
  BY <1>0, CryptoNext
<1> SUFFICES IterIsNewest'
  BY <1>1 DEF DownlinkInv
<1>2. CASE StationSends
  BY <1>2, NewestStill DEF StationSends, histVars
<1>3. CASE RxFrame
  <2>1. PICK n \in InAir : Check(FrameAt(n), n)
    BY <1>3 DEF RxFrame
  <2>2. n \in Numbers /\ n # NoFrame
    BY DEF InAir, Numbers, NoFrame
  <2> QED BY <2>1, <2>2, NewestCheck
<1>4. CASE RxPeer
  <2>1. PICK lo \in Lows : Check(PeerFrame(lo), NoFrame)
    BY <1>4 DEF RxPeer
  <2>2. Short /\ NoFrame \in Numbers
    BY <1>4 DEF RxPeer, Numbers
  <2> QED BY <2>1, <2>2, NewestCheck
<1>5. CASE RxDone
  BY <1>5, NewestSave DEF RxDone, SaveAfterRx
<1>6. CASE SendE
  <2>1. iter'.dl = iter.dl
    BY <1>0, <1>6 DEF SendE, Spend, TypeOK
  <2> QED BY <1>6, <2>1, NewestStill DEF SendE
<1>7. CASE TxDone
  BY <1>7, NewestSave DEF TxDone, SaveAfterTx
<1>8. CASE SendD
  <2>1. iter'.dl = iter.dl
    BY <1>0, <1>8 DEF SendD, TypeOK
  <2> QED BY <1>8, <2>1, NewestStill DEF SendD, histVars
<1>9. CASE SwitchTo
  <2>1. /\ ctx' = [key |-> key, iter |-> iter] /\ last' = [last EXCEPT !.ctx = last.ram]
        /\ link' = "short" /\ stored' = stored /\ ~Short
    BY <1>9 DEF SwitchTo
  <2>2. /\ last' \in [ram : Numbers, stored : Numbers, ctx : Numbers]
        /\ last'.ctx = last.ram /\ last'.ram = last.ram
    BY <1>0, <2>1 DEF IterIsNewest
  <2>3. MaxSwitches # 0
    <3>1. switches < MaxSwitches /\ switches \in 0 .. MaxSwitches
      BY <1>0, <1>9 DEF SwitchTo, TypeOK
    <3> QED BY <3>1
  <2>4. ctx'.iter.dl = iter.dl /\ Short'
    BY <2>1 DEF Short
  <2> QED BY <1>0, <2>1, <2>2, <2>3, <2>4 DEF IterIsNewest
<1>10. CASE SwitchFrom
  <2>1. /\ iter' = ctx.iter /\ last' = [last EXCEPT !.ram = last.ctx]
        /\ link' = "main" /\ stored' = stored /\ Short
    BY <1>10 DEF SwitchFrom
  <2>2. /\ last' \in [ram : Numbers, stored : Numbers, ctx : Numbers]
        /\ last'.ram = last.ctx /\ last'.stored = last.stored
    BY <1>0, <2>1 DEF IterIsNewest
  <2>3. ~Short'
    BY <2>1 DEF Short
  <2> QED BY <1>0, <2>1, <2>2, <2>3 DEF IterIsNewest
<1>11. CASE Reset
  <2>1. /\ iter' = stored /\ last' = [last EXCEPT !.ram = last.stored]
        /\ link' = "main" /\ stored' = stored
    BY <1>11 DEF Reset
  <2>2. MaxSwitches = 0
    <3>1. resets < MaxResets /\ resets \in 0 .. MaxResets
      BY <1>0, <1>11 DEF Reset, TypeOK
    <3> QED BY <3>1 DEF StorageIsMain
  <2>3. /\ last' \in [ram : Numbers, stored : Numbers, ctx : Numbers]
        /\ last'.ram = last.stored /\ last'.stored = last.stored
    BY <1>0, <2>1 DEF IterIsNewest
  <2>4. ~Short'
    BY <2>1 DEF Short
  <2> QED BY <1>0, <2>1, <2>2, <2>3, <2>4 DEF IterIsNewest
<1>12. CASE UNCHANGED vars
  BY <1>12, NewestStill DEF vars, histVars
<1> QED
  BY <1>2, <1>3, <1>4, <1>5, <1>6, <1>7, <1>8, <1>9, <1>10, <1>11, <1>12 DEF Next

LEMMA NewestOpensWindow == ASSUME DownlinkInv PROVE WindowAccepted
<1> SUFFICES ASSUME step = "idle", ~Short, NEW n \in 0 .. MaxFrames - 1, n > last.ram,
                    Epoch(n) <= Epoch(last.ram) + ScanDepth
             PROVE Accepts(FrameAt(n)) /\ DlIter(FrameAt(n)) = IterAt(n)
  BY DEF WindowAccepted
<1>0. CryptoInv /\ iter.dl = IterOf(last.ram) /\ last.ram \in Numbers /\ n \in Nat
  BY DEF DownlinkInv, IterIsNewest
<1> SUFFICES \E j \in 0 .. ScanDepth : /\ IterAt(n).hi = Ahead(iter.dl.hi, j)
                                       /\ j = 0 => Newer(iter.dl, IterAt(n).lo)
  BY <1>0, AcceptsIs
<1>1. CASE last.ram = NoFrame
  <2>1. iter.dl = ZeroIter
    BY <1>0, <1>1 DEF IterOf
  <2>2. n \div LowMod \in 0 .. ScanDepth
    BY <1>0, <1>1, IterAtType DEF Epoch, NoFrame
  <2>3. (0 + (n \div LowMod)) % Epochs = Ahead(0 % Epochs, n \div LowMod)
    BY <2>2, AheadIsSum
  <2>4. 0 % Epochs = 0 /\ 0 + (n \div LowMod) = n \div LowMod
    BY <2>2
  <2>5. IterAt(n).hi = (n \div LowMod) % Epochs
    BY <1>0, IterAtType
  <2>6. IterAt(n).hi = Ahead(0, n \div LowMod)
    BY <2>3, <2>4, <2>5
  <2> QED BY <2>1, <2>2, <2>6 DEF Newer, ZeroIter
<1>2. CASE last.ram # NoFrame
  <2>1. last.ram \in Nat /\ iter.dl = IterAt(last.ram)
    BY <1>0, <1>2 DEF IterOf, Numbers
  <2>2. n # NoFrame /\ n \div LowMod <= last.ram \div LowMod + ScanDepth
    BY <1>2 DEF Epoch, NoFrame
  <2>3. PICK j \in 0 .. ScanDepth :
                /\ IterAt(n).hi = Ahead(IterAt(last.ram).hi, j)
                /\ j = 0 => IterAt(last.ram).lo < IterAt(n).lo
    BY <1>0, <2>1, <2>2, NewerIsAhead
  <2> QED BY <2>1, <2>3 DEF Newer
<1> QED BY <1>1, <1>2

\* A frame newer than the last one, at most ScanDepth epochs ahead, passes the
\* check and is decoded with the iterator it was sent with, after any loss,
\* reset or return from the short-range link (nbfi_crypto.c, NBFI_Crypto_mic_check).
THEOREM WindowStaysOpen ==
    ASSUME StorageIsMain PROVE Spec => []WindowAccepted
<1>1. Init => DownlinkInv
  BY NewestInit
<1>2. DownlinkInv /\ [Next]_vars => DownlinkInv'
  BY NewestNext
<1>3. DownlinkInv => WindowAccepted
  BY NewestOpensWindow
<1> QED BY <1>1, <1>2, <1>3, PTL DEF Spec

-----------------------------------------------------------------------------
(***************************************************************************)
(* Each frame once.  The second inductive invariant orders the newest      *)
(* frame in RAM after the one in storage, and those handed over before     *)
(* both; it needs that no frame arrives so late that its epoch comes round *)
(* again in the window of the scan.                                        *)
(***************************************************************************)
DelayFits == MaxDelay <= (Epochs - ScanDepth - 1) * LowMod + 1

HandedInOrder ==
    /\ last.ram < sent
    /\ last.stored <= last.ram
    /\ pending # NoFrame =>
        /\ step = "rx" /\ pending = last.ram
        /\ pending > last.stored \/ IterAt(pending) = ZeroIter
    /\ \A n \in 0 .. MaxFrames - 1 : handed[n] > 0 => n <= last.stored

OnceInv == DownlinkInv /\ HandedInOrder /\ HandedOnce

\* What the check accepts on the main link is newer than all before it, or
\* the newest again with iterator 0.
LEMMA AcceptedIsNewer ==
    ASSUME OnceInv, DelayFits, ~Short, NEW n \in InAir, Accepts(FrameAt(n))
    PROVE n > last.ram \/ (n = last.ram /\ IterAt(n) = ZeroIter)
<1>0. /\ CryptoInv /\ iter.dl = IterOf(last.ram) /\ last.ram \in Numbers /\ n \in Nat
      /\ last.ram < sent
  BY DEF OnceInv, DownlinkInv, IterIsNewest, HandedInOrder, InAir
<1> SUFFICES ASSUME n <= last.ram PROVE n = last.ram /\ IterAt(n) = ZeroIter
  BY <1>0 DEF Numbers, NoFrame
<1>1. last.ram \in Nat /\ iter.dl = IterAt(last.ram)
  BY <1>0 DEF Numbers, NoFrame, IterOf
<1>2. last.ram - n <= (Epochs - ScanDepth - 1) * LowMod
  <2>1. n >= sent - MaxDelay /\ sent \in Nat
    BY <1>0 DEF InAir, CryptoInv, TypeOK
  <2> DEFINE w == (Epochs - ScanDepth - 1) * LowMod
  <2>2. w \in Int
    OBVIOUS
  <2>3. MaxDelay <= w + 1
    BY DEF DelayFits
  <2>4. last.ram - n <= MaxDelay - 1
    BY <1>0, <1>1, <2>1
  <2> HIDE DEF w
  <2>5. last.ram - n <= w
    BY <1>0, <1>1, <2>2, <2>3, <2>4
  <2> QED BY <2>5 DEF w
<1>3. PICK j \in 0 .. ScanDepth : /\ IterAt(n).hi = Ahead(iter.dl.hi, j)
                                  /\ j = 0 => Newer(iter.dl, IterAt(n).lo)
  BY <1>0, AcceptsIs
<1>4. j = 0 /\ n \div LowMod = last.ram \div LowMod
  BY <1>0, <1>1, <1>2, <1>3, OlderIsNotAhead
<1>5. Newer(iter.dl, IterAt(n).lo)
  BY <1>3, <1>4
<1>6. /\ n = LowMod * (n \div LowMod) + IterAt(n).lo
      /\ last.ram = LowMod * (last.ram \div LowMod) + IterAt(last.ram).lo
      /\ IterAt(n).lo \in Nat /\ IterAt(last.ram).lo \in Nat
      /\ LowMod * (n \div LowMod) \in Int
  <2>1. ASSUME NEW m \in Nat
        PROVE m = LowMod * (m \div LowMod) + IterAt(m).lo /\ IterAt(m).lo \in Nat
              /\ LowMod * (m \div LowMod) \in Int
    <3>1. IterAt(m).lo = m % LowMod
      BY IterAtType
    <3>2. m = LowMod * (m \div LowMod) + (m % LowMod) /\ m % LowMod \in 0 .. LowMod - 1
          /\ m \div LowMod \in Int
      BY DivMod
    <3>3. LowMod * (m \div LowMod) \in Int
      BY <3>2, MulSum
    <3> QED BY <3>1, <3>2, <3>3
  <2> QED BY <1>0, <1>1, <2>1
<1>7. ~(IterAt(last.ram).lo < IterAt(n).lo)
  <2> DEFINE q == LowMod * (n \div LowMod)
  <2>1. n = q + IterAt(n).lo /\ last.ram = q + IterAt(last.ram).lo /\ q \in Int
    BY <1>4, <1>6
  <2> HIDE DEF q
  <2> QED BY <1>0, <1>1, <1>6, <2>1
<1>8. iter.dl = ZeroIter
  BY <1>1, <1>5, <1>7 DEF Newer
<1>9. IterAt(last.ram).lo = 0
  BY <1>1, <1>8 DEF ZeroIter
<1>10. n = last.ram
  <2> DEFINE q == LowMod * (n \div LowMod)
  <2>1. n = q + IterAt(n).lo /\ last.ram = q + 0 /\ q \in Int
    BY <1>4, <1>6, <1>9
  <2> HIDE DEF q
  <2> QED BY <1>0, <1>1, <1>6, <2>1
<1> QED BY <1>1, <1>8, <1>10

LEMMA OnceInit == ASSUME Init PROVE OnceInv
<1>1. DownlinkInv
  BY NewestInit
<1>2. HandedInOrder
  BY DEF Init, HandedInOrder, NoFrame
<1>3. HandedOnce
  BY DEF Init, HandedOnce
<1> QED BY <1>1, <1>2, <1>3 DEF OnceInv

LEMMA OnceCheck ==
    ASSUME OnceInv, DelayFits, NEW f, NEW n \in {NoFrame} \cup InAir, Check(f, n),
           n # NoFrame => f = FrameAt(n),
           n = NoFrame => Short
    PROVE HandedInOrder' /\ HandedOnce'
<1>0. /\ DownlinkInv /\ HandedInOrder /\ HandedOnce /\ CryptoInv
      /\ last \in [ram : Numbers, stored : Numbers, ctx : Numbers]
  BY DEF OnceInv, DownlinkInv, IterIsNewest
<1>1. /\ handed' = handed /\ sent' = sent
      /\ step' = IF Accepts(f) THEN "rx" ELSE "idle"
      /\ pending' = IF Accepts(f) THEN n ELSE NoFrame
      /\ last' = IF Accepts(f) /\ n # NoFrame THEN [last EXCEPT !.ram = n] ELSE last
  BY DEF Check
<1>2. HandedOnce'
  BY <1>0, <1>1 DEF HandedOnce
<1>3. CASE ~Accepts(f) \/ n = NoFrame
  <2>1. last' = last /\ pending' = NoFrame
    BY <1>1, <1>3
  <2> QED BY <1>0, <1>1, <1>2, <2>1 DEF HandedInOrder
<1>4. CASE Accepts(f) /\ n # NoFrame
  <2>1. f = FrameAt(n) /\ n \in InAir
    BY <1>4
  <2>2. ~Short
    BY <1>0, <1>4, <2>1, ShortRejects
  <2>3. n > last.ram \/ (n = last.ram /\ IterAt(n) = ZeroIter)
    BY <1>4, <2>1, <2>2, AcceptedIsNewer
  <2>4. /\ last'.ram = n /\ last'.stored = last.stored
        /\ pending' = n /\ step' = "rx"
    BY <1>0, <1>1, <1>4
  <2>5. n < sent /\ last.ram \in Int /\ last.stored \in Int /\ n \in Int
    BY <1>0, <2>1 DEF InAir, Numbers, NoFrame
  <2> QED BY <1>0, <1>1, <1>2, <2>3, <2>4, <2>5 DEF HandedInOrder
<1> QED BY <1>3, <1>4

\* Steps that hand nothing over and accept nothing.
LEMMA OnceStill ==
    ASSUME OnceInv, handed' = handed, sent' \in Int, sent' >= sent,
           last' = last, pending' = pending, pending # NoFrame => step' = step
    PROVE HandedInOrder' /\ HandedOnce'
<1>0. /\ HandedInOrder /\ HandedOnce /\ sent \in Int
      /\ last \in [ram : Numbers, stored : Numbers, ctx : Numbers]
  BY DEF OnceInv, DownlinkInv, IterIsNewest, CryptoInv, TypeOK
<1>1. last.ram \in Int
  BY <1>0 DEF Numbers, NoFrame
<1>2. HandedOnce'
  BY <1>0 DEF HandedOnce
<1>3. last'.ram < sent'
  BY <1>0, <1>1 DEF HandedInOrder
<1> QED BY <1>0, <1>2, <1>3 DEF HandedInOrder

LEMMA OnceNext ==
    ASSUME StorageIsMain, DelayFits, OnceInv, [Next]_vars
    PROVE OnceInv'
<1>0. /\ DownlinkInv /\ HandedInOrder /\ HandedOnce /\ TypeOK
      /\ last \in [ram : Numbers, stored : Numbers, ctx : Numbers]
      /\ sent \in Int /\ pending \in Numbers
      /\ handed \in [0 .. MaxFrames - 1 -> 0 .. 2]
  BY DEF OnceInv, DownlinkInv, IterIsNewest, CryptoInv, TypeOK, Numbers
<1>1. DownlinkInv'
  BY <1>0, NewestNext
<1> SUFFICES HandedInOrder' /\ HandedOnce'
  BY <1>1 DEF OnceInv
<1>2. CASE StationSends
  BY <1>0, <1>2, OnceStill DEF StationSends, histVars
<1>3. CASE RxFrame
  <2>1. PICK n \in InAir : Check(FrameAt(n), n)
    BY <1>3 DEF RxFrame
  <2>2. n # NoFrame
    BY DEF InAir, NoFrame
  <2> QED BY <2>1, <2>2, OnceCheck
<1>4. CASE RxPeer
  <2>1. PICK lo \in Lows : Check(PeerFrame(lo), NoFrame)
    BY <1>4 DEF RxPeer
  <2> QED BY <1>4, <2>1, OnceCheck DEF RxPeer
<1>5. CASE RxDone
  <2>1. /\ pending' = NoFrame /\ sent' = sent
        /\ last' = [last EXCEPT !.stored = last.ram]
        /\ handed' = IF pending = NoFrame THEN handed
                     ELSE [handed EXCEPT ![pending] = IF @ < 2 THEN @ + 1 ELSE @]
    BY <1>5 DEF RxDone, SaveAfterRx, SaveIter
  <2>2. /\ last'.ram = last.ram /\ last'.stored = last.ram
        /\ last.ram \in Int /\ last.stored \in Int
    BY <1>0, <2>1 DEF Numbers, NoFrame
  <2>3. CASE pending = NoFrame
    <3>1. handed' = handed
      BY <2>1, <2>3
    <3>2. HandedOnce'
      BY <1>0, <3>1 DEF HandedOnce
    <3> QED BY <1>0, <2>1, <2>2, <3>1, <3>2 DEF HandedInOrder
  <2>4. CASE pending # NoFrame
    <3>1. /\ pending \in 0 .. MaxFrames - 1 /\ pending = last.ram
          /\ pending > last.stored \/ IterAt(pending) = ZeroIter
      BY <1>0, <2>4 DEF HandedInOrder, Numbers
    <3>2. handed' = [handed EXCEPT ![pending] = IF handed[pending] < 2
                                                THEN handed[pending] + 1
                                                ELSE handed[pending]]
      BY <2>1, <2>4
    <3>3. \A n \in 0 .. MaxFrames - 1 : n # pending => handed'[n] = handed[n]
      BY <1>0, <3>2
    <3>4. \A n \in 0 .. MaxFrames - 1 : handed'[n] > 0 => n <= last.ram
      BY <1>0, <2>2, <3>1, <3>3 DEF HandedInOrder
    <3>5. IterAt(pending) # ZeroIter => handed'[pending] <= 1
      <4>1. ASSUME IterAt(pending) # ZeroIter PROVE handed'[pending] <= 1
        <5>1. ~(handed[pending] > 0)
          BY <1>0, <2>2, <3>1, <4>1 DEF HandedInOrder
        <5>2. handed[pending] = 0
          BY <1>0, <3>1, <5>1
        <5> QED BY <1>0, <3>1, <3>2, <5>2
      <4> QED BY <4>1
    <3>6. HandedOnce'
      BY <1>0, <3>3, <3>5 DEF HandedOnce
    <3> QED BY <1>0, <2>1, <2>2, <3>4, <3>6 DEF HandedInOrder
  <2> QED BY <2>3, <2>4
<1>6. CASE SendE
  <2>1. pending = NoFrame
    BY <1>0, <1>6 DEF SendE, HandedInOrder
  <2> QED BY <1>0, <1>6, <2>1, OnceStill DEF SendE
<1>7. CASE TxDone
  <2>1. /\ pending' = pending /\ sent' = sent /\ handed' = handed
        /\ last' = [last EXCEPT !.stored = last.ram]
    BY <1>7 DEF TxDone, SaveAfterTx, SaveIter
  <2>2. /\ last'.ram = last.ram /\ last'.stored = last.ram
        /\ last.ram \in Int /\ last.stored \in Int
    BY <1>0, <2>1 DEF Numbers, NoFrame
  <2>3. pending = NoFrame
    BY <1>0, <1>7 DEF TxDone, HandedInOrder
  <2>4. HandedOnce'
    BY <1>0, <2>1 DEF HandedOnce
  <2>5. \A n \in 0 .. MaxFrames - 1 : handed[n] > 0 => n <= last.ram
    BY <1>0, <2>2 DEF HandedInOrder
  <2> QED BY <1>0, <2>1, <2>2, <2>3, <2>4, <2>5 DEF HandedInOrder
<1>8. CASE SendD
  BY <1>0, <1>8, OnceStill DEF SendD, histVars
<1>9. CASE SwitchTo
  <2>1. /\ pending' = pending /\ sent' = sent /\ handed' = handed /\ step' = step
        /\ last' = [last EXCEPT !.ctx = last.ram]
    BY <1>9 DEF SwitchTo
  <2>2. last'.ram = last.ram /\ last'.stored = last.stored
    BY <1>0, <2>1
  <2>3. HandedOnce'
    BY <1>0, <2>1 DEF HandedOnce
  <2> QED BY <1>0, <2>1, <2>2, <2>3 DEF HandedInOrder
<1>10. CASE SwitchFrom
  <2>1. /\ pending' = pending /\ sent' = sent /\ handed' = handed /\ step' = step
        /\ last' = [last EXCEPT !.ram = last.ctx] /\ Short
    BY <1>10 DEF SwitchFrom
  <2>2. last.ctx = last.ram
    BY <1>0, <2>1 DEF DownlinkInv, IterIsNewest
  <2>3. last'.ram = last.ram /\ last'.stored = last.stored
    BY <1>0, <2>1, <2>2
  <2>4. HandedOnce'
    BY <1>0, <2>1 DEF HandedOnce
  <2> QED BY <1>0, <2>1, <2>3, <2>4 DEF HandedInOrder
<1>11. CASE Reset
  <2>1. /\ pending' = NoFrame /\ sent' = sent /\ handed' = handed
        /\ last' = [last EXCEPT !.ram = last.stored]
    BY <1>11 DEF Reset
  <2>2. /\ last'.ram = last.stored /\ last'.stored = last.stored
        /\ last.ram \in Int /\ last.stored \in Int
    BY <1>0, <2>1 DEF Numbers, NoFrame
  <2>3. HandedOnce'
    BY <1>0, <2>1 DEF HandedOnce
  <2>4. last'.ram < sent'
    BY <1>0, <2>1, <2>2 DEF HandedInOrder
  <2> QED BY <1>0, <2>1, <2>2, <2>3, <2>4 DEF HandedInOrder
<1>12. CASE UNCHANGED vars
  BY <1>0, <1>12, OnceStill DEF vars, histVars
<1> QED
  BY <1>2, <1>3, <1>4, <1>5, <1>6, <1>7, <1>8, <1>9, <1>10, <1>11, <1>12 DEF Next

\* The transport gets each frame of the base station once, however often it
\* arrives and wherever a reset falls between the check, the saving of the
\* iterator and the parsing (nbfi_mac.c, NBFi_MAC_RX_ProtocolD), if no frame
\* is so late that its epoch number comes round again.
THEOREM FramesHandedOnce ==
    ASSUME StorageIsMain, DelayFits PROVE Spec => []HandedOnce
<1>1. Init => OnceInv
  BY OnceInit
<1>2. OnceInv /\ [Next]_vars => OnceInv'
  BY OnceNext
<1>3. OnceInv => HandedOnce
  BY DEF OnceInv
<1> QED BY <1>1, <1>2, <1>3, PTL DEF Spec

-----------------------------------------------------------------------------
(***************************************************************************)
(* Uplink.  While frames are left, the iterators used so far lie below     *)
(* some top, and those between the current one and the top are what may    *)
(* still be used again; a reset takes the iterator back to storage, by no  *)
(* more than the calls that have not saved it yet.                         *)
(***************************************************************************)
UplinkFits == MaxUl <= LowMod * Epochs

Number(it) == LowMod * it.hi + it.lo
Cost       == IF Aloha THEN 2 ELSE 1        \* of a reset
MainUl     == IF Short THEN ctx.iter.ul ELSE iter.ul
Unsaved    == IF step = "tx" THEN Cost ELSE IF step = "again" THEN 1 ELSE 0

Below(top) == /\ \A u \in used : Number(u[2]) < top
              /\ Number(MainUl) <= top
              /\ reused + (top - Number(MainUl)) <= resets * Cost

UplinkOpen ==
    /\ Number(MainUl) + ulLeft <= MaxUl
    /\ \E top \in Nat : Below(top)
    /\ MaxSwitches = 0 => /\ Number(stored.ul) <= Number(MainUl)
                          /\ Number(MainUl) <= Number(stored.ul) + Unsaved

SecondIsLast == step = "again" => Aloha /\ parity

ReuseInv == /\ CryptoInv
            /\ ReuseBounded
            /\ SecondIsLast
            /\ MaxSwitches = 0 => ~Short
            /\ ulLeft > 0 => UplinkOpen

LEMMA NumberType ==
    ASSUME NEW it \in Iter
    PROVE Number(it) \in Nat
<1>1. it.hi \in Nat /\ it.lo \in Nat
  BY DEF Iter, EpochNums, Lows
<1> QED BY <1>1 DEF Number

LEMMA MainUlType == ASSUME TypeOK PROVE MainUl \in Iter /\ stored.ul \in Iter
BY DEF TypeOK, MainUl

\* Before the end of the 20 bits the next iterator has the next number.
LEMMA NumberNext ==
    ASSUME NEW it \in Iter, ~Short, Number(it) + 1 < LowMod * Epochs
    PROVE Number(IncIter(it)) = Number(it) + 1
<1>1. it.hi \in 0 .. Epochs - 1 /\ it.lo \in 0 .. LowMod - 1
  BY DEF Iter, EpochNums, Lows
<1>2. CASE ~Carries(it)
  <2>1. IncIter(it) = [it EXCEPT !.lo = @ + 1, !.hi = @]
    BY <1>2 DEF IncIter
  <2>2. IncIter(it).hi = it.hi /\ IncIter(it).lo = it.lo + 1
    BY <2>1 DEF Iter
  <2>3. LowMod * it.hi \in Int
    BY <1>1
  <2> QED BY <1>1, <2>2, <2>3 DEF Number
<1>3. CASE Carries(it)
  <2>1. LowMod * (it.hi + 1) = LowMod * it.hi + LowMod * 1 /\ LowMod * it.hi \in Int
    BY <1>1, MulSum
  <2>2. Number(it) + 1 = LowMod * (it.hi + 1)
    BY <1>1, <1>3, <2>1 DEF Number, Carries
  <2>3. it.hi + 1 < Epochs
    <3> SUFFICES ASSUME Epochs <= it.hi + 1 PROVE FALSE
      BY <1>1
    <3>1. LowMod * Epochs <= LowMod * (it.hi + 1)
      BY <1>1, MulOrder
    <3> QED BY <1>1, <2>2, <3>1
  <2>4. IncIter(it).hi = it.hi + 1 /\ IncIter(it).lo = 0
    BY <1>1, <1>3, <2>3 DEF IncIter, Ahead
  <2> QED BY <1>1, <2>2, <2>4 DEF Number
<1> QED BY <1>2, <1>3

LEMMA ReuseInit == ASSUME Init PROVE ReuseInv
<1>1. CryptoInv
  BY CryptoInit
<1>2. ReuseBounded /\ ~Short /\ step = "idle"
  BY DEF Init, ReuseBounded, Short
<1>3. Number(MainUl) = 0 /\ Number(stored.ul) = 0
  BY DEF Init, MainUl, Short, Number, ZeroIter
<1>4. Below(0)
  <2>1. used = {} /\ reused = 0 /\ resets = 0 /\ 0 * Cost = 0
    BY DEF Init, Cost
  <2> QED BY <1>3, <2>1 DEF Below
<1>5. UplinkOpen
  <2>1. Number(MainUl) + ulLeft <= MaxUl
    BY <1>3 DEF Init
  <2>2. Number(stored.ul) <= Number(MainUl)
        /\ Number(MainUl) <= Number(stored.ul) + Unsaved
    BY <1>2, <1>3 DEF Unsaved
  <2>3. 0 \in Nat
    OBVIOUS
  <2> QED BY <1>4, <2>1, <2>2, <2>3 DEF UplinkOpen
<1> QED BY <1>1, <1>2, <1>5 DEF ReuseInv, SecondIsLast

\* What the main link may spend: the used set and the reuse count stay below
\* the same top, or the top grows with the frame.
LEMMA SpendBelow ==
    ASSUME TypeOK, ~Short, NEW top \in Nat, Below(top), Spend, UNCHANGED <<link, resets>>,
           Number(iter.ul) + 1 < LowMod * Epochs
    PROVE /\ \E t \in Nat : Below(t)'
          /\ Number(MainUl') = Number(MainUl) + 1
          /\ MainUl' = IncIter(iter.ul)
<1>0. iter.ul \in Iter /\ MainUl = iter.ul /\ reused \in Nat /\ resets \in Nat
  BY DEF TypeOK, MainUl
<1>1. MainUl' = IncIter(iter.ul)
  BY <1>0 DEF MainUl, Spend, TypeOK, Short
<1>2. Number(MainUl') = Number(MainUl) + 1 /\ Number(MainUl) \in Nat
  BY <1>0, <1>1, NumberNext, NumberType
<1>3. resets * Cost \in Int /\ (resets * Cost)' = resets * Cost
  BY <1>0 DEF Cost
<1>4. used' = used \cup {<<key.ul, iter.ul>>}
      /\ reused' = IF <<key.ul, iter.ul>> \in used THEN reused + 1 ELSE reused
  BY DEF Spend
<1>5. /\ \A u \in used : Number(u[2]) < top
      /\ Number(MainUl) <= top
      /\ reused + (top - Number(MainUl)) <= resets * Cost
  BY DEF Below
<1>6. \A u \in used : Number(u[2]) \in Int
  <2>1. \A u \in used : u[2] \in Iter
    BY DEF TypeOK
  <2> QED BY <2>1, NumberType
<1> DEFINE m == Number(MainUl)
           w == resets * Cost
<1>7. /\ \A t : Below(t)' <=> /\ \A u \in used' : Number(u[2]) < t
                              /\ m + 1 <= t
                              /\ reused' + (t - (m + 1)) <= w
  BY <1>2, <1>3 DEF Below, Number
<1>8. m \in Nat /\ w \in Int /\ m <= top /\ reused + (top - m) <= w
  BY <1>2, <1>3, <1>5
<1>9. <<key.ul, iter.ul>>[2] = iter.ul /\ Number(iter.ul) = m
  BY <1>0
<1> HIDE DEF m, w
<1>10. CASE <<key.ul, iter.ul>> \in used
  <2>1. m < top
    BY <1>5, <1>9, <1>10
  <2>2. \A u \in used' : Number(u[2]) < top
    BY <1>4, <1>5, <1>10
  <2>3. reused' = reused + 1
    BY <1>4, <1>10
  <2>4. reused' + (top - (m + 1)) <= w /\ m + 1 <= top
    BY <1>0, <1>8, <2>1, <2>3
  <2>5. Below(top)'
    BY <1>7, <2>2, <2>4
  <2> QED BY <1>1, <1>2, <2>5
<1>11. CASE <<key.ul, iter.ul>> \notin used /\ m < top
  <2>1. \A u \in used' : Number(u[2]) < top
    BY <1>4, <1>5, <1>9, <1>11
  <2>2. reused' = reused
    BY <1>4, <1>11
  <2>3. reused' + (top - (m + 1)) <= w /\ m + 1 <= top
    BY <1>0, <1>8, <1>11, <2>2
  <2>4. Below(top)'
    BY <1>7, <2>1, <2>3
  <2> QED BY <1>1, <1>2, <2>4
<1>12. CASE <<key.ul, iter.ul>> \notin used /\ ~(m < top)
  <2>1. m = top
    BY <1>8, <1>12
  <2>2. \A u \in used' : Number(u[2]) < top + 1
    BY <1>4, <1>5, <1>6, <1>8, <1>9, <2>1
  <2>3. reused' = reused
    BY <1>4, <1>12
  <2>4. reused' + (top + 1 - (m + 1)) <= w /\ m + 1 <= top + 1
    BY <1>0, <1>8, <2>1, <2>3
  <2>5. PICK t \in Nat : t = top + 1
    OBVIOUS
  <2>6. /\ \A u \in used' : Number(u[2]) < t
        /\ m + 1 <= t
        /\ reused' + (t - (m + 1)) <= w
    <3>1. \A u \in used' : Number(u[2]) < t
      BY <2>2, <2>5
    <3>2. m + 1 <= t /\ reused' + (t - (m + 1)) <= w
      BY <1>0, <1>8, <2>3, <2>4, <2>5
    <3> QED BY <3>1, <3>2
  <2>7. Below(t)'
    BY <1>7, <2>6
  <2> QED BY <1>1, <1>2, <2>7
<1> QED BY <1>10, <1>11, <1>12

\* A frame that uses an iterator again takes one below the top.
LEMMA SpendBounded ==
    ASSUME TypeOK, ~Short, ReuseBounded, NEW top \in Nat, Below(top), Spend, resets' = resets
    PROVE ReuseBounded'
<1> DEFINE m == Number(iter.ul)
           w == resets * Cost
<1>0. m \in Nat /\ reused \in Nat /\ MainUl = iter.ul
  BY NumberType DEF TypeOK, MainUl
<1>1. w \in Int
  BY DEF TypeOK, Cost
<1>2. (\A u \in used : Number(u[2]) < top) /\ reused + (top - m) <= w
  BY <1>0 DEF Below
<1>3. reused <= w /\ (ReuseBounded' <=> reused' <= w)
  BY DEF ReuseBounded, Cost
<1> HIDE DEF w
<1>4. CASE <<key.ul, iter.ul>> \in used
  <2>1. <<key.ul, iter.ul>>[2] = iter.ul
    OBVIOUS
  <2>2. m < top
    BY <1>2, <1>4, <2>1
  <2>3. reused' = reused + 1
    BY <1>4 DEF Spend
  <2> HIDE DEF m
  <2> QED BY <1>0, <1>1, <1>2, <1>3, <2>2, <2>3
<1>5. CASE <<key.ul, iter.ul>> \notin used
  BY <1>3, <1>5 DEF Spend
<1> QED BY <1>4, <1>5

\* Steps that spend nothing.
LEMMA ReuseStill ==
    ASSUME ReuseInv, CryptoInv', UNCHANGED <<used, reused, resets>>,
           MainUl' = MainUl, ulLeft' <= ulLeft,
           SecondIsLast',
           MaxSwitches = 0 => ~Short',
           MaxSwitches = 0 /\ UplinkOpen =>
               /\ Number(stored'.ul) <= Number(MainUl)
               /\ Number(MainUl) <= Number(stored'.ul) + Unsaved'
    PROVE ReuseInv'
<1>0. TypeOK /\ TypeOK' /\ ReuseBounded /\ (ulLeft > 0 => UplinkOpen)
  BY DEF ReuseInv, CryptoInv
<1>1. ulLeft \in Nat /\ ulLeft' \in Nat /\ Number(MainUl) \in Nat
  <2>1. ulLeft \in Nat /\ ulLeft' \in Nat
    BY <1>0 DEF TypeOK
  <2> QED BY <1>0, <2>1, MainUlType, NumberType
<1>2. ReuseBounded'
  BY <1>0 DEF ReuseBounded
<1>3. ASSUME ulLeft' > 0 PROVE UplinkOpen'
  <2>1. UplinkOpen
    BY <1>0, <1>1, <1>3
  <2>2. Number(MainUl') = Number(MainUl)
    OBVIOUS
  <2>3. Number(MainUl') + ulLeft' <= MaxUl
    BY <1>1, <2>1, <2>2 DEF UplinkOpen
  <2>4. PICK top \in Nat : Below(top)
    BY <2>1 DEF UplinkOpen
  <2>5. Below(top)'
    BY <2>4 DEF Below, Number
  <2> QED BY <2>1, <2>2, <2>3, <2>5 DEF UplinkOpen, Number
<1> QED BY <1>2, <1>3 DEF ReuseInv

LEMMA ReuseSendE == ASSUME UplinkFits, ReuseInv, CryptoInv', SendE PROVE ReuseInv'
<1>0. /\ TypeOK /\ ReuseBounded /\ ~Short /\ UplinkOpen
      /\ ulLeft \in Nat /\ ulLeft > 0 /\ ulLeft' = ulLeft - 1
      /\ step' \in {"again", "tx"}
      /\ step = "idle" \/ (step = "again" /\ step' = "tx" /\ Aloha)
      /\ SecondIsLast'
      /\ UNCHANGED <<link, ctx, stored, resets>>
  <2>1. /\ TypeOK /\ ReuseBounded /\ ~Short /\ UplinkOpen
        /\ ulLeft \in Nat /\ ulLeft > 0 /\ ulLeft' = ulLeft - 1
        /\ UNCHANGED <<link, ctx, stored, resets>>
    BY DEF SendE, ReuseInv, CryptoInv, TypeOK
  <2>2. /\ step \in {"idle", "again"} /\ parity' = ~parity
        /\ step' = IF Aloha /\ ~parity THEN "again" ELSE "tx"
        /\ (step = "again" => Aloha /\ parity)
    BY DEF SendE, ReuseInv, SecondIsLast
  <2>3. CASE Aloha /\ ~parity
    <3>1. step' = "again" /\ parity' /\ step = "idle"
      BY <2>2, <2>3
    <3> QED BY <2>1, <2>3, <3>1 DEF SecondIsLast
  <2>4. CASE ~(Aloha /\ ~parity)
    <3>1. step' = "tx"
      BY <2>2, <2>4
    <3> QED BY <2>1, <2>2, <3>1 DEF SecondIsLast
  <2> QED BY <2>3, <2>4
<1>1. Unsaved \in Nat /\ Unsaved' \in Nat /\ Unsaved' >= Unsaved + 1
  BY <1>0 DEF Unsaved, Cost
<1>2. /\ Number(MainUl) \in Nat /\ Number(stored.ul) \in Nat /\ MainUl = iter.ul
      /\ Number(stored'.ul) = Number(stored.ul)
  BY <1>0, MainUlType, NumberType DEF MainUl
<1>3. CASE Spend
  <2>1. PICK top \in Nat : Below(top)
    BY <1>0 DEF UplinkOpen
  <2>2. ReuseBounded'
    BY <1>0, <1>3, <2>1, SpendBounded
  <2>3. ASSUME ulLeft' > 0 PROVE UplinkOpen'
    <3> DEFINE e == LowMod * Epochs
               p == Number(MainUl)
    <3>1. p + ulLeft <= MaxUl /\ MaxUl <= e /\ e \in Int
      BY <1>0 DEF UplinkOpen, UplinkFits
    <3>2. p + 1 < e
      <4> HIDE DEF e, p
      <4>1. p \in Nat
        BY <1>2 DEF p
      <4> QED BY <1>0, <2>3, <3>1, <4>1
    <3>3. /\ \E t \in Nat : Below(t)'
          /\ Number(MainUl') = p + 1
      BY <1>0, <1>2, <1>3, <2>1, <3>2, SpendBelow
    <3>4. Number(MainUl') + ulLeft' <= MaxUl
      <4> HIDE DEF p
      <4>1. p \in Nat
        BY <1>2 DEF p
      <4> QED BY <1>0, <3>1, <3>3, <4>1
    <3>5. MaxSwitches = 0 => /\ Number(stored'.ul) <= Number(MainUl')
                             /\ Number(MainUl') <= Number(stored'.ul) + Unsaved'
      <4> SUFFICES ASSUME MaxSwitches = 0
                   PROVE /\ Number(stored'.ul) <= Number(MainUl')
                         /\ Number(MainUl') <= Number(stored'.ul) + Unsaved'
        OBVIOUS
      <4>1. /\ Number(stored.ul) <= Number(MainUl)
            /\ Number(MainUl) <= Number(stored.ul) + Unsaved
        BY <1>0 DEF UplinkOpen
      <4> QED BY <1>1, <1>2, <3>3, <4>1
    <3> QED BY <3>3, <3>4, <3>5 DEF UplinkOpen, Number
  <2> QED BY <1>0, <1>1, <2>2, <2>3 DEF ReuseInv, Short
<1>4. CASE UNCHANGED <<iter, key, used, reused, wrapped>>
  <2>1. MainUl' = MainUl
    BY <1>0, <1>4 DEF MainUl, Short
  <2> QED BY <1>0, <1>1, <1>2, <1>4, <2>1, ReuseStill DEF UplinkOpen, ReuseInv, Short
<1> QED BY <1>3, <1>4 DEF SendE

LEMMA ReuseNext ==
    ASSUME UplinkFits, StorageIsMain, ReuseInv, [Next]_vars
    PROVE ReuseInv'
<1>0. /\ CryptoInv /\ TypeOK /\ SecondIsLast /\ (MaxSwitches = 0 => ~Short)
      /\ ulLeft \in Nat
  BY DEF ReuseInv, CryptoInv, TypeOK
<1>1. CryptoInv'
  BY <1>0, CryptoNext
<1>2. /\ Number(MainUl) \in Nat /\ Number(stored.ul) \in Nat
      /\ (UplinkOpen /\ MaxSwitches = 0 => /\ Number(stored.ul) <= Number(MainUl)
                                           /\ Number(MainUl) <= Number(stored.ul) + Unsaved)
  BY <1>0, MainUlType, NumberType DEF UplinkOpen
\* A handler ends: nothing is unsaved, or nothing was saved and nothing spent.
<1>3. ASSUME step' \in {"idle", "rx"}, UNCHANGED <<used, reused, resets>>, MainUl' = MainUl,
             ulLeft' <= ulLeft, MaxSwitches = 0 => ~Short',
             MaxSwitches = 0 => \/ stored' = iter
                                \/ stored' = stored /\ step = "idle"
      PROVE ReuseInv'
  <2>1. SecondIsLast'
    BY <1>3 DEF SecondIsLast
  <2>2. ASSUME MaxSwitches = 0, UplinkOpen
        PROVE /\ Number(stored'.ul) <= Number(MainUl)
              /\ Number(MainUl) <= Number(stored'.ul) + Unsaved'
    <3>1. Unsaved' = 0 /\ MainUl = iter.ul
      BY <1>0, <1>3, <2>2 DEF Unsaved, MainUl
    <3>2. CASE stored' = iter
      BY <1>2, <3>1, <3>2
    <3>3. CASE stored' = stored /\ step = "idle"
      <4>1. Unsaved = 0
        BY <3>3 DEF Unsaved
      <4>2. Number(stored'.ul) = Number(stored.ul)
        BY <3>3
      <4> QED BY <1>2, <2>2, <3>1, <4>1, <4>2
    <3> QED BY <1>3, <2>2, <3>2, <3>3
  <2> QED BY <1>1, <1>3, <2>1, <2>2, ReuseStill
<1>4. CASE StationSends
  <2>1. /\ MainUl' = MainUl /\ SecondIsLast' /\ Unsaved' = Unsaved
        /\ (MaxSwitches = 0 => ~Short') /\ stored' = stored
    BY <1>0, <1>4 DEF StationSends, MainUl, Short, SecondIsLast, Unsaved
  <2> QED BY <1>0, <1>1, <1>2, <1>4, <2>1, ReuseStill DEF StationSends, histVars, boundVars
<1>5. ASSUME NEW f, NEW n, Check(f, n) PROVE ReuseInv'
  <2>1. iter'.ul = iter.ul
    BY <1>0, <1>5 DEF Check, TypeOK
  <2>2. MainUl' = MainUl /\ (MaxSwitches = 0 => ~Short')
    BY <1>0, <1>5, <2>1 DEF Check, MainUl, Short
  <2>3. /\ step' \in {"idle", "rx"} /\ UNCHANGED <<used, reused, resets, ulLeft, stored>>
        /\ step = "idle"
    BY <1>5 DEF Check, boundVars
  <2> QED BY <1>0, <1>3, <2>2, <2>3
<1>6. CASE RxDone
  <2>1. /\ MainUl' = MainUl /\ (MaxSwitches = 0 => ~Short') /\ stored' = iter
        /\ step' = "idle" /\ UNCHANGED <<used, reused, resets, ulLeft>>
    BY <1>0, <1>6 DEF RxDone, SaveAfterRx, SaveIter, MainUl, Short, boundVars
  <2> QED BY <1>0, <1>3, <2>1
<1>7. CASE SendE
  BY <1>1, <1>7, ReuseSendE
<1>8. CASE TxDone
  <2>1. /\ MainUl' = MainUl /\ (MaxSwitches = 0 => ~Short') /\ stored' = iter
        /\ step' = "idle" /\ UNCHANGED <<used, reused, resets, ulLeft>>
    BY <1>0, <1>8 DEF TxDone, SaveAfterTx, SaveIter, MainUl, Short, boundVars
  <2> QED BY <1>0, <1>3, <2>1
<1>9. CASE SendD
  <2>1. /\ MainUl' = MainUl /\ (MaxSwitches = 0 => ~Short') /\ stored' = stored
        /\ step = "idle" /\ step' = "idle" /\ UNCHANGED <<used, reused, resets>>
        /\ ulLeft' = ulLeft - 1
    BY <1>0, <1>9 DEF SendD, MainUl, Short, histVars
  <2> QED BY <1>0, <1>3, <2>1
<1>10. CASE SwitchTo
  <2>1. MaxSwitches # 0
    <3>1. switches < MaxSwitches /\ switches \in 0 .. MaxSwitches
      BY <1>0, <1>10 DEF SwitchTo, TypeOK
    <3> QED BY <3>1
  <2>2. /\ ~Short /\ Short' /\ ctx'.iter = iter
    BY <1>10 DEF SwitchTo, Short
  <2>3. /\ MainUl' = MainUl /\ step' = "idle" /\ UNCHANGED <<used, reused, resets, ulLeft>>
    BY <1>10, <2>2 DEF SwitchTo, MainUl
  <2> QED BY <1>0, <1>3, <2>1, <2>3
<1>11. CASE SwitchFrom
  <2>1. /\ Short /\ ~Short' /\ iter' = ctx.iter
    BY <1>11 DEF SwitchFrom, Short
  <2>2. /\ MainUl' = MainUl /\ step' = "idle"
        /\ UNCHANGED <<used, reused, resets, ulLeft>>
    BY <1>11, <2>1 DEF SwitchFrom, MainUl, boundVars
  <2> QED BY <1>0, <1>3, <2>1, <2>2
<1>12. CASE Reset
  <2>1. resets < MaxResets /\ resets \in 0 .. MaxResets
    BY <1>0, <1>12 DEF Reset, TypeOK
  <2>2. MaxSwitches = 0
    BY <2>1 DEF StorageIsMain
  <2>3. /\ ~Short' /\ iter' = stored /\ step' = "idle" /\ resets' = resets + 1
        /\ UNCHANGED <<stored, used, reused, ulLeft>>
    BY <1>12 DEF Reset, Short
  <2>4. MainUl' = stored.ul /\ SecondIsLast'
    BY <2>3 DEF MainUl, SecondIsLast
  <2>5. resets * Cost \in Int /\ (resets + 1) * Cost = resets * Cost + Cost
        /\ Cost \in Nat /\ reused \in Nat
    <3>1. resets \in Int /\ Cost \in Int /\ reused \in Nat
      BY <2>1, <1>0 DEF Cost, TypeOK
    <3> QED BY <3>1, MulSum DEF Cost
  <2>6. reused <= resets * Cost
    BY DEF ReuseInv, ReuseBounded, Cost
  <2>7. ReuseBounded'
    <3>1. reused' <= resets' * Cost
      BY <2>3, <2>5, <2>6
    <3> QED BY <3>1 DEF ReuseBounded, Cost
  <2>8. ASSUME ulLeft' > 0 PROVE UplinkOpen'
    <3>1. UplinkOpen
      BY <2>3, <2>8 DEF ReuseInv
    <3>2. /\ Number(stored.ul) <= Number(MainUl)
          /\ Number(MainUl) <= Number(stored.ul) + Cost
          /\ Number(MainUl) + ulLeft <= MaxUl
      BY <1>2, <2>2, <2>5, <3>1 DEF UplinkOpen, Unsaved, Cost
    <3>3. PICK top \in Nat : Below(top)
      BY <3>1 DEF UplinkOpen
    <3>4. Below(top)'
      <4>1. Number(stored.ul) <= top
        BY <1>2, <3>2, <3>3 DEF Below
      <4>2. reused + (top - Number(stored.ul)) <= (resets + 1) * Cost
        <5> DEFINE w == resets * Cost
                   p == Number(MainUl)
                   q == Number(stored.ul)
        <5>1. /\ w \in Int /\ p \in Nat /\ q \in Nat /\ p <= q + Cost
              /\ reused + (top - p) <= w
              /\ (resets + 1) * Cost = w + Cost
          BY <1>2, <2>5, <3>2, <3>3 DEF Below
        <5> HIDE DEF w, p, q
        <5>2. reused + (top - q) <= w + Cost
          BY <2>5, <5>1
        <5> QED BY <5>1, <5>2 DEF q
      <4> QED BY <2>3, <2>4, <3>3, <4>1, <4>2 DEF Below, Number, Cost
    <3>5. Number(MainUl') = Number(stored.ul) /\ Number(stored'.ul) = Number(stored.ul)
          /\ Unsaved' = 0
      BY <2>3, <2>4 DEF Unsaved
    <3> QED BY <1>0, <1>2, <2>3, <3>2, <3>4, <3>5 DEF UplinkOpen, Number
  <2> QED BY <1>1, <2>3, <2>4, <2>7, <2>8 DEF ReuseInv
<1>13. CASE UNCHANGED vars
  <2>1. /\ MainUl' = MainUl /\ SecondIsLast' /\ Unsaved' = Unsaved
        /\ (MaxSwitches = 0 => ~Short') /\ stored' = stored
    BY <1>0, <1>13 DEF vars, MainUl, Short, SecondIsLast, Unsaved
  <2> QED BY <1>0, <1>1, <1>2, <1>13, <2>1, ReuseStill DEF vars, histVars, boundVars
<1> QED
  BY <1>4, <1>5, <1>6, <1>7, <1>8, <1>9, <1>10, <1>11, <1>12, <1>13
  DEF Next, RxFrame, RxPeer

\* A reset costs at most the iterators of the call it interrupts: until the
\* 20 bits have been used up once, no uplink frame of the main link takes an
\* iterator that was used before but one per reset, or two with ALOHA
\* (nbfi_mac.c, NBFi_MAC_TX_ProtocolE and NBFi_MAC_Set_Iterator).
THEOREM ResetCostsLittle ==
    ASSUME StorageIsMain, UplinkFits PROVE Spec => []ReuseBounded
<1>1. Init => ReuseInv
  BY ReuseInit
<1>2. ReuseInv /\ [Next]_vars => ReuseInv'
  BY ReuseNext
<1>3. ReuseInv => ReuseBounded
  BY DEF ReuseInv
<1> QED BY <1>1, <1>2, <1>3, PTL DEF Spec
=============================================================================
