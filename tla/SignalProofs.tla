---------------------------- MODULE SignalProofs -----------------------------
(***************************************************************************)
(* The detector and its signals, in five parts: facts about the detector's *)
(* arithmetic, for every table and every quote; how many signals it can    *)
(* send, and why none is dropped; how few they are on the strikes Deribit  *)
(* lists; what a signal is about; and that the process implements          *)
(* SignalLedger.                                                           *)
(***************************************************************************)
EXTENDS HedgerProofs, FiniteSetTheorems

(***************************************************************************)
(* The arithmetic of the detector.                                         *)
(***************************************************************************)

BoxQuote == [bidPx : Nat, bidQty : Nat, askPx : Nat, askQty : Nat]

LEMMA SmallestOfFour ==
  ASSUME NEW a \in Nat, NEW b \in Nat, NEW c \in Nat, NEW e \in Nat
  PROVE  Smallest({a, b, c, e}) \in Nat
<1> DEFINE S == {a, b, c, e}
<1>1. \E x \in S : \A y \in S : x <= y
  OBVIOUS
<1>2. Smallest(S) \in S
  BY <1>1 DEF Smallest
<1> QED
  BY <1>2

LEMMA QtyType ==
  ASSUME NEW d \in [LegNames -> BoxQuote], NEW side \in {Long, Short}
  PROVE  ExecutableQty(side, d) \in Int
<1>1. \A l \in LegNames : d[l].askQty \in Nat /\ d[l].bidQty \in Nat
  BY DEF BoxQuote
<1> DEFINE quantities == {d[l].askQty : l \in Buys(side)}
                           \cup {d[l].bidQty : l \in Sells(side)}
<1>2. Smallest(quantities) \in Nat
  <2>1. CASE side = Long
    <3>1. quantities = {d["lc"].askQty, d["hp"].askQty, d["lp"].bidQty, d["hc"].bidQty}
      BY <2>1 DEF Buys, Sells, LegNames
    <3> QED
      BY <1>1, <3>1, SmallestOfFour DEF LegNames
  <2>2. CASE side # Long
    <3>1. quantities = {d["hc"].askQty, d["lp"].askQty, d["lc"].bidQty, d["hp"].bidQty}
      BY <2>2 DEF Buys, Sells, LegNames
    <3> QED
      BY <1>1, <3>1, SmallestOfFour DEF LegNames
  <2> QED
    BY <2>1, <2>2
<1> QED
  BY <1>2, BoxMathAssumption DEF ExecutableQty

LEMMA BandType ==
  ASSUME NEW spot \in Nat
  PROVE  /\ Band(spot).min \in Nat /\ Band(spot).max \in Nat
         /\ Band(spot).min <= Band(spot).max
<1> DEFINE b == IF Params.bandPct <= 0 THEN 10 ELSE Params.bandPct
<1>1. b \in 0 .. 100
  BY BoxMathAssumption
<1>2. spot * (100 - b) \in Nat /\ spot * (100 + b) \in Nat
      /\ spot * (100 - b) <= spot * (100 + b)
  <2> HIDE DEF b
  <2>1. spot * b \in Nat /\ spot * (100 - b) = spot * 100 - spot * b
        /\ spot * (100 + b) = spot * 100 + spot * b
    BY <1>1
  <2>2. 100 - b \in Nat /\ 100 + b \in Nat
    BY <1>1
  <2> QED
    BY <2>1, <2>2
<1>3. \A m, n \in Nat : m <= n => m \div 100 \in Nat /\ n \div 100 \in Nat /\ m \div 100 <= n \div 100
  OBVIOUS
<1>4. CASE ~Params.useBandCheck
  BY <1>4 DEF Band
<1>5. CASE Params.useBandCheck /\ Params.smin > 0 /\ Params.smax >= Params.smin
  BY <1>5, BoxMathAssumption DEF Band
<1>6. CASE Params.useBandCheck /\ ~(Params.smin > 0 /\ Params.smax >= Params.smin)
  <2>1. Band(spot) = [min |-> (spot * (100 - b)) \div 100,
                       max |-> (spot * (100 + b)) \div 100]
    BY <1>6 DEF Band
  <2> HIDE DEF b
  <2> QED
    BY <1>2, <1>3, <2>1
<1> QED
  BY <1>4, <1>5, <1>6

LEMMA NetType ==
  ASSUME NEW d \in [LegNames -> BoxQuote], NEW side \in {Long, Short}
  PROVE  NetBTC(side, d) \in Int
BY DEF NetBTC, BoxQuote, LegNames

\* The settlement price the code takes is the worst of its band.
LEMMA WorstIsWorst ==
  ASSUME NEW net \in Int, NEW spot \in Nat
  PROVE  net * WorstSettlement(net, spot) >= net * Band(spot).min
<1> DEFINE lo == Band(spot).min
           hi == Band(spot).max
<1>1. lo \in Nat /\ hi \in Nat /\ lo <= hi
  BY BandType
<1>2. WorstSettlement(net, spot) = IF net < 0 THEN lo ELSE hi
  BY DEF WorstSettlement
<1> HIDE DEF lo, hi
<1>3. CASE net < 0
  BY <1>1, <1>2, <1>3 DEF lo
<1>4. CASE net >= 0
  <2>1. net * (hi - lo) >= 0 /\ net * (hi - lo) = net * hi - net * lo
    BY <1>1, <1>4
  <2>2. net * hi \in Int /\ net * lo \in Int
    BY <1>1
  <2> QED
    BY <1>2, <1>4, <2>1, <2>2 DEF lo
<1> QED
  BY <1>3, <1>4

\* The floor the code compares with minProfitUSD is the least profit over the
\* whole band of settlement prices, except when the box earns a credit smaller
\* than the four fees: there the code takes the low end of the band although
\* the high end is worse.
THEOREM FloorIsWorstCase ==
  ASSUME NEW side \in {Long, Short}, NEW width \in Int, NEW net \in Int,
         NEW spot \in Nat, NEW s \in Band(spot).min .. Band(spot).max,
         net >= 0 \/ net <= -4 * Params.feePerLegRate
  PROVE  UnitProfit(side, width, net, WorstSettlement(net, spot))
           <= UnitProfit(side, width, net, s)
<1> DEFINE lo   == Band(spot).min
           hi   == Band(spot).max
           r    == Params.feePerLegRate
           W    == WorstSettlement(net, spot)
           base == side * width * TicksPerBtc - 4 * (Params.feePerLegUSD * TicksPerBtc)
           k    == net + 4 * r
<1>1. lo \in Nat /\ hi \in Nat /\ lo <= s /\ s <= hi /\ s \in Nat
  BY BandType
<1>2. W = IF net < 0 THEN lo ELSE hi
  BY DEF WorstSettlement
<1>3. r \in Nat /\ k \in Int /\ base \in Int
  <2>1. side \in Int /\ side * width \in Int
    BY DEF Long, Short
  <2> QED
    BY <2>1, BoxMathAssumption DEF TicksPerBtc
<1>4. \A t \in Nat : UnitProfit(side, width, net, t) = base - k * t
  <2> SUFFICES ASSUME NEW t \in Nat
               PROVE  UnitProfit(side, width, net, t) = base - k * t
    OBVIOUS
  <2>1. k * t = net * t + 4 * (r * t)
    BY <1>3
  <2>2. net * t \in Int /\ r * t \in Nat /\ side * width * TicksPerBtc \in Int
        /\ Params.feePerLegUSD * TicksPerBtc \in Nat
    BY <1>3, BoxMathAssumption DEF TicksPerBtc, Long, Short
  <2> QED
    BY <2>1, <2>2 DEF UnitProfit
<1>5. k * s <= k * W
  <2>1. CASE net >= 0
    <3>1. k >= 0 /\ W = hi /\ hi - s >= 0
      BY <1>1, <1>2, <1>3, <2>1
    <3>2. k * (hi - s) >= 0 /\ k * (hi - s) = k * hi - k * s
      <4> HIDE DEF k, hi
      <4> QED
        BY <1>1, <1>3, <3>1
    <3>3. k * hi \in Int /\ k * s \in Int
      BY <1>1, <1>3
    <3> HIDE DEF k, hi, W
    <3> QED
      BY <3>1, <3>2, <3>3
  <2>2. CASE net < 0
    <3>1. k <= 0 /\ W = lo /\ s - lo >= 0
      BY <1>1, <1>2, <1>3, <2>2
    <3>2. k * (s - lo) <= 0 /\ k * (s - lo) = k * s - k * lo
      <4> HIDE DEF k, lo
      <4> QED
        BY <1>1, <1>3, <3>1
    <3>3. k * lo \in Int /\ k * s \in Int
      BY <1>1, <1>3
    <3> HIDE DEF k, lo, W
    <3> QED
      BY <3>1, <3>2, <3>3
  <2> QED
    BY <2>1, <2>2
<1>6. W \in Nat /\ k * s \in Int /\ k * W \in Int
  BY <1>1, <1>2, <1>3
<1>7. UnitProfit(side, width, net, W) = base - k * W
      /\ UnitProfit(side, width, net, s) = base - k * s
  BY <1>1, <1>4, <1>6
<1> HIDE DEF base, k, W
<1> QED
  BY <1>3, <1>5, <1>6, <1>7 DEF W

\* A side that is worth a signal earns something on each unit, before fees.
LEMMA UnitGain ==
  ASSUME NEW d \in [LegNames -> BoxQuote], NEW side \in {Long, Short},
         NEW width \in Int, NEW spot \in Nat, Emits(side, d, width, spot)
  PROVE  side * width * TicksPerBtc - NetBTC(side, d) * Band(spot).min > 0
<1> DEFINE q   == ExecutableQty(side, d)
           net == NetBTC(side, d)
           S   == WorstSettlement(net, spot)
           u   == UnitProfit(side, width, net, S)
           fee == 4 * (Params.feePerLegUSD * TicksPerBtc + Params.feePerLegRate * S)
           pay == side * width * TicksPerBtc
<1>1. q \in Int /\ q > 0 /\ q * u >= Params.minProfitUSD * TicksPerBtc * LotsPerBtc
  BY QtyType DEF Emits, Profitable
<1>2. net \in Int
  BY NetType
<1>3. S \in Nat
  BY <1>2, BandType DEF WorstSettlement
<1>4. fee \in Nat /\ pay \in Int /\ net * S \in Int
  <2>1. Params.feePerLegRate * S \in Nat
    BY <1>3, BoxMathAssumption
  <2>2. side \in Int
    BY DEF Long, Short
  <2>3. side * width \in Int
    BY <2>2
  <2>4. net * S \in Int
    BY <1>2, <1>3
  <2> QED
    BY <2>1, <2>3, <2>4, BoxMathAssumption DEF TicksPerBtc
<1>5. u = pay - net * S - fee
  BY DEF UnitProfit
<1>6. u \in Int
  BY <1>4, <1>5
<1>7. q * u > 0
  BY <1>1, <1>6, BoxMathAssumption DEF TicksPerBtc, LotsPerBtc
<1>8. u > 0
  <2> HIDE DEF q, u
  <2> QED
    BY <1>1, <1>6, <1>7
<1>9. net * S >= net * Band(spot).min
  BY <1>2, WorstIsWorst
<1>10. Band(spot).min \in Nat /\ net * Band(spot).min \in Int
  BY <1>2, BandType
<1> HIDE DEF q, net, S, u, fee, pay
<1>11. pay - net * Band(spot).min > 0
  BY <1>4, <1>5, <1>8, <1>9, <1>10
<1> QED
  BY <1>11 DEF pay, net

\* The same snapshot is worth a long and a short box only if some leg's bid
\* is above its ask, whatever the parameters of the strategy.
THEOREM LongAndShortNeedCrossing ==
  ASSUME NEW d \in [LegNames -> BoxQuote], NEW width \in Int, NEW spot \in Nat,
         Emits(Long, d, width, spot), Emits(Short, d, width, spot)
  PROVE  Crossed(d)
<1> DEFINE nl == NetBTC(Long, d)
           ns == NetBTC(Short, d)
           S  == Band(spot).min
           w  == width * TicksPerBtc
<1>1. w - nl * S > 0 /\ -w - ns * S > 0
  <2>1. Long * width * TicksPerBtc - nl * S > 0
    BY UnitGain
  <2>2. Short * width * TicksPerBtc - ns * S > 0
    BY UnitGain
  <2>3. Long * width * TicksPerBtc = w /\ Short * width * TicksPerBtc = -w
    BY DEF Long, Short, TicksPerBtc
  <2> QED
    BY <2>1, <2>2, <2>3
<1>2. nl \in Int /\ ns \in Int /\ S \in Nat /\ w \in Int
  BY NetType, BandType DEF TicksPerBtc
<1>3. nl + ns < 0
  <2>1. nl * S + ns * S < 0
    <3>1. nl * S \in Int /\ ns * S \in Int
      BY <1>2
    <3> HIDE DEF nl, ns, S, w
    <3> QED
      BY <1>1, <1>2, <3>1
  <2>2. (nl + ns) * S = nl * S + ns * S
    BY <1>2
  <2> HIDE DEF nl, ns, S, w
  <2> QED
    BY <1>2, <2>1, <2>2
<1>4. nl + ns = (d["lc"].askPx - d["lc"].bidPx) + (d["lp"].askPx - d["lp"].bidPx)
                + (d["hc"].askPx - d["hc"].bidPx) + (d["hp"].askPx - d["hp"].bidPx)
  BY DEF NetBTC, Long, Short, BoxQuote, LegNames
<1>5. \A l \in LegNames : d[l].askPx \in Nat /\ d[l].bidPx \in Nat
  BY DEF BoxQuote
<1> QED
  BY <1>3, <1>4, <1>5 DEF Crossed, LegNames

\* On a grid of 1000 USD the low strike has no part in the bit, and only 8
\* of the 64 bits are ever used.
LEMMA HashOnGrid ==
  ASSUME DedupBits = 64, NEW a \in Nat, NEW b \in Nat
  PROVE  /\ HashBit(1000 * a, 1000 * b) = (1000 * b) % 64
         /\ HashBit(1000 * a, 1000 * b) \in {0, 8, 16, 24, 32, 40, 48, 56}
<1>1. HashBit(1000 * a, 1000 * b) = (1000000 * a + 1000 * b) % 64
  BY DEF HashBit
<1>2. (1000000 * a + 1000 * b) % 64 = (1000 * b) % 64
  BY SMT
<1>3. (1000 * b) % 64 \in {0, 8, 16, 24, 32, 40, 48, 56}
  BY SMT
<1> QED
  BY <1>1, <1>2, <1>3

(***************************************************************************)
(* How many signals the detector can send, and why none is dropped.        *)
(*                                                                         *)
(* NoSignalDropped is not inductive: a step of the engine could find the   *)
(* channel full.  SignalBudget excludes it: the signals sent so far and    *)
(* those the running evaluation may still send are paid for by the bits of *)
(* the mask, two for each, so the channel has room while the evaluation    *)
(* runs.                                                                   *)
(***************************************************************************)

LEMMA MaskBound ==
  ASSUME NEW m \in SUBSET Bits
  PROVE  IsFiniteSet(m) /\ Cardinality(m) \in Nat /\ Cardinality(m) <= DedupBits
<1>1. IsFiniteSet(Bits) /\ Cardinality(Bits) = DedupBits
  <2> DEFINE d == DedupBits - 1
  <2>1. 0 \in Int /\ d \in Int /\ ~(0 > d) /\ d - 0 + 1 = DedupBits
    BY BoxMathAssumption
  <2>2. IsFiniteSet(0 .. d) /\ Cardinality(0 .. d) = DedupBits
    <3> HIDE DEF d
    <3>1. Cardinality(0 .. d) = IF 0 > d THEN 0 ELSE d - 0 + 1
      BY <2>1, FS_Interval
    <3> QED
      BY <2>1, <3>1, FS_Interval
  <2> QED
    BY <2>2 DEF Bits
<1> QED
  BY <1>1, FS_Subset, FS_CardinalityType

\* The budget, with the pending signals of the engine's state pulled out.
Spent(n, pending, m, r) == n + pending <= 2 * (Cardinality(m) + DedupBits * r)

LEMMA BudgetAsSpent ==
  /\ SignalBudget <=> Spent(Len(emitted), PendingSignals, mask, resets)
  /\ SignalBudget' <=> Spent(Len(emitted'), PendingSignals', mask', resets')
BY DEF SignalBudget, Spent

LEMMA PendingValue ==
  /\ pc \in {"load", "long"} => PendingSignals = 2
  /\ pc = "short" => PendingSignals = 1
  /\ pc \in {"wait", "scan"} => PendingSignals = 0
  /\ pc' \in {"load", "long"} => PendingSignals' = 2
  /\ pc' = "short" => PendingSignals' = 1
  /\ pc' \in {"wait", "scan"} => PendingSignals' = 0
BY DEF PendingSignals

LEMMA EvaluateLength ==
  ASSUME EngineTypeOK, NEW side, Evaluate(side)
  PROVE  Len(emitted') \in {Len(emitted), Len(emitted) + 1}
<1> DEFINE s == [box |-> box, side |-> side]
<1>1. emitted' = emitted \/ emitted' = Append(emitted, s)
  BY DEF Evaluate
<1>2. emitted \in Seq(Signal)
  BY DEF EngineTypeOK
<1> HIDE DEF s
<1> QED
  BY <1>1, <1>2

LEMMA BudgetStep ==
  ASSUME TypeOK, SignalBudget, [Next]_vars
  PROVE  SignalBudget'
<1> USE BudgetAsSpent, PendingValue
<1>1. /\ EngineTypeOK
      /\ Len(emitted) \in Nat
      /\ resets \in Nat
      /\ DedupBits \in Nat
      /\ mask \in SUBSET Bits
  BY BoxMathAssumption DEF TypeOK, EngineTypeOK
<1>2. IsFiniteSet(mask) /\ Cardinality(mask) \in Nat /\ Cardinality(mask) <= DedupBits
  BY <1>1, MaskBound
<1>3. CASE UNCHANGED engineVars
  BY <1>3 DEF engineVars, SignalBudget, PendingSignals
<1>4. CASE SkipUpdate
  BY <1>4, <1>3 DEF SkipUpdate
<1>5. CASE TakeUpdate
  BY <1>5, <1>1, <1>2 DEF TakeUpdate, Spent
<1>6. CASE PassOver
  <2>1. pc' \in {"wait", "scan"} /\ pc = "scan"
    BY <1>6 DEF PassOver, Advance
  <2> QED
    BY <1>6, <2>1, <1>1, <1>2 DEF PassOver, Spent
<1>7. CASE MarkPair
  <2> DEFINE b == BitOf(cur.sym, scan)
  <2>1. pc = "scan" /\ b \notin mask /\ mask' = mask \cup {b}
    BY <1>7 DEF MarkPair, Seen
  <2>2. Cardinality(mask') = Cardinality(mask) + 1
    <3> HIDE DEF b
    <3> QED
      BY <2>1, <1>2, FS_AddElement
  <2>3. pc' \in {"load", "wait", "scan"}
    BY <1>7 DEF MarkPair, Advance
  <2>4. PendingSignals' \in {0, 2} /\ PendingSignals = 0
    BY <2>1, <2>3
  <2>5. emitted' = emitted /\ resets' = resets
    BY <1>7 DEF MarkPair
  <2>6. DedupBits * resets \in Nat
    BY <1>1
  <2> QED
    BY <1>1, <1>2, <2>2, <2>4, <2>5, <2>6 DEF Spent
<1>8. CASE LoadField
  <2>1. pc = "load" /\ pc' \in {"load", "long"}
    BY <1>8 DEF LoadField
  <2> QED
    BY <1>8, <2>1, <1>1, <1>2 DEF LoadField, Spent
<1>9. CASE DecideLong
  <2>1. pc = "long" /\ pc' = "short" /\ mask' = mask /\ resets' = resets
    BY <1>9 DEF DecideLong
  <2>2. Len(emitted') \in {Len(emitted), Len(emitted) + 1}
    BY <1>9, <1>1, EvaluateLength DEF DecideLong
  <2>3. DedupBits * resets \in Nat
    BY <1>1
  <2> QED
    BY <2>1, <2>2, <2>3, <1>1, <1>2 DEF Spent
<1>10. CASE DecideShort
  <2>1. pc = "short" /\ pc' \in {"wait", "scan"} /\ mask' = mask /\ resets' = resets
    BY <1>10 DEF DecideShort, Advance
  <2>2. Len(emitted') \in {Len(emitted), Len(emitted) + 1}
    BY <1>10, <1>1, EvaluateLength DEF DecideShort
  <2>3. DedupBits * resets \in Nat
    BY <1>1
  <2> QED
    BY <2>1, <2>2, <2>3, <1>1, <1>2 DEF Spent
<1>11. CASE ResetSignalMask
  <2>1. emitted' = emitted /\ pc' = pc /\ mask' = {} /\ resets' = resets + 1
    BY <1>11 DEF ResetSignalMask
  <2>2. Cardinality(mask') = 0
    BY <2>1, FS_EmptySet
  <2>3. PendingSignals' = PendingSignals /\ PendingSignals \in Nat
    BY <2>1, <1>1 DEF EngineTypeOK
  <2>4. DedupBits * resets \in Nat /\ DedupBits * (resets + 1) = DedupBits * resets + DedupBits
    BY <1>1
  <2> QED
    BY <2>1, <2>2, <2>3, <2>4, <1>1, <1>2 DEF Spent
<1>12. CASE TakeSignal
  <2>1. pc' = pc /\ mask' = mask /\ resets' = resets /\ emitted' = emitted
    BY <1>12 DEF TakeSignal
  <2> QED
    BY <2>1 DEF SignalBudget, PendingSignals
<1> QED
  BY <1>3, <1>4, <1>5, <1>6, <1>7, <1>8, <1>9, <1>10, <1>11, <1>12
     DEF Next, FeedStep, EngineStep, EngineNext, Run, ConsumerStep,
         ConsumerNext, AlertDone, ClockStep, vars

\* With room for two signals per bit and epoch, a send finds room.
RoomForAll == SignalCap >= 2 * (DedupBits * (MaxResets + 1))

\* Taking the head of t to the end of s leaves the concatenation as it is.
LEMMA MoveHead ==
  ASSUME NEW S, NEW s \in Seq(S), NEW t \in Seq(S), t # <<>>
  PROVE  Append(s, Head(t)) \o Tail(t) = s \o t
<1>1. Head(t) \in S /\ Tail(t) \in Seq(S) /\ Len(Tail(t)) = Len(t) - 1
  BY SMT
<1>2. Append(s, Head(t)) \in Seq(S) /\ Len(Append(s, Head(t))) = Len(s) + 1
  BY <1>1
<1> DEFINE a == Append(s, Head(t)) \o Tail(t)
           b == s \o t
<1>3. a \in Seq(S) /\ b \in Seq(S) /\ Len(a) = Len(s) + Len(t) /\ Len(b) = Len(s) + Len(t)
  BY <1>1, <1>2
<1>4. \A i \in 1 .. Len(b) : a[i] = b[i]
  BY <1>1, <1>2
<1> HIDE DEF a, b
<1>5. a = b
  BY <1>3, <1>4
<1> QED
  BY <1>5 DEF a, b

LEMMA EvaluateKeeps ==
  ASSUME RoomForAll, TypeOK, SignalBudget, NoSignalDropped,
         NEW side \in {Long, Short}, Evaluate(side),
         pc \in {"long", "short"}, delivered' = delivered
  PROVE  NoSignalDropped'
<1> DEFINE s == [box |-> box, side |-> side]
<1>1. /\ signals \in Seq(Signal) /\ delivered \in Seq(Signal)
      /\ emitted \in Seq(Signal) /\ s \in Signal
  BY DEF TypeOK, EngineTypeOK, ConsumerTypeOK, Signal
<1>2. Len(emitted) = Len(delivered) + Len(signals)
  <2>1. emitted = delivered \o signals
    BY DEF NoSignalDropped
  <2> QED
    BY <1>1, <2>1
<1>3. Len(emitted) < 2 * (DedupBits * (MaxResets + 1))
  <2>1. Len(emitted) + PendingSignals <= 2 * (Cardinality(mask) + DedupBits * resets)
    BY DEF SignalBudget
  <2>2. PendingSignals \in {1, 2}
    BY DEF PendingSignals
  <2>3. Cardinality(mask) \in Nat /\ Cardinality(mask) <= DedupBits
    BY MaskBound DEF TypeOK, EngineTypeOK
  <2>4. /\ DedupBits \in Nat /\ resets \in Nat /\ MaxResets \in Nat
        /\ resets <= MaxResets
    BY BoxMathAssumption, BoxEngineAssumption DEF TypeOK, EngineTypeOK
  <2>5. DedupBits * resets \in Nat /\ DedupBits * resets <= DedupBits * MaxResets
    BY <2>4
  <2>6. DedupBits * MaxResets \in Nat
        /\ DedupBits * (MaxResets + 1) = DedupBits * MaxResets + DedupBits
    BY <2>4
  <2>7. Len(emitted) \in Nat
    BY <1>1
  <2> QED
    BY <2>1, <2>2, <2>3, <2>4, <2>5, <2>6, <2>7
<1>4. Len(signals) < SignalCap
  <2>1. DedupBits * (MaxResets + 1) \in Nat
    BY BoxMathAssumption, BoxEngineAssumption
  <2> QED
    BY <1>1, <1>2, <1>3, <2>1, BoxEngineAssumption DEF RoomForAll
<1>5. \/ emitted' = emitted /\ signals' = signals
      \/ emitted' = Append(emitted, s) /\ signals' = Append(signals, s)
  BY <1>4 DEF Evaluate
<1> HIDE DEF s
<1>6. Append(delivered \o signals, s) = delivered \o Append(signals, s)
  BY <1>1
<1> QED
  BY <1>5, <1>6 DEF NoSignalDropped

LEMMA DropStep ==
  ASSUME RoomForAll, TypeOK, SignalBudget, NoSignalDropped, [Next]_vars
  PROVE  NoSignalDropped'
<1>1. CASE TakeSignal
  <2>1. /\ signals # <<>> /\ emitted' = emitted
        /\ delivered' = Append(delivered, Head(signals)) /\ signals' = Tail(signals)
    BY <1>1 DEF TakeSignal
  <2>2. signals \in Seq(Signal) /\ delivered \in Seq(Signal)
    BY DEF TypeOK, EngineTypeOK, ConsumerTypeOK
  <2>3. Append(delivered, Head(signals)) \o Tail(signals) = delivered \o signals
    BY <2>1, <2>2, MoveHead
  <2> QED
    BY <2>1, <2>3 DEF NoSignalDropped
<1>2. CASE DecideLong /\ UNCHANGED consumerVars
  BY <1>2, EvaluateKeeps DEF DecideLong, consumerVars
<1>3. CASE DecideShort /\ UNCHANGED consumerVars
  BY <1>3, EvaluateKeeps DEF DecideShort, consumerVars
<1>4. CASE UNCHANGED <<emitted, signals, delivered>>
  BY <1>4 DEF NoSignalDropped
<1>5. CASE FeedStep \/ ClockStep \/ AlertDone \/ UNCHANGED vars
  BY <1>5, <1>4 DEF FeedStep, ClockStep, AlertDone, vars, engineVars, consumerVars
<1>6. CASE EngineStep
  BY <1>6, <1>2, <1>3, <1>4
     DEF EngineStep, EngineNext, Run, SkipUpdate, TakeUpdate, PassOver,
         MarkPair, LoadField, ResetSignalMask, engineVars, consumerVars
<1> QED
  BY <1>1, <1>5, <1>6 DEF Next, ConsumerStep, ConsumerNext

\* No bit of the dedup mask is worth more than two signals between resets.
THEOREM SignalsBounded == Spec => []SignalBudget
<1>1. Init => SignalBudget
  BY FS_EmptySet, BoxMathAssumption
     DEF Init, EngineInit, SignalBudget, PendingSignals
<1>2. TypeOK /\ SignalBudget /\ [Next]_vars => SignalBudget'
  BY BudgetStep
<1> QED
  BY <1>1, <1>2, TypeCorrect, PTL DEF Spec

\* checkBoxFast's non-blocking sends never drop a signal when the channel
\* holds two for each bit of the mask and epoch.
THEOREM NothingDropped ==
  ASSUME RoomForAll
  PROVE  Spec => []NoSignalDropped
<1>1. Init => NoSignalDropped
  BY DEF Init, EngineInit, ConsumerInit, NoSignalDropped
<1>2. TypeOK /\ SignalBudget /\ NoSignalDropped /\ [Next]_vars => NoSignalDropped'
  BY DropStep
<1> QED
  BY <1>1, <1>2, TypeCorrect, SignalsBounded, PTL DEF Spec

\* The process as it is built: 64 bits, a channel of 128, no reset.
COROLLARY NothingDroppedAsBuilt ==
  ASSUME DedupBits = 64, SignalCap = 128, MaxResets = 0
  PROVE  Spec => []NoSignalDropped
BY NothingDropped DEF RoomForAll

\* One snapshot gives a long and a short signal only if it shows a crossed
\* leg: on a book that never is, the two blocks of checkBoxFast exclude
\* each other.
THEOREM BothSidesNeedCrossing == Spec => []BothSidesOnlyIfCrossed
<1>1. TypeOK => BothSidesOnlyIfCrossed
  <2> SUFFICES ASSUME TypeOK, pc = "long", EmitsNow(Long), EmitsNow(Short)
               PROVE  Crossed(snap)
    BY DEF BothSidesOnlyIfCrossed
  <2>1. snap \in [LegNames -> BoxQuote]
    BY DEF TypeOK, EngineTypeOK, Quote, BoxQuote
  <2>2. cur.index \in Nat
    BY DEF TypeOK, EngineTypeOK, Update
  <2>3. BoxWidth \in Int
    <3>1. box["hc"] \in Idx /\ box["lc"] \in Idx
      BY DEF TypeOK, EngineTypeOK, LegNames
    <3> QED
      BY <3>1, StrikeType DEF BoxWidth
  <2> QED
    BY <2>1, <2>2, <2>3, LongAndShortNeedCrossing DEF EmitsNow
<1> QED
  BY <1>1, TypeCorrect, PTL

(***************************************************************************)
(* How few signals there are on the strikes Deribit lists.                 *)
(***************************************************************************)
ThousandGrid == \A i \in Idx : \E k \in Nat : Option[i].strike = 1000 * k

GridBits == {0, 8, 16, 24, 32, 40, 48, 56}

LEMMA GridBitOf ==
  ASSUME DedupBits = 64, ThousandGrid, NEW i \in Idx, NEW j \in Idx
  PROVE  BitOf(i, j) \in GridBits
<1>1. PICK a \in Nat : LowStrike(i, j) = 1000 * a
  BY DEF ThousandGrid, LowStrike
<1>2. PICK b \in Nat : HighStrike(i, j) = 1000 * b
  BY DEF ThousandGrid, HighStrike
<1>3. HashBit(1000 * a, 1000 * b) \in GridBits
  BY HashOnGrid DEF GridBits
<1> QED
  BY <1>1, <1>2, <1>3 DEF BitOf

LEMMA GridBitsCount == IsFiniteSet(GridBits) /\ Cardinality(GridBits) = 8
<1> DEFINE A1 == {} \cup {0}
           A2 == A1 \cup {8}
           A3 == A2 \cup {16}
           A4 == A3 \cup {24}
           A5 == A4 \cup {32}
           A6 == A5 \cup {40}
           A7 == A6 \cup {48}
           A8 == A7 \cup {56}
<1>1. IsFiniteSet(A1) /\ Cardinality(A1) = 1
  BY FS_EmptySet, FS_AddElement
<1>2. IsFiniteSet(A2) /\ Cardinality(A2) = 2
  BY <1>1, FS_AddElement
<1>3. IsFiniteSet(A3) /\ Cardinality(A3) = 3
  BY <1>2, FS_AddElement
<1>4. IsFiniteSet(A4) /\ Cardinality(A4) = 4
  BY <1>3, FS_AddElement
<1>5. IsFiniteSet(A5) /\ Cardinality(A5) = 5
  BY <1>4, FS_AddElement
<1>6. IsFiniteSet(A6) /\ Cardinality(A6) = 6
  BY <1>5, FS_AddElement
<1>7. IsFiniteSet(A7) /\ Cardinality(A7) = 7
  BY <1>6, FS_AddElement
<1>8. IsFiniteSet(A8) /\ Cardinality(A8) = 8
  BY <1>7, FS_AddElement
<1>9. GridBits = A8
  BY DEF GridBits
<1> QED
  BY <1>8, <1>9

MaskOnGrid == mask \subseteq GridBits

\* With every strike a multiple of 1000 USD and no call of ResetSignalMask,
\* the process sends at most 16 signals in its life, over all expiries and
\* all pairs of strikes: the expiry and the low strike drop out of the hash.
THEOREM SixteenSignals ==
  ASSUME DedupBits = 64, MaxResets = 0, ThousandGrid
  PROVE  Spec => [](Len(emitted) <= 16)
<1>1. Init => MaskOnGrid
  BY DEF Init, EngineInit, MaskOnGrid
<1>2. TypeOK /\ MaskOnGrid /\ [Next]_vars => MaskOnGrid'
  <2> SUFFICES ASSUME TypeOK, MaskOnGrid, [Next]_vars
               PROVE  MaskOnGrid'
    OBVIOUS
  <2>1. CASE MarkPair
    <3>1. cur.sym \in Idx /\ scan \in Idx
      BY <2>1 DEF MarkPair, TypeOK, EngineTypeOK, Update
    <3>2. BitOf(cur.sym, scan) \in GridBits
      BY <3>1, GridBitOf
    <3> QED
      BY <2>1, <3>2 DEF MarkPair, MaskOnGrid
  <2>2. CASE mask' \in {mask, {}}
    BY <2>2 DEF MaskOnGrid
  <2> QED
    BY <2>1, <2>2
       DEF Next, FeedStep, EngineStep, ConsumerStep, ClockStep, ConsumerNext,
           EngineNext, Run, SkipUpdate, TakeUpdate, PassOver, LoadField,
           DecideLong, DecideShort, ResetSignalMask, TakeSignal, AlertDone,
           vars, engineVars
<1>3. TypeOK /\ SignalBudget /\ MaskOnGrid => Len(emitted) <= 16
  <2> SUFFICES ASSUME TypeOK, SignalBudget, MaskOnGrid
               PROVE  Len(emitted) <= 16
    OBVIOUS
  <2>1. Cardinality(mask) <= 8 /\ Cardinality(mask) \in Nat
    BY GridBitsCount, FS_Subset, FS_CardinalityType DEF MaskOnGrid
  <2>2. resets = 0
    BY DEF TypeOK, EngineTypeOK
  <2>3. Len(emitted) \in Nat /\ PendingSignals \in Nat
    BY DEF TypeOK, EngineTypeOK, PendingSignals
  <2>4. Len(emitted) + PendingSignals <= 2 * (Cardinality(mask) + DedupBits * resets)
    BY DEF SignalBudget
  <2> QED
    BY <2>1, <2>2, <2>3, <2>4
<1> QED
  BY <1>1, <1>2, <1>3, TypeCorrect, SignalsBounded, PTL DEF Spec

LEMMA FirstOptionIs ==
  ASSUME NEW e, NEW k, NEW c \in BOOLEAN, FirstOption(e, k, c) \in Idx
  PROVE  Option[FirstOption(e, k, c)] = [strike |-> k, expiry |-> e, isCall |-> c]
<1> DEFINE found == {i \in Idx : Option[i] = [strike |-> k, expiry |-> e, isCall |-> c]}
<1>1. CASE found = {}
  <2>1. FirstOption(e, k, c) = 0
    BY <1>1 DEF FirstOption
  <2> QED
    BY <2>1, CountType
<1>2. CASE found # {}
  <2>1. \E i \in found : \A j \in found : i <= j
    <3>1. found \in SUBSET Nat
      BY CountType
    <3> HIDE DEF found
    <3> QED
      BY <1>2, <3>1, LeastIndex
  <2>2. FirstOption(e, k, c) \in found
    BY <1>2, <2>1 DEF FirstOption
  <2> QED
    BY <2>2
<1> QED
  BY <1>1, <1>2

\* The legs found for a pair are the options the box is named for.
LEMMA LegsAre ==
  ASSUME NEW i \in Idx, NEW j \in Idx, AllFound(Legs(i, j))
  PROVE  LET b == Legs(i, j)
             e == Option[i].expiry
         IN  /\ \A l \in LegNames : b[l] \in Idx
             /\ Option[b["lc"]] = [strike |-> LowStrike(i, j), expiry |-> e, isCall |-> TRUE]
             /\ Option[b["lp"]] = [strike |-> LowStrike(i, j), expiry |-> e, isCall |-> FALSE]
             /\ Option[b["hc"]] = [strike |-> HighStrike(i, j), expiry |-> e, isCall |-> TRUE]
             /\ Option[b["hp"]] = [strike |-> HighStrike(i, j), expiry |-> e, isCall |-> FALSE]
<1> DEFINE b  == Legs(i, j)
           e  == Option[i].expiry
           lo == LowStrike(i, j)
           hi == HighStrike(i, j)
<1>1. \A l \in LegNames : b[l] \in Idx
  BY DEF AllFound
<1>2. /\ b["lc"] = FirstOption(e, lo, TRUE) /\ b["lp"] = FirstOption(e, lo, FALSE)
      /\ b["hc"] = FirstOption(e, hi, TRUE) /\ b["hp"] = FirstOption(e, hi, FALSE)
  BY DEF Legs
<1> HIDE DEF b, e, lo, hi
<1>3. /\ Option[b["lc"]] = [strike |-> lo, expiry |-> e, isCall |-> TRUE]
      /\ Option[b["lp"]] = [strike |-> lo, expiry |-> e, isCall |-> FALSE]
      /\ Option[b["hc"]] = [strike |-> hi, expiry |-> e, isCall |-> TRUE]
      /\ Option[b["hp"]] = [strike |-> hi, expiry |-> e, isCall |-> FALSE]
  <2>1. \A l \in {"lc", "lp", "hc", "hp"} : b[l] \in Idx
    BY <1>1 DEF LegNames
  <2>2. Option[b["lc"]] = [strike |-> lo, expiry |-> e, isCall |-> TRUE]
    BY <1>2, <2>1, FirstOptionIs
  <2>3. Option[b["lp"]] = [strike |-> lo, expiry |-> e, isCall |-> FALSE]
    BY <1>2, <2>1, FirstOptionIs
  <2>4. Option[b["hc"]] = [strike |-> hi, expiry |-> e, isCall |-> TRUE]
    BY <1>2, <2>1, FirstOptionIs
  <2>5. Option[b["hp"]] = [strike |-> hi, expiry |-> e, isCall |-> FALSE]
    BY <1>2, <2>1, FirstOptionIs
  <2> QED
    BY <2>2, <2>3, <2>4, <2>5
<1> QED
  BY <1>1, <1>3 DEF b, e, lo, hi

(***************************************************************************)
(* What a signal is about.                                                 *)
(***************************************************************************)

\* The four legs of a box as SignalsWellFormed wants them.
WellFormed(b) ==
  LET o == [l \in LegNames |-> Option[b[l]]]
  IN  /\ \A l \in LegNames : Symbols[b[l]].parsed /\ o[l].expiry = o["lc"].expiry
      /\ o["lc"].isCall /\ o["hc"].isCall /\ ~o["lp"].isCall /\ ~o["hp"].isCall
      /\ o["lc"].strike = o["lp"].strike /\ o["hc"].strike = o["hp"].strike
      /\ o["hc"].strike - o["lc"].strike >= Params.minStrikeGap

LEMMA NamedOption ==
  ASSUME PositiveStrikes, NEW i \in Idx
  PROVE  Option[i].strike > 0 \/ Option[i].isCall => Symbols[i].parsed
<1>1. CASE ~Symbols[i].parsed
  <2>1. Option[i] = [strike |-> 0, expiry |-> 0, isCall |-> FALSE]
    BY <1>1 DEF Option
  <2> QED
    BY <2>1
<1> QED
  BY <1>1

LEMMA CandidateWellFormed ==
  ASSUME PositiveStrikes, NEW i \in Idx, NEW j \in Idx,
         Candidate(i, j), AllFound(Legs(i, j))
  PROVE  WellFormed(Legs(i, j))
<1> DEFINE b  == Legs(i, j)
           e  == Option[i].expiry
           lo == LowStrike(i, j)
           hi == HighStrike(i, j)
<1>1. /\ \A l \in LegNames : b[l] \in Idx
      /\ Option[b["lc"]] = [strike |-> lo, expiry |-> e, isCall |-> TRUE]
      /\ Option[b["lp"]] = [strike |-> lo, expiry |-> e, isCall |-> FALSE]
      /\ Option[b["hc"]] = [strike |-> hi, expiry |-> e, isCall |-> TRUE]
      /\ Option[b["hp"]] = [strike |-> hi, expiry |-> e, isCall |-> FALSE]
  BY LegsAre
<1>2. hi - lo >= Params.minStrikeGap /\ lo \in Nat /\ hi \in Nat /\ hi > lo
  BY StrikeType DEF Candidate, PairLookup, WideEnough, LowStrike, HighStrike
<1> HIDE DEF b, e, lo, hi
<1>3. Symbols[b["lc"]].parsed /\ Symbols[b["hc"]].parsed
  BY <1>1, NamedOption DEF LegNames
<1>4. lo > 0
  <2>1. Option[b["lc"]].strike = Symbols[b["lc"]].strike
    BY <1>1, <1>3 DEF Option, LegNames
  <2> QED
    BY <1>1, <1>3, <2>1 DEF PositiveStrikes, LegNames
<1>5. Symbols[b["lp"]].parsed /\ Symbols[b["hp"]].parsed
  BY <1>1, <1>2, <1>4, NamedOption DEF LegNames
<1>6. WellFormed(b)
  BY <1>1, <1>2, <1>3, <1>5 DEF WellFormed, LegNames
<1> QED
  BY <1>6 DEF b

\* The box being read and all boxes signalled so far are well formed.
Formed(at, b, sigs) ==
  /\ at \in {"load", "long", "short"} => WellFormed(b)
  /\ \A n \in DOMAIN sigs : WellFormed(sigs[n].box)

BoxesFormed == Formed(pc, box, emitted)

LEMMA FormedNext == BoxesFormed' <=> Formed(pc', box', emitted')
BY DEF BoxesFormed, Formed, WellFormed

LEMMA EvaluateFormed ==
  ASSUME TypeOK, BoxesFormed, pc \in {"long", "short"},
         NEW side \in {Long, Short}, Evaluate(side)
  PROVE  \A n \in DOMAIN emitted' : WellFormed(emitted'[n].box)
<1> DEFINE s == [box |-> box, side |-> side]
<1>1. WellFormed(s.box) /\ emitted \in Seq(Signal)
  BY DEF BoxesFormed, Formed, TypeOK, EngineTypeOK
<1>2. emitted' = emitted \/ emitted' = Append(emitted, s)
  BY DEF Evaluate
<1> HIDE DEF s
<1> QED
  BY <1>1, <1>2 DEF BoxesFormed, Formed

LEMMA BoxesFormedStep ==
  ASSUME PositiveStrikes, TypeOK, BoxesFormed, [Next]_vars
  PROVE  BoxesFormed'
<1> USE FormedNext DEF BoxesFormed, Formed
<1>1. CASE EngineStep /\ MarkPair
  <2> DEFINE legs == Legs(cur.sym, scan)
  <2>1. cur.sym \in Idx /\ scan \in Idx
    BY <1>1 DEF MarkPair, TypeOK, EngineTypeOK, Update
  <2>2. emitted' = emitted
    BY <1>1 DEF MarkPair
  <2>3. CASE AllFound(legs)
    <3>1. box' = legs /\ WellFormed(legs)
      BY <1>1, <2>1, <2>3, CandidateWellFormed DEF MarkPair
    <3> HIDE DEF legs
    <3> QED
      BY <2>2, <3>1
  <2>4. CASE ~AllFound(legs)
    <3>1. pc' \in {"wait", "scan"}
      BY <1>1, <2>4 DEF MarkPair, Advance
    <3> QED
      BY <2>2, <3>1
  <2> QED
    BY <2>3, <2>4
<1>2. CASE EngineStep /\ DecideLong
  <2>1. pc = "long" /\ box' = box /\ Evaluate(Long)
    BY <1>2 DEF DecideLong
  <2> QED
    BY <2>1, EvaluateFormed
<1>3. CASE EngineStep /\ DecideShort
  <2>1. pc = "short" /\ pc' \in {"wait", "scan"} /\ Evaluate(Short)
    BY <1>3 DEF DecideShort, Advance
  <2> QED
    BY <2>1, EvaluateFormed
<1>4. CASE EngineStep /\ (PassOver \/ TakeUpdate)
  <2>1. pc' \in {"wait", "scan"} /\ emitted' = emitted
    BY <1>4 DEF PassOver, TakeUpdate, Advance
  <2> QED
    BY <2>1
<1>5. CASE EngineStep /\ LoadField
  <2>1. pc = "load" /\ box' = box /\ emitted' = emitted
    BY <1>5 DEF LoadField
  <2> QED
    BY <2>1
<1>6. CASE UNCHANGED <<pc, box, emitted>>
  BY <1>6
<1> QED
  BY <1>1, <1>2, <1>3, <1>4, <1>5, <1>6
     DEF Next, FeedStep, EngineStep, ConsumerStep, ClockStep, ConsumerNext,
         EngineNext, Run, SkipUpdate, ResetSignalMask, TakeSignal, AlertDone,
         vars, engineVars

\* For every table of options, with unparsable names, missing legs and
\* repeated strikes, and whatever the quotes do: a signal names the call and
\* the put of two strikes of one expiry, far enough apart.
THEOREM SignalsFormed ==
  ASSUME PositiveStrikes
  PROVE  Spec => []SignalsWellFormed
<1>1. Init => BoxesFormed
  BY DEF Init, EngineInit, BoxesFormed, Formed
<1>2. TypeOK /\ BoxesFormed /\ [Next]_vars => BoxesFormed'
  BY BoxesFormedStep
<1>3. BoxesFormed => SignalsWellFormed
  BY DEF BoxesFormed, Formed, SignalsWellFormed, WellFormed
<1> QED
  BY <1>1, <1>2, <1>3, TypeCorrect, PTL DEF Spec

(***************************************************************************)
(* The process implements SignalLedger (its safety part): every step is a  *)
(* step of the ledger or leaves it alone.                                  *)
(***************************************************************************)

LedgerSafety == Ledger!LedgerInit /\ [][Ledger!LedgerNext]_(Ledger!ledgerVars)

\* The legs found for a pair have the strikes, hence the key, of the pair.
LEMMA LegsKey ==
  ASSUME NEW i \in Idx, NEW j \in Idx, AllFound(Legs(i, j))
  PROVE  KeyOf(Legs(i, j)) = BitOf(i, j)
<1> DEFINE b == Legs(i, j)
           o(k, c) == [strike |-> k, expiry |-> Option[i].expiry, isCall |-> c]
<1>1. /\ Option[b["lc"]] = o(LowStrike(i, j), TRUE)
      /\ Option[b["hc"]] = o(HighStrike(i, j), TRUE)
  BY LegsAre
<1> HIDE DEF b
<1>2. Option[b["lc"]].strike = LowStrike(i, j) /\ Option[b["hc"]].strike = HighStrike(i, j)
  BY <1>1
<1>3. KeyOf(b) = BitOf(i, j)
  BY <1>2 DEF KeyOf, BitOf
<1> QED
  BY <1>3 DEF b

LEMMA KeyType ==
  ASSUME TypeOK, pc \in {"load", "long", "short"}
  PROVE  KeyOf(box) \in Bits /\ KeyOf(box) # -1
<1>1. box["lc"] \in Idx /\ box["hc"] \in Idx
  BY DEF TypeOK, EngineTypeOK, LegNames
<1>2. Option[box["lc"]].strike \in Nat /\ Option[box["hc"]].strike \in Nat
  BY <1>1, StrikeType
<1>3. Option[box["lc"]].strike * 1000 + Option[box["hc"]].strike \in Nat
  BY <1>2
<1> QED
  BY <1>3, BoxMathAssumption DEF KeyOf, HashBit, Bits

LEMMA OpenValue ==
  /\ pc \in {"load", "long"} =>
       OpenJudgement = [key |-> KeyOf(box), sides |-> <<Long, Short>>]
  /\ pc = "short" => OpenJudgement = [key |-> KeyOf(box), sides |-> <<Short>>]
  /\ pc \in {"wait", "scan"} => OpenJudgement = Ledger!Closed
  /\ pc' \in {"load", "long"} =>
       OpenJudgement' = [key |-> KeyOf(box)', sides |-> <<Long, Short>>]
  /\ pc' = "short" => OpenJudgement' = [key |-> KeyOf(box)', sides |-> <<Short>>]
  /\ pc' \in {"wait", "scan"} => OpenJudgement' = Ledger!Closed
BY DEF OpenJudgement, Ledger!Closed

LEMMA EntriesAppend ==
  ASSUME NEW sigs \in Seq(Signal), NEW s \in Signal
  PROVE  Entries(Append(sigs, s)) =
           Append(Entries(sigs), [key |-> KeyOf(s.box), side |-> s.side])
BY DEF Entries

LEMMA EntriesType ==
  ASSUME NEW sigs \in Seq(Signal)
  PROVE  Len(Entries(sigs)) = Len(sigs)
BY DEF Entries

\* A send of checkBoxFast, in the ledger: the entry of the open judgement.
LEMMA EvaluateIssues ==
  ASSUME TypeOK, pc \in {"long", "short"}, NEW side \in {Long, Short}, Evaluate(side)
  PROVE  \/ Entries(emitted') = Append(Entries(emitted), [key |-> KeyOf(box), side |-> side])
         \/ Entries(emitted') = Entries(emitted)
<1> DEFINE s == [box |-> box, side |-> side]
<1>1. s \in Signal /\ emitted \in Seq(Signal)
  BY DEF TypeOK, EngineTypeOK, Signal
<1>2. emitted' = emitted \/ emitted' = Append(emitted, s)
  BY DEF Evaluate
<1>3. s.box = box /\ s.side = side
  OBVIOUS
<1> HIDE DEF s
<1> QED
  BY <1>1, <1>2, <1>3, EntriesAppend

\* The ledger's entries stand or fall with the signals they stand for.
LEMMA EntriesUnchanged ==
  /\ emitted' = emitted => Entries(emitted)' = Entries(emitted)
  /\ delivered' = delivered => Entries(delivered)' = Entries(delivered)
BY DEF Entries, KeyOf

LEMMA LedgerInitial == Init => Ledger!LedgerInit
BY DEF Init, EngineInit, ConsumerInit, Ledger!LedgerInit, Ledger!Closed,
       OpenJudgement, Entries

LEMMA MarkPairJudges ==
  ASSUME TypeOK, MarkPair, UNCHANGED delivered
  PROVE  \E k \in Bits : Ledger!Judge(k)
<1> DEFINE k == BitOf(cur.sym, scan)
           legs == Legs(cur.sym, scan)
<1>1. cur.sym \in Idx /\ scan \in Idx
  BY DEF MarkPair, TypeOK, EngineTypeOK, Update
<1>2. k \in Bits /\ k \notin mask /\ mask' = mask \cup {k}
  BY <1>1, BitType DEF MarkPair, Seen
<1>3. OpenJudgement = Ledger!Closed
  BY OpenValue DEF MarkPair
<1>4. Entries(emitted)' = Entries(emitted) /\ Entries(delivered)' = Entries(delivered)
  BY EntriesUnchanged DEF MarkPair
<1>5. OpenJudgement' \in {Ledger!Closed, [key |-> k, sides |-> <<1, -1>>]}
  <2>1. CASE AllFound(legs)
    <3>1. pc' = "load" /\ box' = legs
      BY <2>1 DEF MarkPair
    <3>2. KeyOf(box)' = k
      <4>1. KeyOf(box)' = KeyOf(legs)
        BY <3>1 DEF KeyOf
      <4> QED
        BY <4>1, <2>1, <1>1, LegsKey
    <3> QED
      BY <3>1, <3>2, OpenValue DEF Long, Short
  <2>2. CASE ~AllFound(legs)
    BY <2>2, OpenValue DEF MarkPair, Advance
  <2> QED
    BY <2>1, <2>2
<1> HIDE DEF k
<1> QED
  BY <1>2, <1>3, <1>4, <1>5 DEF Ledger!Judge

LEMMA DecideSettles ==
  ASSUME TypeOK, DecideLong \/ DecideShort, UNCHANGED delivered
  PROVE  Ledger!Settle
<1>1. pc \in {"long", "short"}
  BY DEF DecideLong, DecideShort
<1>2. KeyOf(box) # -1
  BY <1>1, KeyType
<1>3. mask' = mask /\ Entries(delivered)' = Entries(delivered)
  BY EntriesUnchanged DEF DecideLong, DecideShort
<1>4. CASE DecideLong
  <2>1. OpenJudgement = [key |-> KeyOf(box), sides |-> <<Long, Short>>]
    BY <1>4, OpenValue DEF DecideLong
  <2>2. OpenJudgement' = [key |-> KeyOf(box), sides |-> <<Short>>]
    <3>1. pc' = "short" /\ box' = box
      BY <1>4 DEF DecideLong
    <3>2. KeyOf(box)' = KeyOf(box)
      BY <3>1 DEF KeyOf
    <3> QED
      BY <3>1, <3>2, OpenValue
  <2>3. \/ Entries(emitted)' = Append(Entries(emitted), [key |-> KeyOf(box), side |-> Long])
        \/ Entries(emitted)' = Entries(emitted)
    BY <1>1, <1>4, EvaluateIssues DEF DecideLong, Entries, KeyOf
  <2> DEFINE key == KeyOf(box)
  <2> HIDE DEF key
  <2>4. OpenJudgement # Ledger!Closed
    BY <2>1, <1>2 DEF Ledger!Closed
  <2>5. /\ Len(OpenJudgement.sides) # 1 /\ Head(OpenJudgement.sides) = Long
        /\ OpenJudgement' = [OpenJudgement EXCEPT !.sides = Tail(@)]
        /\ OpenJudgement.key = KeyOf(box)
    BY <2>1, <2>2
  <2> QED
    BY <1>3, <2>3, <2>4, <2>5 DEF Ledger!Settle
<1>5. CASE DecideShort
  <2>1. OpenJudgement = [key |-> KeyOf(box), sides |-> <<Short>>]
    BY <1>5, OpenValue DEF DecideShort
  <2>2. OpenJudgement' = Ledger!Closed
    BY <1>5, OpenValue DEF DecideShort, Advance
  <2>3. \/ Entries(emitted)' = Append(Entries(emitted), [key |-> KeyOf(box), side |-> Short])
        \/ Entries(emitted)' = Entries(emitted)
    BY <1>1, <1>5, EvaluateIssues DEF DecideShort, Entries, KeyOf
  <2>4. OpenJudgement # Ledger!Closed
    BY <2>1, <1>2 DEF Ledger!Closed
  <2>5. /\ Len(OpenJudgement.sides) = 1 /\ Head(OpenJudgement.sides) = Short
        /\ OpenJudgement.key = KeyOf(box)
    BY <2>1
  <2> QED
    BY <1>3, <2>2, <2>3, <2>4, <2>5 DEF Ledger!Settle
<1> QED
  BY <1>4, <1>5

LEMMA TakeSignalReceives ==
  ASSUME TypeOK, NoSignalDropped, TakeSignal
  PROVE  Ledger!ReceiveNext
<1> DEFINE s == Head(signals)
<1>1. /\ delivered \in Seq(Signal) /\ signals \in Seq(Signal) /\ signals # <<>>
      /\ emitted = delivered \o signals
  BY DEF TakeSignal, TypeOK, EngineTypeOK, ConsumerTypeOK, NoSignalDropped
<1>2. Len(delivered) < Len(emitted) /\ emitted[Len(delivered) + 1] = s
  BY <1>1
<1>3. s \in Signal /\ emitted \in Seq(Signal)
  BY <1>1
<1>4. delivered' = Append(delivered, s) /\ emitted' = emitted /\ mask' = mask
  BY DEF TakeSignal
<1> HIDE DEF s
<1>5. Entries(emitted)[Len(delivered) + 1] = [key |-> KeyOf(s.box), side |-> s.side]
  BY <1>1, <1>2, <1>3 DEF Entries
<1>6. Entries(delivered)' = Append(Entries(delivered), [key |-> KeyOf(s.box), side |-> s.side])
  <2>1. Entries(delivered)' = Entries(delivered')
    BY DEF Entries, KeyOf
  <2> QED
    BY <1>1, <1>3, <1>4, <2>1, EntriesAppend
<1>7. Len(Entries(delivered)) = Len(delivered) /\ Len(Entries(emitted)) = Len(emitted)
  BY <1>1, <1>3, EntriesType
<1>8. OpenJudgement' = OpenJudgement /\ Entries(emitted)' = Entries(emitted)
  BY EntriesUnchanged DEF TakeSignal, OpenJudgement, KeyOf
<1> QED
  BY <1>2, <1>4, <1>5, <1>6, <1>7, <1>8 DEF Ledger!ReceiveNext

LEMMA LedgerStutter ==
  ASSUME UNCHANGED <<mask, emitted, delivered, OpenJudgement>>
  PROVE  UNCHANGED Ledger!ledgerVars
BY EntriesUnchanged DEF Ledger!ledgerVars

LEMMA LedgerStep ==
  ASSUME TypeOK, NoSignalDropped, [Next]_vars
  PROVE  [Ledger!LedgerNext]_(Ledger!ledgerVars)
<1>1. CASE MarkPair /\ UNCHANGED consumerVars
  BY <1>1, MarkPairJudges DEF consumerVars, Ledger!LedgerNext
<1>2. CASE (DecideLong \/ DecideShort) /\ UNCHANGED consumerVars
  BY <1>2, DecideSettles DEF consumerVars, Ledger!LedgerNext
<1>3. CASE TakeSignal
  BY <1>3, TakeSignalReceives DEF Ledger!LedgerNext
<1>4. CASE ResetSignalMask /\ UNCHANGED consumerVars
  <2>1. OpenJudgement' = OpenJudgement
    BY <1>4 DEF ResetSignalMask, OpenJudgement, KeyOf
  <2>2. Entries(emitted)' = Entries(emitted) /\ Entries(delivered)' = Entries(delivered)
    BY <1>4, EntriesUnchanged DEF ResetSignalMask, consumerVars
  <2> QED
    BY <1>4, <2>1, <2>2 DEF ResetSignalMask, Ledger!Forget, Ledger!LedgerNext
<1>5. CASE UNCHANGED <<engineVars, delivered>>
  BY <1>5, LedgerStutter DEF engineVars, OpenJudgement, KeyOf
<1>6. CASE (SkipUpdate \/ TakeUpdate \/ PassOver \/ LoadField) /\ UNCHANGED consumerVars
  <2>1. UNCHANGED <<mask, emitted, delivered>>
    BY <1>6 DEF SkipUpdate, TakeUpdate, PassOver, LoadField, engineVars, consumerVars
  <2>2. OpenJudgement' = OpenJudgement
    <3>1. CASE SkipUpdate
      BY <3>1 DEF SkipUpdate, engineVars, OpenJudgement, KeyOf
    <3>2. CASE TakeUpdate \/ PassOver
      BY <3>2, OpenValue DEF TakeUpdate, PassOver, Advance
    <3>3. CASE LoadField
      BY <3>3, OpenValue DEF LoadField, KeyOf
    <3> QED
      BY <1>6, <3>1, <3>2, <3>3
  <2> QED
    BY <2>1, <2>2, LedgerStutter
<1> QED
  BY <1>1, <1>2, <1>3, <1>4, <1>5, <1>6
     DEF Next, FeedStep, EngineStep, ConsumerStep, ClockStep, ConsumerNext,
         EngineNext, Run, AlertDone, vars, consumerVars

\* At most one judgement per bit between resets, at most one signal per side
\* of it, long before short, and every signal received in the order sent.
THEOREM ImplementsLedgerSafety ==
  ASSUME RoomForAll
  PROVE  Spec => LedgerSafety
<1>1. Init => Ledger!LedgerInit
  BY LedgerInitial
<1>2. TypeOK /\ NoSignalDropped /\ [Next]_vars => [Ledger!LedgerNext]_(Ledger!ledgerVars)
  BY LedgerStep
<1> QED
  BY <1>1, <1>2, TypeCorrect, NothingDropped, PTL DEF Spec, LedgerSafety
=============================================================================
