------------------------------- MODULE BoxMath -------------------------------
(***************************************************************************)
(* The pure part of the box-spread detector: which pairs of options are    *)
(* candidates, which four legs make the box, and whether a snapshot of     *)
(* their quotes is worth a signal.  Floating point is replaced by an exact *)
(* integer grid: prices and fee rates in ticks of 1/TicksPerBtc BTC,       *)
(* quantities in lots of 1/LotsPerBtc BTC, strikes and index in USD.       *)
(***************************************************************************)
EXTENDS SymbolTable

CONSTANTS
  Params,       \* run-time parameters of the strategy (a record, see below)
  DedupBits     \* number of bits of the dedup mask: 64 in the code

TicksPerBtc == 10000
LotsPerBtc  == 10

\* The strategy as NewBoxSpreadHFT builds it; nothing in the repository
\* changes a parameter afterwards.  Percentages are integers.
NewBoxSpreadHFT ==
  [minStrikeGap |-> 1000, minProfitUSD |-> 1, flatnessMax |-> 200,
   maxQty |-> 0, feePerLegUSD |-> 0, feePerLegRate |-> 1,
   useBandCheck |-> FALSE, smin |-> 0, smax |-> 0, bandPct |-> 10,
   useDirFlatness |-> FALSE, favorSlope |-> 0,
   flatnessMinBTC |-> 0, flatnessMaxBTC |-> 0]

ASSUME BoxMathAssumption ==
  /\ DedupBits \in Nat \ {0}
  /\ DOMAIN Params = DOMAIN NewBoxSpreadHFT
  /\ Params.minStrikeGap \in Nat
  /\ Params.minProfitUSD \in Nat \ {0}
  /\ Params.feePerLegUSD \in Nat
  /\ Params.feePerLegRate \in Nat
  /\ Params.maxQty \in Int /\ Params.smin \in Int /\ Params.smax \in Int
  /\ Params.bandPct \in Int /\ Params.bandPct <= 100

LegNames == {"lc", "lp", "hc", "hp"}
Long  == 1
Short == -1

PairLookup(i, j) ==
  /\ Option[i].expiry = Option[j].expiry
  /\ Option[i].strike # Option[j].strike

LowStrike(i, j) ==
  IF Option[i].strike > Option[j].strike THEN Option[j].strike ELSE Option[i].strike

HighStrike(i, j) ==
  IF Option[i].strike > Option[j].strike THEN Option[i].strike ELSE Option[j].strike

WideEnough(i, j) == HighStrike(i, j) - LowStrike(i, j) >= Params.minStrikeGap

\* The bit of the dedup mask that stands for a pair of strikes.  Neither the
\* expiry nor, on a grid of strikes that DedupBits divides into, the low
\* strike takes part (see HashOnGrid in SignalProofs).
HashBit(low, high) == (low * 1000 + high) % DedupBits

BitOf(i, j) == HashBit(LowStrike(i, j), HighStrike(i, j))
\* Fault: the legs are looked for in every expiry.
FirstOptionAnyExpiry(expiry, strike, isCall) ==
  LET found == {i \in Idx : Option[i].strike = strike /\ Option[i].isCall = isCall}
  IN  IF found = {} THEN 0 ELSE CHOOSE i \in found : \A j \in found : i <= j

\* The first option of that expiry, strike and type, or 0 (the code's -1).
FirstOption(expiry, strike, isCall) ==
  LET found == {i \in Idx : Option[i] = [strike |-> strike, expiry |-> expiry,
                                         isCall |-> isCall]}
  IN  IF found = {} THEN 0 ELSE CHOOSE i \in found : \A j \in found : i <= j

Legs(i, j) ==
  LET e  == Option[i].expiry
      lo == LowStrike(i, j)
      hi == HighStrike(i, j)
  IN  [lc |-> FirstOption(e, lo, TRUE), lp |-> FirstOption(e, lo, FALSE),
       hc |-> FirstOption(e, hi, TRUE), hp |-> FirstOption(e, hi, FALSE)]

AllFound(legs) == \A l \in LegNames : legs[l] \in Idx

(***************************************************************************)
(* Evaluation of a snapshot d: [LegNames -> depth entry].  A long box buys *)
(* lc and hp at the ask and sells lp and hc at the bid; a short box buys   *)
(* hc and lp and sells lc and hp.                                          *)
(***************************************************************************)
Buys(side)  == IF side = Long THEN {"lc", "hp"} ELSE {"hc", "lp"}
Sells(side) == LegNames \ Buys(side)

Sane(d, index) ==
  /\ \A l \in LegNames : d[l].askPx > 0 /\ d[l].bidPx > 0
  /\ index > 0

Smallest(S) == CHOOSE x \in S : \A y \in S : x <= y

ExecutableQty(side, d) ==
  LET q == Smallest({d[l].askQty : l \in Buys(side)}
                      \cup {d[l].bidQty : l \in Sells(side)})
  IN  IF Params.maxQty > 0 /\ q > Params.maxQty THEN Params.maxQty ELSE q

\* What one lot of the box costs, in ticks per unit of quantity.
NetBTC(side, d) ==
  IF side = Long
  THEN d["lc"].askPx + d["hp"].askPx - d["lp"].bidPx - d["hc"].bidPx
  ELSE d["hc"].askPx + d["lp"].askPx - d["lc"].bidPx - d["hp"].bidPx

Abs(x) == IF x < 0 THEN -x ELSE x

\* A bound of 0 means "no bound".
InBand(x, min, max) == (min > 0 => x >= min) /\ (max > 0 => x <= max)

PassFlatnessDirectional(slope) ==
  LET p == Params
  IN  \/ /\ ~p.useDirFlatness
         /\ InBand(Abs(slope), p.flatnessMinBTC,
                   IF p.flatnessMaxBTC <= 0 THEN p.flatnessMax ELSE p.flatnessMaxBTC)
      \/ /\ p.useDirFlatness /\ p.favorSlope > 0
         /\ slope > 0 /\ InBand(slope, p.flatnessMinBTC, p.flatnessMaxBTC)
      \/ /\ p.useDirFlatness /\ p.favorSlope < 0
         /\ slope < 0 /\ InBand(-slope, p.flatnessMinBTC, p.flatnessMaxBTC)
      \/ /\ p.useDirFlatness /\ p.favorSlope = 0
         /\ InBand(Abs(slope), p.flatnessMinBTC, p.flatnessMaxBTC)

\* The band of settlement prices over which the floor is taken.
Band(index) ==
  LET fixed == Params.smin > 0 /\ Params.smax >= Params.smin
      b     == IF Params.bandPct <= 0 THEN 10 ELSE Params.bandPct
  IN  IF ~Params.useBandCheck THEN [min |-> index, max |-> index]
      ELSE IF fixed THEN [min |-> Params.smin, max |-> Params.smax]
      ELSE [min |-> (index * (100 - b)) \div 100, max |-> (index * (100 + b)) \div 100]

WorstSettlement(net, index) ==
  IF net < 0 THEN Band(index).min ELSE Band(index).max
\* Fault: a short box is credited with the width of the box.
UnitProfitUnsigned(side, width, net, settlement) ==
  width * TicksPerBtc - net * settlement
    - 4 * (Params.feePerLegUSD * TicksPerBtc + Params.feePerLegRate * settlement)

\* Profit of one unit of the box, in 1/TicksPerBtc USD; fees are paid on four
\* legs.  sign(side) * fixedUSD is what the box pays at expiry.
UnitProfit(side, width, net, settlement) ==
  side * width * TicksPerBtc - net * settlement
    - 4 * (Params.feePerLegUSD * TicksPerBtc + Params.feePerLegRate * settlement)

\* profitFloor >= minProfitUSD, both sides scaled by TicksPerBtc * LotsPerBtc.
Profitable(side, d, width, index) ==
  LET net == NetBTC(side, d)
  IN  ExecutableQty(side, d) * UnitProfit(side, width, net, WorstSettlement(net, index))
        >= Params.minProfitUSD * TicksPerBtc * LotsPerBtc

\* checkBoxFast, from the sanity check to the send, for one side of the box.
Emits(side, d, width, index) ==
  /\ Sane(d, index)
  /\ ExecutableQty(side, d) > 0
  /\ PassFlatnessDirectional(-NetBTC(side, d))
  /\ Profitable(side, d, width, index)

\* Some leg is quoted with its bid above its ask.
Crossed(d) == \E l \in LegNames : d[l].bidPx > d[l].askPx
=============================================================================
