------------------------------ MODULE BoxEngine ------------------------------
(***************************************************************************)
(* strategy.BoxSpreadHFT: the goroutine Run that takes one Update at a     *)
(* time, debounces it, walks the option table for pairs with the updated   *)
(* option and evaluates each box that the dedup mask has not seen.  The    *)
(* steps other goroutines can see, or that see their work, are actions of  *)
(* their own: receiving an update, testing and setting the mask, each of   *)
(* the 16 loads of the snapshot, each send.                                *)
(***************************************************************************)
EXTENDS SharedBook, BoxMath

CONSTANTS
  Debounce,     \* debounceNs, in ticks of the clock
  SignalCap,    \* capacity of the signals channel: 128 in the code
  MaxResets     \* calls of ResetSignalMask; nothing in src/ calls it

ASSUME BoxEngineAssumption ==
  /\ Debounce \in Nat
  /\ SignalCap \in Nat \ {0}
  /\ MaxResets \in Nat

VARIABLES
  pc,           \* where Run stands
  cur,          \* the update being processed
  scan,         \* i of the loop in processUpdateHFT
  box,          \* lcIdx, lpIdx, hcIdx, hpIdx
  snap,         \* what has been loaded of lc, lp, hc, hp
  loaded,       \* number of loads done, 0 .. Len(ReadOrder)
  lastCheck,
  mask,         \* recentSignals, as the set of its bits
  resets,       \* calls of ResetSignalMask so far
  signals,      \* the signals channel
  emitted       \* history: every signal sent, whether or not it found room

engineVars == <<pc, cur, scan, box, snap, loaded, lastCheck,
                mask, resets, signals, emitted>>

\* ReadDepthFast of lc, lp, hc, hp in turn.  It also loads LastUpdateNs,
\* which checkBoxFast never looks at.
QuoteFields == <<"bidPx", "bidQty", "askPx", "askQty">>
LegOrder    == <<"lc", "lp", "hc", "hp">>
Loads       == 16

LegOf(k)   == LegOrder[((k - 1) \div 4) + 1]
FieldOf(k) == QuoteFields[((k - 1) % 4) + 1]

Box    == [LegNames -> 0 .. Count]
NoBox  == [l \in LegNames |-> 0]
Quote  == [bidPx : Nat, bidQty : Nat, askPx : Nat, askQty : Nat]
NoSnap == [l \in LegNames |->
             [bidPx |-> 0, bidQty |-> 0, askPx |-> 0, askQty |-> 0]]

Bits == 0 .. DedupBits - 1

\* A BoxSignal; its strikes are those of its legs, its time is not used.
Signal == [box : [LegNames -> Idx], side : {Long, Short}]

EngineTypeOK ==
  /\ pc \in {"wait", "scan", "load", "long", "short"}
  /\ cur \in Update \cup {NoUpdate}
  /\ pc # "wait" => cur \in Update
  /\ scan \in 1 .. Count + 1
  /\ pc # "wait" => scan \in Idx
  /\ box \in Box
  /\ pc \in {"load", "long", "short"} => box \in [LegNames -> Idx]
  /\ snap \in [LegNames -> Quote]
  /\ loaded \in 0 .. Loads
  /\ pc \in {"wait", "scan"} => loaded = 0
  /\ pc = "load" => loaded < Loads
  /\ lastCheck \in Nat
  /\ mask \in SUBSET Bits
  /\ resets \in 0 .. MaxResets
  /\ signals \in Seq(Signal)
  /\ emitted \in Seq(Signal)

EngineInit ==
  /\ pc = "wait"
  /\ cur = NoUpdate
  /\ scan = 1
  /\ box = NoBox
  /\ snap = NoSnap
  /\ loaded = 0
  /\ lastCheck = 0
  /\ mask = {}
  /\ resets = 0
  /\ signals = <<>>
  /\ emitted = <<>>

\* Run receives; an update within the debounce window of the last one that
\* was processed is dropped.
SkipUpdate ==
  /\ pc = "wait"
  /\ updates # <<>>
  /\ Head(updates).time - lastCheck < Debounce
  /\ updates' = Tail(updates)
  /\ UNCHANGED <<engineVars, book, index, clock>>
\* Fault: the debounce window starts when the update is taken, not when it
\* was sent.
TakeUpdateChecksNow ==
  /\ pc = "wait"
  /\ updates # <<>>
  /\ Head(updates).time - lastCheck >= Debounce
  /\ updates' = Tail(updates)
  /\ lastCheck' = clock
  /\ cur' = Head(updates)
  /\ pc' = "scan"
  /\ scan' = 1
  /\ UNCHANGED <<box, snap, loaded, mask, resets, signals, emitted,
                 book, index, clock>>

TakeUpdate ==
  /\ pc = "wait"
  /\ updates # <<>>
  /\ Head(updates).time - lastCheck >= Debounce
  /\ updates' = Tail(updates)
  /\ lastCheck' = Head(updates).time
  /\ cur' = Head(updates)
  /\ pc' = "scan"
  /\ scan' = 1
  /\ UNCHANGED <<box, snap, loaded, mask, resets, signals, emitted,
                 book, index, clock>>
\* Fault: the loop runs one option too far.
AdvanceTooFar ==
  /\ IF scan <= Count
     THEN pc' = "scan" /\ scan' = scan + 1 /\ UNCHANGED cur
     ELSE pc' = "wait" /\ scan' = 1 /\ cur' = NoUpdate
  /\ box' = NoBox
  /\ snap' = NoSnap
  /\ loaded' = 0

\* Fault: the loop starts over instead of returning.
AdvanceWraps ==
  /\ pc' = "scan"
  /\ scan' = (scan % Count) + 1
  /\ UNCHANGED cur
  /\ box' = NoBox
  /\ snap' = NoSnap
  /\ loaded' = 0

\* On to the next option of the table, or back to the channel.
Advance ==
  /\ IF scan < Count
     THEN pc' = "scan" /\ scan' = scan + 1 /\ UNCHANGED cur
     ELSE pc' = "wait" /\ scan' = 1 /\ cur' = NoUpdate
  /\ box' = NoBox
  /\ snap' = NoSnap
  /\ loaded' = 0

\* checkBoxFast gets as far as the dedup mask for this pair.
Candidate(i, j) == PairLookup(i, j) /\ WideEnough(i, j)

Seen(i, j) == BitOf(i, j) \in mask

PassOver ==
  /\ pc = "scan"
  /\ Candidate(cur.sym, scan) => Seen(cur.sym, scan)
  /\ Advance
  /\ UNCHANGED <<lastCheck, mask, resets, signals, emitted,
                 book, index, clock, updates>>
\* Fault: the bit is tested and never set.
MarkPairWithoutMark ==
  /\ pc = "scan"
  /\ Candidate(cur.sym, scan)
  /\ ~Seen(cur.sym, scan)
  /\ LET legs == Legs(cur.sym, scan)
     IN  IF AllFound(legs)
         THEN pc' = "load" /\ box' = legs /\ UNCHANGED <<cur, scan, snap, loaded>>
         ELSE Advance
  /\ UNCHANGED <<lastCheck, mask, resets, signals, emitted,
                 book, index, clock, updates>>

\* The bit is set as soon as it is found clear, before the legs are looked
\* for and before any quote is read.
MarkPair ==
  /\ pc = "scan"
  /\ Candidate(cur.sym, scan)
  /\ ~Seen(cur.sym, scan)
  /\ mask' = mask \cup {BitOf(cur.sym, scan)}
  /\ LET legs == Legs(cur.sym, scan)
     IN  IF AllFound(legs)
         THEN pc' = "load" /\ box' = legs /\ UNCHANGED <<cur, scan, snap, loaded>>
         ELSE Advance
  /\ UNCHANGED <<lastCheck, resets, signals, emitted, book, index, clock, updates>>

\* One load of the "top-of-book snapshot".
LoadField ==
  /\ pc = "load"
  /\ LET l == LegOf(loaded + 1)
         f == FieldOf(loaded + 1)
     IN  snap' = [snap EXCEPT ![l] = [@ EXCEPT ![f] = book[box[l]][f]]]
  /\ loaded' = loaded + 1
  /\ pc' = IF loaded' = Loads THEN "long" ELSE "load"
  /\ UNCHANGED <<cur, scan, box, lastCheck, mask, resets, signals, emitted,
                 book, index, clock, updates>>

BoxWidth == Option[box["hc"]].strike - Option[box["lc"]].strike

EmitsNow(side) == Emits(side, snap, BoxWidth, cur.index)
\* Fault: one place of the channel is never used.
EvaluateSpare(side) ==
  LET s == [box |-> box, side |-> side]
  IN  IF EmitsNow(side)
      THEN /\ emitted' = Append(emitted, s)
           /\ signals' = IF Len(signals) + 1 < SignalCap THEN Append(signals, s)
                         ELSE signals
      ELSE UNCHANGED <<emitted, signals>>

\* A send that gives up when the channel is full, if this side is worth one.
Evaluate(side) ==
  LET s == [box |-> box, side |-> side]
  IN  IF EmitsNow(side)
      THEN /\ emitted' = Append(emitted, s)
           /\ signals' = IF Len(signals) < SignalCap THEN Append(signals, s)
                         ELSE signals
      ELSE UNCHANGED <<emitted, signals>>

DecideLong ==
  /\ pc = "long"
  /\ Evaluate(Long)
  /\ pc' = "short"
  /\ UNCHANGED <<cur, scan, box, snap, loaded, lastCheck, mask, resets,
                 book, index, clock, updates>>
\* Fault: the short block was copied from the long one.
DecideShortCopied ==
  /\ pc = "short"
  /\ Evaluate(Long)
  /\ Advance
  /\ UNCHANGED <<lastCheck, mask, resets, book, index, clock, updates>>

DecideShort ==
  /\ pc = "short"
  /\ Evaluate(Short)
  /\ Advance
  /\ UNCHANGED <<lastCheck, mask, resets, book, index, clock, updates>>

\* The exported reset, called from outside the engine's goroutine.  The test
\* and the set of a bit are two instructions, but a reset between them has
\* the effect of one just before the test.
ResetSignalMask ==
  /\ resets < MaxResets
  /\ resets' = resets + 1
  /\ mask' = {}
  /\ UNCHANGED <<pc, cur, scan, box, snap, loaded, lastCheck, signals, emitted,
                 book, index, clock, updates>>

Run == \/ SkipUpdate \/ TakeUpdate
       \/ PassOver \/ MarkPair
       \/ LoadField \/ DecideLong \/ DecideShort

EngineNext == Run \/ ResetSignalMask
=============================================================================
