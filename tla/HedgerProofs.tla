---------------------------- MODULE HedgerProofs -----------------------------
(***************************************************************************)
(* The types of the process, and what the FIX callback does to the shared  *)
(* book, however the engine and the consumer interleave with its stores.   *)
(* None of the properties of the feed is inductive; each follows from an   *)
(* invariant about the state inside a callback:                            *)
(*   Ordered       the wake-ups in the channel lie between lastCheck and   *)
(*                 the clock, in order;                                    *)
(*   Storing       the fields stored so far are those of neu, neu holds    *)
(*                 the side being applied and repeats the entry's other    *)
(*                 side, and the callback's index is the shared one;       *)
(*   Once          there is one call of ApplyUpdateFast for a side;        *)
(*   SettledExact  an entry with what is still to be applied put in shows  *)
(*                 what the venue's messages add up to.                    *)
(***************************************************************************)
EXTENDS Hedger, FixParseProofs

(***************************************************************************)
(* Types.                                                                  *)
(***************************************************************************)

LEMMA WriteOrderFields ==
  ASSUME NEW k \in 1 .. Len(WriteOrder)
  PROVE  WriteOrder[k] \in FieldNames
<1>1. k \in {1, 2, 3, 4, 5}
  BY DEF WriteOrder
<1> QED
  BY <1>1 DEF WriteOrder, FieldNames

LEMMA EntryStore ==
  ASSUME NEW e \in DepthEntry, NEW f \in FieldNames, NEW v \in Nat
  PROVE  [e EXCEPT ![f] = v] \in DepthEntry
BY DEF DepthEntry, FieldNames

LEMMA EntryLoad ==
  ASSUME NEW e \in DepthEntry, NEW f \in FieldNames
  PROVE  e[f] \in Nat
BY DEF DepthEntry, FieldNames

LEMMA QuoteStore ==
  ASSUME NEW e \in Quote, NEW f \in FieldNames \ {"ts"}, NEW v \in Nat
  PROVE  [e EXCEPT ![f] = v] \in Quote
BY DEF Quote, FieldNames

LEMMA LoadOrder ==
  ASSUME NEW k \in 1 .. Loads
  PROVE  /\ LegOf(k) \in LegNames
         /\ FieldOf(k) \in FieldNames \ {"ts"}
<1>1. ((k - 1) \div 4) + 1 \in {1, 2, 3, 4}
  BY DEF Loads
<1>2. ((k - 1) % 4) + 1 \in {1, 2, 3, 4}
  BY DEF Loads
<1>3. LegOf(k) \in LegNames
  BY <1>1 DEF LegOf, LegOrder, LegNames
<1>4. FieldOf(k) \in FieldNames \ {"ts"}
  BY <1>2 DEF FieldOf, QuoteFields, FieldNames
<1> QED
  BY <1>3, <1>4

LEMMA CountType == Count \in Nat /\ Idx = 1 .. Count
BY SymbolsAssumption DEF Count, Idx

LEMMA StrikeType ==
  ASSUME NEW i \in Idx
  PROVE  Option[i].strike \in Nat
<1>1. i \in 1 .. Len(Symbols)
  BY SymbolsAssumption DEF Idx, Count
<1> DEFINE Names == [parsed : BOOLEAN, expiry : STRING, strike : Nat, isCall : BOOLEAN]
<1>2. Symbols[i] \in Names
  <2> HIDE DEF Names
  <2>1. Symbols \in Seq(Names)
    BY SymbolsAssumption DEF Names
  <2> QED
    BY <1>1, <2>1
<1> QED
  BY <1>2 DEF Option

LEMMA BitType ==
  ASSUME NEW i \in Idx, NEW j \in Idx
  PROVE  BitOf(i, j) \in Bits
<1>1. LowStrike(i, j) \in Nat /\ HighStrike(i, j) \in Nat
  BY StrikeType DEF LowStrike, HighStrike
<1>2. LowStrike(i, j) * 1000 + HighStrike(i, j) \in Nat
  BY <1>1
<1> QED
  BY <1>2, BoxMathAssumption DEF BitOf, HashBit, Bits

LEMMA LegsType ==
  ASSUME NEW i, NEW j, AllFound(Legs(i, j))
  PROVE  Legs(i, j) \in [LegNames -> Idx]
BY DEF AllFound, Legs, LegNames

LEMMA MessageType ==
  ASSUME NEW n \in 1 .. Len(Feed), NEW m \in Feed[n]
  PROVE  m \in Message
BY FixFeedAssumption

LEMMA TodoType ==
  ASSUME NEW m \in Message
  PROVE  Todo(m) \in Seq(Pending)
<1>1. ASSUME NEW name \in SideNames, NEW q \in QuoteSide
      PROVE  Calls(name, q) \in Seq(Pending)
  <2>1. [side |-> name, px |-> q.px, qty |-> q.qty] \in Pending
    BY <1>1 DEF QuoteSide, Pending
  <2> QED
    BY <2>1 DEF Calls
<1>2. /\ FastParseHFT(m, "bid") \in QuoteSide
      /\ FastParseHFT(m, "ask") \in QuoteSide
  BY ParserType DEF Message
<1>3. /\ Calls("bid", FastParseHFT(m, "bid")) \in Seq(Pending)
      /\ Calls("ask", FastParseHFT(m, "ask")) \in Seq(Pending)
  BY <1>1, <1>2 DEF SideNames
<1> QED
  BY <1>3 DEF Todo

LEMMA WithSideType ==
  ASSUME NEW e \in DepthEntry, NEW c \in Pending, NEW t \in Nat
  PROVE  [WithSide(e, c) EXCEPT !.ts = t] \in DepthEntry
BY DEF WithSide, DepthEntry, Pending

(***************************************************************************)
(* Type correctness.                                                       *)
(***************************************************************************)

LEMMA FeedTyping ==
  ASSUME SharedBookTypeOK, FeedTypeOK, FeedNext
  PROVE  SharedBookTypeOK' /\ FeedTypeOK'
<1> USE DEF SharedBookTypeOK, FeedTypeOK
<1>1. CASE Receive
  <2>1. PICK m \in Feed[nmsg + 1] : FromApp(m)
    BY <1>1 DEF Receive
  <2>2. nmsg + 1 \in 1 .. Len(Feed)
    BY <1>1 DEF Receive
  <2>3. m \in Message
    BY <2>2, MessageType
  <2>4. MessageIndex(m) \in Nat
    BY <2>3, IndexType DEF MessageIndex, Message
  <2>5. index' \in Nat
    BY <2>1, <2>4 DEF FromApp, SetIndexPrice
  <2>6. job' \in [sym : Idx \cup {NoSym}, index : Nat, todo : Seq(Pending)]
    BY <2>1, <2>3, <2>4, TodoType DEF FromApp, Message
  <2>7. job'.todo # <<>> => job'.sym \in Idx
    BY <2>1, <2>3 DEF FromApp, Message, Todo
  <2>8. quoted' \in [Idx -> TopOfBook]
    <3>1. CASE m.sym = NoSym
      BY <3>1, <2>1 DEF FromApp
    <3>2. CASE m.sym # NoSym
      <4>1. m.sym \in Idx
        BY <2>3, <3>2 DEF Message
      <4>2. quoted[m.sym] \in TopOfBook
        BY <4>1
      <4> DEFINE after == [side \in SideNames |->
                             VenueSide(m, side, quoted[m.sym][side])]
      <4>3. after \in TopOfBook
        <5>1. ASSUME NEW side \in SideNames
              PROVE  VenueSide(m, side, quoted[m.sym][side]) \in Level
          <6>1. quoted[m.sym][side] \in Level
            BY <4>2 DEF TopOfBook
          <6>2. m.entries \in Seq(Entry) /\ m.type \in {"W", "X"}
            BY <2>1, <2>2, <2>3, <3>2, FixFeedAssumption DEF Message
          <6> QED
            BY <6>1, <6>2, VenueType DEF Level
        <5> QED
          BY <5>1 DEF TopOfBook
      <4>4. quoted' = [quoted EXCEPT ![m.sym] = after]
        BY <2>1, <3>2 DEF FromApp
      <4> HIDE DEF after
      <4> QED
        BY <4>3, <4>4
    <3> QED
      BY <3>1, <3>2
  <2> QED
    BY <2>1, <2>2, <2>5, <2>6, <2>7, <2>8 DEF FromApp
<1>2. CASE BeginApply
  <2>1. Head(job.todo) \in Pending /\ job.sym \in Idx
    BY <1>2 DEF BeginApply
  <2>2. neu' \in DepthEntry
    BY <1>2, <2>1, WithSideType DEF BeginApply
  <2> QED
    BY <1>2, <2>2 DEF BeginApply, Publishing, WriteOrder
<1>3. CASE StoreField
  <2>1. job.sym \in Idx
    BY <1>3 DEF StoreField, WriteOrder
  <2> DEFINE f == WriteOrder[step]
  <2>2. f \in FieldNames
    BY <1>3, WriteOrderFields DEF StoreField
  <2> DEFINE e == [book[job.sym] EXCEPT ![f] = neu[f]]
  <2>3. e \in DepthEntry
    BY <2>1, <2>2, EntryStore, EntryLoad
  <2>4. book' = [book EXCEPT ![job.sym] = e]
    BY <1>3 DEF StoreField, StoreDepth
  <2>5. book' \in [Idx -> DepthEntry]
    BY <2>1, <2>3, <2>4
  <2>6. step' \in 0 .. Publishing
    BY <1>3 DEF StoreField, Publishing, WriteOrder
  <2> QED
    BY <1>3, <2>5, <2>6 DEF StoreField, WriteOrder
<1>4. CASE Publish
  <2>1. job.todo # <<>> /\ job.sym \in Idx
    BY <1>4 DEF Publish, Publishing, WriteOrder
  <2> DEFINE u == [sym |-> job.sym, index |-> job.index, time |-> clock]
  <2>2. u \in Update
    BY <2>1 DEF Update
  <2>3. updates' \in Seq(Update)
    BY <1>4, <2>2 DEF Publish, PushUpdate
  <2>4. index' \in Nat
    BY <1>4 DEF Publish, SetIndexPrice
  <2>5. /\ job' \in [sym : Idx \cup {NoSym}, index : Nat, todo : Seq(Pending)]
        /\ job'.todo # <<>> => job'.sym \in Idx
    <3>1. CASE Len(job.todo) = 1
      BY <1>4, <3>1 DEF Publish, NoJob
    <3>2. CASE Len(job.todo) # 1
      <4>1. Tail(job.todo) \in Seq(Pending)
        BY <2>1
      <4> QED
        BY <1>4, <2>1, <3>2, <4>1 DEF Publish
    <3> QED
      BY <3>1, <3>2
  <2>6. neu' \in DepthEntry
    BY <1>4 DEF Publish, Empty, DepthEntry
  <2> QED
    BY <1>4, <2>3, <2>4, <2>5, <2>6 DEF Publish, Publishing
<1> QED
  BY <1>1, <1>2, <1>3, <1>4 DEF FeedNext, Applying

\* Advance alone: what it leaves in the engine's local variables.
LEMMA AdvanceTyping ==
  ASSUME EngineTypeOK, pc # "wait", Advance
  PROVE  /\ pc' \in {"wait", "scan"}
         /\ cur' \in Update \cup {NoUpdate}
         /\ pc' # "wait" => cur' \in Update
         /\ scan' \in 1 .. Count + 1
         /\ pc' # "wait" => scan' \in Idx
         /\ box' \in Box
         /\ snap' \in [LegNames -> Quote]
         /\ loaded' = 0
<1>1. box' \in Box /\ loaded' = 0
  BY CountType DEF Advance, Box, NoBox
<1>2. snap' \in [LegNames -> Quote]
  BY DEF Advance, NoSnap, Quote
<1>3. /\ pc' \in {"wait", "scan"}
      /\ cur' \in Update \cup {NoUpdate}
      /\ pc' # "wait" => cur' \in Update
      /\ scan' \in 1 .. Count + 1
      /\ pc' # "wait" => scan' \in Idx
  BY CountType DEF Advance, EngineTypeOK
<1> QED
  BY <1>1, <1>2, <1>3

LEMMA EvaluateTyping ==
  ASSUME EngineTypeOK, pc \in {"long", "short"},
         NEW side \in {Long, Short}, Evaluate(side)
  PROVE  signals' \in Seq(Signal) /\ emitted' \in Seq(Signal)
<1> DEFINE s == [box |-> box, side |-> side]
<1>1. s \in Signal
  BY DEF EngineTypeOK, Signal
<1>2. signals \in Seq(Signal) /\ emitted \in Seq(Signal)
  BY DEF EngineTypeOK
<1>3. /\ emitted' = emitted \/ emitted' = Append(emitted, s)
      /\ signals' = signals \/ signals' = Append(signals, s)
  BY DEF Evaluate
<1> HIDE DEF s
<1>4. Append(emitted, s) \in Seq(Signal) /\ Append(signals, s) \in Seq(Signal)
  BY <1>1, <1>2
<1> QED
  BY <1>2, <1>3, <1>4

LEMMA EngineTyping ==
  ASSUME SharedBookTypeOK, EngineTypeOK, EngineNext
  PROVE  SharedBookTypeOK' /\ EngineTypeOK'
<1> USE CountType
<1>1. CASE SkipUpdate
  BY <1>1 DEF SkipUpdate, engineVars, SharedBookTypeOK, EngineTypeOK
<1>2. CASE TakeUpdate
  <2>1. Head(updates) \in Update
    BY <1>2 DEF TakeUpdate, SharedBookTypeOK
  <2>2. 1 \in Idx /\ lastCheck' \in Nat
    BY <1>2, <2>1 DEF TakeUpdate, Update
  <2>3. SharedBookTypeOK'
    BY <1>2 DEF TakeUpdate, SharedBookTypeOK
  <2>4. EngineTypeOK'
    BY <1>2, <2>1, <2>2 DEF TakeUpdate, EngineTypeOK
  <2> QED
    BY <2>3, <2>4
<1>3. CASE PassOver
  <2>1. SharedBookTypeOK'
    BY <1>3 DEF PassOver, SharedBookTypeOK
  <2>2. EngineTypeOK'
    BY <1>3, AdvanceTyping DEF PassOver, EngineTypeOK, Loads
  <2> QED
    BY <2>1, <2>2
<1>4. CASE MarkPair
  <2>1. SharedBookTypeOK'
    BY <1>4 DEF MarkPair, SharedBookTypeOK
  <2>2. cur.sym \in Idx /\ scan \in Idx
    BY <1>4 DEF MarkPair, EngineTypeOK, Update
  <2>3. mask' \in SUBSET Bits
    BY <1>4, <2>2, BitType DEF MarkPair, EngineTypeOK
  <2> DEFINE legs == Legs(cur.sym, scan)
  <2>4. CASE AllFound(legs)
    <3>1. pc' = "load" /\ box' = legs /\ UNCHANGED <<cur, scan, snap, loaded>>
      BY <1>4, <2>4 DEF MarkPair
    <3>2. box' \in [LegNames -> Idx]
      BY <2>4, <3>1, LegsType
    <3>3. box' \in Box
      BY <3>2 DEF Box
    <3>4. loaded < Loads
      <4>1. loaded = 0
        BY <1>4 DEF MarkPair, EngineTypeOK
      <4> QED
        BY <4>1 DEF Loads
    <3> QED
      BY <1>4, <2>1, <2>3, <3>1, <3>2, <3>3, <3>4 DEF MarkPair, EngineTypeOK
  <2>5. CASE ~AllFound(legs)
    <3>1. Advance
      BY <1>4, <2>5 DEF MarkPair
    <3> QED
      BY <1>4, <2>1, <2>3, <3>1, AdvanceTyping DEF MarkPair, EngineTypeOK, Loads
  <2> QED
    BY <2>4, <2>5
<1>5. CASE LoadField
  <2>1. SharedBookTypeOK'
    BY <1>5 DEF LoadField, SharedBookTypeOK
  <2>2. loaded + 1 \in 1 .. Loads
    BY <1>5 DEF LoadField, EngineTypeOK, Loads
  <2> DEFINE l == LegOf(loaded + 1)
             f == FieldOf(loaded + 1)
             v == book[box[l]][f]
  <2>3. l \in LegNames /\ f \in FieldNames \ {"ts"}
    BY <2>2, LoadOrder
  <2>4. v \in Nat
    <3>1. box[l] \in Idx
      BY <1>5, <2>3 DEF LoadField, EngineTypeOK
    <3>2. book[box[l]] \in DepthEntry
      BY <3>1 DEF SharedBookTypeOK
    <3> QED
      BY <2>3, <3>2, EntryLoad
  <2>5. snap' \in [LegNames -> Quote]
    <3>1. snap[l] \in Quote
      BY <2>3 DEF EngineTypeOK
    <3>2. [snap[l] EXCEPT ![f] = v] \in Quote
      BY <2>3, <2>4, <3>1, QuoteStore
    <3>3. snap' = [snap EXCEPT ![l] = [snap[l] EXCEPT ![f] = v]]
      BY <1>5 DEF LoadField
    <3> HIDE DEF l, f, v
    <3> QED
      BY <2>3, <3>2, <3>3 DEF EngineTypeOK
  <2>6. /\ loaded' \in 0 .. Loads
        /\ pc' \in {"load", "long"}
        /\ pc' = "load" => loaded' < Loads
    BY <1>5, <2>2 DEF LoadField, Loads
  <2>7. /\ cur' = cur /\ scan' = scan /\ box' = box /\ lastCheck' = lastCheck
        /\ mask' = mask /\ resets' = resets /\ signals' = signals
        /\ emitted' = emitted /\ pc = "load"
    BY <1>5 DEF LoadField
  <2> HIDE DEF l, f, v
  <2>8. EngineTypeOK'
    BY <2>5, <2>6, <2>7 DEF EngineTypeOK
  <2> QED
    BY <2>1, <2>8
<1>6. CASE DecideLong
  <2>1. signals' \in Seq(Signal) /\ emitted' \in Seq(Signal)
    BY <1>6, EvaluateTyping DEF DecideLong
  <2> QED
    BY <1>6, <2>1 DEF DecideLong, SharedBookTypeOK, EngineTypeOK
<1>7. CASE DecideShort
  <2>1. signals' \in Seq(Signal) /\ emitted' \in Seq(Signal)
    BY <1>7, EvaluateTyping DEF DecideShort
  <2> QED
    BY <1>7, <2>1, AdvanceTyping
       DEF DecideShort, SharedBookTypeOK, EngineTypeOK, Loads
<1>8. CASE ResetSignalMask
  <2>1. resets' \in 0 .. MaxResets
    BY <1>8, BoxEngineAssumption DEF ResetSignalMask, EngineTypeOK
  <2> QED
    BY <1>8, <2>1 DEF ResetSignalMask, SharedBookTypeOK, EngineTypeOK
<1> QED
  BY <1>1, <1>2, <1>3, <1>4, <1>5, <1>6, <1>7, <1>8 DEF EngineNext, Run

LEMMA AlertTyping ==
  ASSUME NEW s \in Signal
  PROVE  AlertText(s) \in [buy : SUBSET Idx, sell : SUBSET Idx]
<1>1. \A l \in LegNames : s.box[l] \in Idx
  BY DEF Signal
<1> QED
  BY <1>1 DEF AlertText, LegNames

LEMMA ConsumerTyping ==
  ASSUME SharedBookTypeOK, EngineTypeOK, ConsumerTypeOK, ConsumerNext
  PROVE  SharedBookTypeOK' /\ EngineTypeOK' /\ ConsumerTypeOK'
<1>1. CASE TakeSignal
  <2>1. Head(signals) \in Signal /\ Tail(signals) \in Seq(Signal)
    BY <1>1 DEF TakeSignal, EngineTypeOK
  <2>2. delivered' \in Seq(Signal)
    BY <1>1, <2>1 DEF TakeSignal, ConsumerTypeOK
  <2>3. alert' \in [buy : SUBSET Idx, sell : SUBSET Idx]
    BY <1>1, <2>1, AlertTyping DEF TakeSignal
  <2>4. SharedBookTypeOK'
    BY <1>1 DEF TakeSignal, SharedBookTypeOK
  <2>5. EngineTypeOK'
    BY <1>1, <2>1 DEF TakeSignal, EngineTypeOK
  <2> QED
    BY <2>2, <2>3, <2>4, <2>5 DEF ConsumerTypeOK
<1>2. CASE AlertDone
  BY <1>2 DEF AlertDone, NoAlert, engineVars,
              SharedBookTypeOK, EngineTypeOK, ConsumerTypeOK
<1> QED
  BY <1>1, <1>2 DEF ConsumerNext

LEMMA InitTyping == Init => TypeOK
<1> SUFFICES ASSUME Init PROVE TypeOK
  OBVIOUS
<1> USE CountType
<1>1. SharedBookTypeOK
  BY FixFeedAssumption, BoxEngineAssumption
     DEF Init, SharedBookInit, SharedBookTypeOK, Empty, DepthEntry
<1>2. FeedTypeOK
  BY FixFeedAssumption
     DEF Init, FeedInit, FeedTypeOK, NoJob, NoSym, Empty, DepthEntry,
         NoLevel, Level, TopOfBook, Publishing, WriteOrder
<1>3. EngineTypeOK
  BY BoxEngineAssumption
     DEF Init, EngineInit, EngineTypeOK, Loads, Box, NoBox, NoSnap, Quote
<1>4. ConsumerTypeOK
  BY DEF Init, ConsumerInit, ConsumerTypeOK, NoAlert
<1> QED
  BY <1>1, <1>2, <1>3, <1>4 DEF TypeOK

LEMMA NextTyping == TypeOK /\ [Next]_vars => TypeOK'
<1> SUFFICES ASSUME TypeOK, [Next]_vars PROVE TypeOK'
  OBVIOUS
<1> USE DEF TypeOK
<1>1. CASE FeedStep
  BY <1>1, FeedTyping
     DEF FeedStep, engineVars, consumerVars, EngineTypeOK, ConsumerTypeOK
<1>2. CASE EngineStep
  BY <1>2, EngineTyping
     DEF EngineStep, feedVars, consumerVars, FeedTypeOK, ConsumerTypeOK
<1>3. CASE ConsumerStep
  BY <1>3, ConsumerTyping DEF ConsumerStep, feedVars, FeedTypeOK
<1>4. CASE ClockStep
  BY <1>4 DEF ClockStep, Tick, feedVars, engineVars, consumerVars,
              SharedBookTypeOK, FeedTypeOK, EngineTypeOK, ConsumerTypeOK
<1>5. CASE UNCHANGED vars
  BY <1>5 DEF vars, sharedVars, feedVars, engineVars, consumerVars,
              SharedBookTypeOK, FeedTypeOK, EngineTypeOK, ConsumerTypeOK
<1> QED
  BY <1>1, <1>2, <1>3, <1>4, <1>5 DEF Next

\* Every variable keeps its type, and the parts of the state that only mean
\* something in some control states (the option being applied, the update
\* being processed, the legs being read) are there when they are needed: no
\* table is ever read out of its bounds.
THEOREM TypeCorrect == Spec => []TypeOK
BY InitTyping, NextTyping, PTL DEF Spec

(***************************************************************************)
(* The feed.                                                               *)
(***************************************************************************)

Ordered ==
  /\ lastCheck <= clock
  /\ \A n \in DOMAIN updates : lastCheck <= updates[n].time /\ updates[n].time <= clock
  /\ \A m, n \in DOMAIN updates : m <= n => updates[m].time <= updates[n].time

\* The fields of the side that c leaves as they are.
OtherSide(c) == IF c.side = "bid" THEN {"askPx", "askQty"} ELSE {"bidPx", "bidQty"}

Storing ==
  /\ job.todo # <<>> => job.index = index
  /\ step # 0 =>
       LET c == Head(job.todo)
           e == book[job.sym]
       IN  /\ WithSide(neu, c) = neu
           /\ neu.ts <= clock
           /\ \A f \in OtherSide(c) : e[f] = neu[f]
           /\ \A k \in 1 .. step - 1 : e[WriteOrder[k]] = neu[WriteOrder[k]]

\* There is one call of ApplyUpdateFast for a side.
Once ==
  \A j, k \in DOMAIN job.todo :
    job.todo[j].side = job.todo[k].side => job.todo[j] = job.todo[k]

\* The side of i is still to be applied.
Awaits(j, i, side) ==
  j.sym = i /\ \E k \in DOMAIN j.todo : j.todo[k].side = side

\* What j makes of a side that shows old.
Outcome(j, old, i, side) ==
  LET due == {j.todo[k] : k \in {n \in DOMAIN j.todo : j.sym = i /\ j.todo[n].side = side}}
      c   == CHOOSE c \in due : TRUE
  IN  IF due = {} THEN old ELSE [px |-> c.px, qty |-> c.qty]

\* The quotes of the entries, once the callback returns, are the venue's.
SettledExact ==
  \A i \in Idx : \A side \in SideNames : Shows(Settled(i, side), quoted[i][side])

\* Only the callback writes the book, the index and its own variables.
LEMMA OthersKeepBook ==
  ASSUME [Next]_vars, ~FeedStep
  PROVE  /\ UNCHANGED <<nmsg, job, neu, step, quoted, book, index>>
         /\ clock' \in {clock, clock + 1}
BY DEF Next, EngineStep, ConsumerStep, ClockStep, EngineNext, Run, ConsumerNext,
       SkipUpdate, TakeUpdate, PassOver, MarkPair, LoadField, DecideLong,
       DecideShort, ResetSignalMask, TakeSignal, AlertDone, Tick,
       vars, sharedVars, feedVars, engineVars, consumerVars

(***************************************************************************)
(* Wake-ups in order.                                                      *)
(***************************************************************************)

LEMMA TimesType ==
  ASSUME TypeOK
  PROVE  /\ updates \in Seq(Update) /\ clock \in Nat /\ lastCheck \in Nat
         /\ \A n \in DOMAIN updates : updates[n].time \in Nat
<1>1. updates \in Seq(Update) /\ clock \in Nat /\ lastCheck \in Nat
  BY DEF TypeOK, SharedBookTypeOK, EngineTypeOK
<1>2. \A n \in DOMAIN updates : updates[n] \in Update
  BY <1>1
<1> QED
  BY <1>1, <1>2 DEF Update

LEMMA OrderedStep ==
  ASSUME TypeOK, Ordered, [Next]_vars
  PROVE  Ordered'
<1>1. /\ updates \in Seq(Update) /\ clock \in Nat /\ lastCheck \in Nat
      /\ \A n \in DOMAIN updates : updates[n].time \in Nat
  BY TimesType
<1>2. CASE UNCHANGED <<updates, clock, lastCheck>>
  BY <1>2 DEF Ordered
<1>3. CASE FeedStep
  <2>1. CASE Publish
    <3> DEFINE u == [sym |-> job.sym, index |-> job.index, time |-> clock]
    <3>1. updates' \in {updates, Append(updates, u)} /\ u.time = clock
      BY <2>1 DEF Publish, PushUpdate
    <3>2. clock' = clock /\ lastCheck' = lastCheck
      BY <1>3, <2>1 DEF FeedStep, Publish, engineVars
    <3> HIDE DEF u
    <3>3. CASE updates' = updates
      BY <3>2, <3>3 DEF Ordered
    <3>4. CASE updates' = Append(updates, u)
      <4>1. /\ DOMAIN updates' = 1 .. Len(updates) + 1
            /\ DOMAIN updates = 1 .. Len(updates) /\ Len(updates) \in Nat
            /\ updates'[Len(updates) + 1] = u
            /\ \A n \in DOMAIN updates : updates'[n] = updates[n]
        BY <1>1, <3>4
      <4> QED
        BY <1>1, <3>1, <3>2, <4>1 DEF Ordered
    <3> QED
      BY <3>1, <3>3, <3>4
  <2>2. CASE ~Publish
    BY <1>2, <1>3, <2>2
       DEF FeedStep, FeedNext, Receive, FromApp, Applying, BeginApply, StoreField, engineVars
  <2> QED
    BY <2>1, <2>2
<1>4. CASE SkipUpdate \/ TakeUpdate
  <2>1. /\ updates # <<>> /\ updates' = Tail(updates) /\ clock' = clock
        /\ lastCheck' \in {lastCheck, updates[1].time}
    BY <1>4 DEF SkipUpdate, TakeUpdate, engineVars
  <2>2. /\ Len(updates) \in Nat /\ 1 \in DOMAIN updates
        /\ DOMAIN updates = 1 .. Len(updates)
        /\ DOMAIN updates' = 1 .. Len(updates) - 1
        /\ \A n \in DOMAIN updates' : updates'[n] = updates[n + 1]
    BY <1>1, <2>1
  <2>3. \A n \in DOMAIN updates' : n \in 1 .. Len(updates) /\ n + 1 \in DOMAIN updates
    BY <2>2
  <2>4. lastCheck' <= clock'
    BY <1>1, <2>1, <2>2 DEF Ordered
  <2>5. \A n \in DOMAIN updates' :
          lastCheck' <= updates'[n].time /\ updates'[n].time <= clock'
    <3> SUFFICES ASSUME NEW n \in DOMAIN updates'
                 PROVE  lastCheck' <= updates'[n].time /\ updates'[n].time <= clock'
      OBVIOUS
    <3>1. updates[1].time <= updates[n + 1].time
      BY <2>2, <2>3 DEF Ordered
    <3> QED
      BY <1>1, <2>1, <2>2, <2>3, <3>1 DEF Ordered
  <2>6. \A m, n \in DOMAIN updates' : m <= n => updates'[m].time <= updates'[n].time
    BY <2>2, <2>3 DEF Ordered
  <2> QED
    BY <2>4, <2>5, <2>6 DEF Ordered
<1>5. CASE ClockStep
  BY <1>1, <1>5 DEF ClockStep, Tick, engineVars, Ordered
<1> QED
  BY <1>2, <1>3, <1>4, <1>5
     DEF Next, EngineStep, ConsumerStep, EngineNext, Run, ConsumerNext, PassOver,
         MarkPair, LoadField, DecideLong, DecideShort, ResetSignalMask, TakeSignal,
         AlertDone, vars, sharedVars, engineVars

\* The debounce in Run compares times that never run backwards: whatever is
\* dropped because the channel is full, the wake-ups wait in the order of
\* their times, none before the last one processed, none after now.
THEOREM WakeupsOrdered == Spec => []WakeupsInOrder
<1>1. Init => Ordered
  BY BoxEngineAssumption DEF Init, SharedBookInit, EngineInit, Ordered
<1>2. TypeOK /\ Ordered /\ [Next]_vars => Ordered'
  BY OrderedStep
<1>3. TypeOK /\ Ordered => WakeupsInOrder
  <2> SUFFICES ASSUME TypeOK, Ordered PROVE WakeupsInOrder
    OBVIOUS
  <2> DEFINE waiting == [n \in DOMAIN updates |-> updates[n].time]
             times == <<lastCheck>> \o waiting \o <<clock>>
             last == Len(updates) + 2
  <2>1. /\ updates \in Seq(Update) /\ clock \in Nat /\ lastCheck \in Nat
        /\ \A n \in DOMAIN updates : updates[n].time \in Nat
    BY TimesType
  <2>2. waiting \in Seq(Nat) /\ Len(waiting) = Len(updates) /\ Len(updates) \in Nat
    BY <2>1
  <2>3. /\ DOMAIN times = 1 .. last
        /\ times[1] = lastCheck /\ times[last] = clock
        /\ \A n \in 2 .. last - 1 : n - 1 \in DOMAIN updates /\ times[n] = updates[n - 1].time
    <3> HIDE DEF waiting
    <3>1. /\ DOMAIN times = 1 .. last
          /\ times[1] = lastCheck /\ times[last] = clock
          /\ \A n \in 2 .. last - 1 : times[n] = waiting[n - 1]
      BY <2>1, <2>2
    <3>2. \A n \in 2 .. last - 1 : n - 1 \in DOMAIN updates
      BY <2>1, <2>2
    <3> QED
      BY <3>1, <3>2 DEF waiting
  <2> SUFFICES ASSUME NEW m \in 1 .. last, NEW n \in 1 .. last, m <= n
               PROVE  times[m] <= times[n]
    BY <2>3 DEF WakeupsInOrder
  <2> HIDE DEF times
  <2>4. CASE m = 1
    <3>1. n = 1 \/ n = last \/ n \in 2 .. last - 1
      BY <2>2
    <3> QED
      BY <2>1, <2>3, <2>4, <3>1 DEF Ordered
  <2>5. CASE n = last
    <3>1. m = 1 \/ m = last \/ m \in 2 .. last - 1
      BY <2>2
    <3> QED
      BY <2>1, <2>3, <2>5, <3>1 DEF Ordered
  <2>6. CASE m # 1 /\ n # last
    <3>1. m \in 2 .. last - 1 /\ n \in 2 .. last - 1 /\ m - 1 <= n - 1
      BY <2>2, <2>6
    <3> QED
      BY <2>3, <3>1 DEF Ordered
  <2> QED
    BY <2>4, <2>5, <2>6
<1> QED
  BY <1>1, <1>2, <1>3, TypeCorrect, PTL DEF Spec

(***************************************************************************)
(* The stores of one call of ApplyUpdateFast.                              *)
(***************************************************************************)

\* Applying a side twice is applying it once, and it leaves the other side.
LEMMA WithSideStores ==
  ASSUME NEW e \in DepthEntry, NEW c \in Pending, NEW t \in Nat
  PROVE  LET n == [WithSide(e, c) EXCEPT !.ts = t]
         IN  /\ WithSide(n, c) = n
             /\ n.ts = t
             /\ \A f \in OtherSide(c) : e[f] = n[f]
BY DEF WithSide, OtherSide, DepthEntry, Pending, SideNames

LEMMA TodoHead ==
  ASSUME TypeOK, job.todo # <<>>
  PROVE  /\ job.todo \in Seq(Pending) /\ Len(job.todo) \in Nat \ {0}
         /\ Head(job.todo) \in Pending /\ Head(job.todo) = job.todo[1]
         /\ job.sym \in Idx /\ book[job.sym] \in DepthEntry
<1>1. job.todo \in Seq(Pending) /\ job.sym \in Idx
  BY DEF TypeOK, FeedTypeOK
<1>2. /\ Len(job.todo) \in Nat \ {0} /\ Head(job.todo) \in Pending
      /\ Head(job.todo) = job.todo[1]
  BY <1>1
<1> QED
  BY <1>1, <1>2 DEF TypeOK, SharedBookTypeOK

LEMMA StoreFieldEffect ==
  ASSUME TypeOK, StoreField
  PROVE  /\ WriteOrder[step] \in FieldNames
         /\ \A i \in Idx : i # job.sym => book'[i] = book[i]
         /\ \A f \in FieldNames :
              book'[job.sym][f] = IF f = WriteOrder[step] THEN neu[f] ELSE book[job.sym][f]
<1>1. job.todo # <<>>
  BY DEF StoreField, TypeOK, FeedTypeOK, WriteOrder
<1> DEFINE g == WriteOrder[step]
           e == book[job.sym]
<1>2. job.sym \in Idx /\ e \in DepthEntry /\ book \in [Idx -> DepthEntry]
  BY <1>1, TodoHead DEF TypeOK, SharedBookTypeOK
<1>3. g \in FieldNames
  BY WriteOrderFields DEF StoreField
<1>4. book' = [book EXCEPT ![job.sym] = [e EXCEPT ![g] = neu[g]]]
  BY DEF StoreField, StoreDepth
<1> HIDE DEF g, e
<1>5. DOMAIN e = FieldNames
  BY <1>2 DEF DepthEntry, FieldNames
<1>6. /\ \A i \in Idx : i # job.sym => book'[i] = book[i]
      /\ book'[job.sym] = [e EXCEPT ![g] = neu[g]]
  BY <1>2, <1>4
<1>7. \A f \in FieldNames : book'[job.sym][f] = IF f = g THEN neu[f] ELSE e[f]
  BY <1>3, <1>5, <1>6
<1> QED
  BY <1>3, <1>6, <1>7 DEF g, e

\* When all fields are stored the entry is neu.
LEMMA AllStored ==
  ASSUME TypeOK, Storing, step = Publishing
  PROVE  book[job.sym] = neu
<1>1. job.todo # <<>> /\ neu \in DepthEntry
  BY DEF TypeOK, FeedTypeOK, Publishing, WriteOrder
<1>2. book[job.sym] \in DepthEntry
  BY <1>1, TodoHead
<1>3. \A k \in 1 .. 5 : book[job.sym][WriteOrder[k]] = neu[WriteOrder[k]]
  BY DEF Storing, Publishing, WriteOrder
<1>4. /\ book[job.sym].bidPx = neu.bidPx /\ book[job.sym].bidQty = neu.bidQty
      /\ book[job.sym].askPx = neu.askPx /\ book[job.sym].askQty = neu.askQty
      /\ book[job.sym].ts = neu.ts
  <2>1. /\ book[job.sym][WriteOrder[1]] = neu[WriteOrder[1]]
        /\ book[job.sym][WriteOrder[2]] = neu[WriteOrder[2]]
        /\ book[job.sym][WriteOrder[3]] = neu[WriteOrder[3]]
        /\ book[job.sym][WriteOrder[4]] = neu[WriteOrder[4]]
        /\ book[job.sym][WriteOrder[5]] = neu[WriteOrder[5]]
    BY <1>3
  <2> QED
    BY <2>1 DEF WriteOrder
<1> QED
  BY <1>1, <1>2, <1>4 DEF DepthEntry

LEMMA StoringStep ==
  ASSUME TypeOK, Storing, [Next]_vars
  PROVE  Storing'
<1>1. CASE FeedStep /\ Receive
  <2>1. PICK m \in Feed[nmsg + 1] : FromApp(m)
    BY <1>1 DEF Receive
  <2>2. step' = 0
    BY <2>1 DEF FromApp, TypeOK, FeedTypeOK
  <2>3. job'.index = index'
    BY <2>1 DEF FromApp, SetIndexPrice
  <2> QED
    BY <2>2, <2>3 DEF Storing
<1>2. CASE FeedStep /\ BeginApply
  <2> DEFINE c == Head(job.todo)
             e == book[job.sym]
  <2>1. /\ job.todo # <<>> /\ step' = 1
        /\ neu' = [WithSide(e, c) EXCEPT !.ts = clock]
        /\ job' = job /\ book' = book /\ index' = index /\ clock' = clock
    BY <1>2 DEF BeginApply
  <2>2. c \in Pending /\ e \in DepthEntry /\ clock \in Nat
    BY <2>1, TodoHead DEF TypeOK, SharedBookTypeOK
  <2> HIDE DEF c, e
  <2>3. WithSide(neu', c) = neu' /\ neu'.ts = clock /\ \A f \in OtherSide(c) : e[f] = neu'[f]
    BY <2>1, <2>2, WithSideStores
  <2>4. \A k \in 1 .. step' - 1 : FALSE
    BY <2>1
  <2> QED
    BY <2>1, <2>2, <2>3, <2>4 DEF Storing, c, e
<1>3. CASE FeedStep /\ StoreField
  <2> DEFINE c == Head(job.todo)
  <2>1. /\ job.todo # <<>> /\ step # 0 /\ step' = step + 1 /\ step \in 1 .. 5
        /\ neu' = neu /\ job' = job /\ index' = index /\ clock' = clock
    BY <1>3 DEF StoreField, WriteOrder, TypeOK, FeedTypeOK
  <2>2. c \in Pending
    BY <2>1, TodoHead
  <2>3. \A f \in FieldNames : book[job.sym][f] = neu[f] => book'[job.sym][f] = neu[f]
    BY <1>3, StoreFieldEffect
  <2>4. book'[job.sym][WriteOrder[step]] = neu[WriteOrder[step]]
    BY <1>3, StoreFieldEffect
  <2>5. \A f \in OtherSide(c) : f \in FieldNames
    BY DEF OtherSide, FieldNames
  <2>6. \A k \in 1 .. step' - 1 : book'[job.sym][WriteOrder[k]] = neu[WriteOrder[k]]
    <3>1. SUFFICES ASSUME NEW k \in 1 .. step
                   PROVE  book'[job.sym][WriteOrder[k]] = neu[WriteOrder[k]]
      BY <2>1
    <3>2. CASE k = step
      BY <2>4, <3>2
    <3>3. CASE k # step
      <4>1. k \in 1 .. step - 1 /\ k \in 1 .. Len(WriteOrder)
        BY <2>1, <3>3 DEF WriteOrder
      <4>2. book[job.sym][WriteOrder[k]] = neu[WriteOrder[k]]
        BY <2>1, <4>1 DEF Storing
      <4> QED
        BY <2>3, <4>1, <4>2, WriteOrderFields
    <3> QED
      BY <3>2, <3>3
  <2> QED
    BY <2>1, <2>3, <2>5, <2>6 DEF Storing
<1>4. CASE FeedStep /\ Publish
  <2>1. step' = 0 /\ job.todo # <<>>
    BY <1>4 DEF Publish, TypeOK, FeedTypeOK, Publishing, WriteOrder
  <2>2. index' = index /\ (job'.todo # <<>> => job'.index = job.index)
    BY <1>4, <2>1 DEF Publish, SetIndexPrice, NoJob, Storing, TypeOK, FeedTypeOK
  <2> QED
    BY <2>1, <2>2 DEF Storing
<1>5. CASE ~FeedStep
  <2>1. clock \in Nat /\ (step # 0 => neu.ts \in Nat)
    BY DEF TypeOK, SharedBookTypeOK, FeedTypeOK, DepthEntry
  <2> QED
    BY <1>5, <2>1, OthersKeepBook DEF Storing
<1> QED
  BY <1>1, <1>2, <1>3, <1>4, <1>5 DEF FeedStep, FeedNext, Applying

LEMMA StoringInitially == Init => Storing
BY DEF Init, FeedInit, NoJob, Storing

LEMMA OnlyPublishWakes ==
  ASSUME TypeOK, [Next]_vars, Len(updates') > Len(updates)
  PROVE  /\ Publish
         /\ updates'[Len(updates')] = [sym |-> job.sym, index |-> job.index, time |-> clock]
<1>1. updates \in Seq(Update) /\ Len(updates) \in Nat
  BY DEF TypeOK, SharedBookTypeOK
<1>2. updates' # updates
  BY <1>1
<1>3. ~SkipUpdate /\ ~TakeUpdate
  <2> SUFFICES ASSUME updates # <<>>, updates' = Tail(updates) PROVE FALSE
    BY DEF SkipUpdate, TakeUpdate
  <2> QED
    BY <1>1
<1>4. Publish
  BY <1>2, <1>3
     DEF Next, FeedStep, FeedNext, Receive, FromApp, Applying, BeginApply, StoreField,
         EngineStep, ConsumerStep, ClockStep, EngineNext, Run, ConsumerNext,
         PassOver, MarkPair, LoadField, DecideLong, DecideShort, ResetSignalMask,
         TakeSignal, AlertDone, Tick, vars, sharedVars
<1> DEFINE u == [sym |-> job.sym, index |-> job.index, time |-> clock]
<1>5. updates' = Append(updates, u)
  BY <1>2, <1>4 DEF Publish, PushUpdate
<1> HIDE DEF u
<1>6. updates'[Len(updates')] = u
  BY <1>1, <1>5
<1> QED
  BY <1>4, <1>6 DEF u

\* ApplyUpdateFast sends a wake-up only when all five fields of the entry are
\* stored, with the side just applied in them, under a time not after now,
\* and with the index price that is shared.
THEOREM WakesAfterWrites == Spec => WakeAfterWrite
<1> DEFINE u == updates'[Len(updates')]
           Written == Len(updates') > Len(updates) =>
                        /\ WithSide(book[u.sym], Head(job.todo)) = book[u.sym]
                        /\ book[u.sym].ts <= u.time
                        /\ u.index = index
<1>1. TypeOK /\ Storing /\ [Next]_vars => Storing'
  BY StoringStep
<1>2. TypeOK /\ Storing /\ [Next]_vars => Written
  <2> SUFFICES ASSUME TypeOK, Storing, [Next]_vars, Len(updates') > Len(updates)
               PROVE  /\ WithSide(book[u.sym], Head(job.todo)) = book[u.sym]
                      /\ book[u.sym].ts <= u.time
                      /\ u.index = index
    OBVIOUS
  <2>1. Publish /\ u.sym = job.sym /\ u.index = job.index /\ u.time = clock
    BY OnlyPublishWakes
  <2>2. step = Publishing /\ step # 0 /\ job.todo # <<>>
    BY <2>1 DEF Publish, TypeOK, FeedTypeOK, Publishing, WriteOrder
  <2>3. book[job.sym] = neu
    BY <2>2, AllStored
  <2> QED
    BY <2>1, <2>2, <2>3 DEF Storing
<1>3. TypeOK /\ Storing /\ [Next]_vars => [Written]_vars
  BY <1>2
<1> QED
  BY <1>1, <1>3, StoringInitially, TypeCorrect, PTL DEF Spec, WakeAfterWrite

(***************************************************************************)
(* What the entries show.                                                  *)
(***************************************************************************)

\* The calls of ApplyUpdateFast are those of the sides that FromApp applies.
LEMMA TodoSides ==
  ASSUME NEW m \in Message, m.sym # NoSym
  PROVE  /\ \A k \in DOMAIN Todo(m) :
              LET c == Todo(m)[k]
                  q == FastParseHFT(m, c.side)
              IN  /\ c.side \in SideNames /\ Applies(q)
                  /\ c.px = q.px /\ c.qty = q.qty
         /\ \A side \in SideNames :
              Applies(FastParseHFT(m, side)) => \E k \in DOMAIN Todo(m) : Todo(m)[k].side = side
<1> DEFINE b  == FastParseHFT(m, "bid")
           a  == FastParseHFT(m, "ask")
           cb == [side |-> "bid", px |-> b.px, qty |-> b.qty]
           ca == [side |-> "ask", px |-> a.px, qty |-> a.qty]
<1>1. Todo(m) = (IF Applies(b) THEN <<cb>> ELSE <<>>) \o (IF Applies(a) THEN <<ca>> ELSE <<>>)
  BY DEF Todo, Calls
<1>2. /\ cb.side = "bid" /\ cb.px = b.px /\ cb.qty = b.qty
      /\ ca.side = "ask" /\ ca.px = a.px /\ ca.qty = a.qty
  OBVIOUS
<1> HIDE DEF cb, ca
<1>3. CASE Applies(b) /\ Applies(a)
  <2>1. Todo(m) = <<cb>> \o <<ca>>
    BY <1>1, <1>3
  <2>2. /\ DOMAIN Todo(m) = 1 .. 2 /\ 1 \in 1 .. 2 /\ 2 \in 1 .. 2
        /\ Todo(m)[1] = cb /\ Todo(m)[2] = ca
    BY <2>1
  <2>3. \A k \in DOMAIN Todo(m) : Todo(m)[k] = cb \/ Todo(m)[k] = ca
    BY <2>2
  <2> QED
    BY <1>2, <1>3, <2>2, <2>3 DEF SideNames
<1>4. CASE Applies(b) /\ ~Applies(a)
  <2>1. Todo(m) = <<cb>>
    BY <1>1, <1>4
  <2> QED
    BY <1>2, <1>4, <2>1 DEF SideNames
<1>5. CASE ~Applies(b) /\ Applies(a)
  <2>1. Todo(m) = <<ca>>
    BY <1>1, <1>5
  <2> QED
    BY <1>2, <1>5, <2>1 DEF SideNames
<1>6. CASE ~Applies(b) /\ ~Applies(a)
  <2>1. Todo(m) = <<>>
    BY <1>1, <1>6
  <2> QED
    BY <1>6, <2>1 DEF SideNames
<1> QED
  BY <1>3, <1>4, <1>5, <1>6

LEMMA TodoOnce ==
  ASSUME NEW m \in Message, m.sym # NoSym
  PROVE  \A j, k \in DOMAIN Todo(m) :
           Todo(m)[j].side = Todo(m)[k].side => Todo(m)[j] = Todo(m)[k]
<1>1. SUFFICES ASSUME NEW j \in DOMAIN Todo(m), NEW k \in DOMAIN Todo(m),
                      Todo(m)[j].side = Todo(m)[k].side
               PROVE  Todo(m)[j] = Todo(m)[k]
  OBVIOUS
<1> DEFINE c == Todo(m)[j]
           d == Todo(m)[k]
<1>2. c \in Pending /\ d \in Pending
  <2>1. Todo(m) \in Seq(Pending)
    BY TodoType
  <2> QED
    BY <1>1, <2>1
<1>3. c.px = d.px /\ c.qty = d.qty /\ c.side = d.side
  BY <1>1, TodoSides
<1> HIDE DEF c, d
<1>4. c = d
  BY <1>2, <1>3 DEF Pending
<1> QED
  BY <1>4 DEF c, d

LEMMA OutcomeIs ==
  ASSUME NEW j, NEW old, NEW i, NEW side
  PROVE  /\ ~Awaits(j, i, side) => Outcome(j, old, i, side) = old
         /\ \A k \in DOMAIN j.todo :
              /\ j.sym = i /\ j.todo[k].side = side
              /\ \A n \in DOMAIN j.todo : j.todo[n].side = side => j.todo[n] = j.todo[k]
              => Outcome(j, old, i, side) = [px |-> j.todo[k].px, qty |-> j.todo[k].qty]
<1> DEFINE due == {j.todo[k] : k \in {n \in DOMAIN j.todo : j.sym = i /\ j.todo[n].side = side}}
<1>1. ~Awaits(j, i, side) => due = {}
  BY DEF Awaits
<1>2. ASSUME NEW k \in DOMAIN j.todo, j.sym = i, j.todo[k].side = side,
             \A n \in DOMAIN j.todo : j.todo[n].side = side => j.todo[n] = j.todo[k]
      PROVE  due = {j.todo[k]}
  BY <1>2
<1>3. \A x : (CHOOSE c \in {x} : TRUE) = x
  OBVIOUS
<1> QED
  BY <1>1, <1>2, <1>3 DEF Outcome

LEMMA SettledIs ==
  ASSUME NEW i, NEW side
  PROVE  /\ Settled(i, side) = Outcome(job, Showing(i, side), i, side)
         /\ Settled(i, side)' = Outcome(job', Showing(i, side)', i, side)
BY DEF Settled, Awaited, Outcome

\* Receiving a message settles what it leaves of the sides of its option.
LEMMA SettledByReceive ==
  ASSUME TypeOK, NEW m \in Feed[nmsg + 1], nmsg < Len(Feed), FromApp(m),
         NEW i \in Idx, NEW side \in SideNames
  PROVE  Settled(i, side)' = IF m.sym = i THEN Applied(m, side, Settled(i, side))
                             ELSE Settled(i, side)
<1>1. m \in Message
  <2>1. nmsg + 1 \in 1 .. Len(Feed)
    BY DEF TypeOK, FeedTypeOK
  <2> QED
    BY <2>1, FixFeedAssumption
<1>2. job.todo = <<>> /\ job'.sym = m.sym /\ job'.todo = Todo(m) /\ book' = book
  BY DEF FromApp
<1> DEFINE q == FastParseHFT(m, side)
           old == Showing(i, side)
<1>3. Settled(i, side) = old /\ Settled(i, side)' = Outcome(job', old, i, side)
  <2>1. ~Awaits(job, i, side) /\ Showing(i, side)' = old
    BY <1>2 DEF Awaits, Showing
  <2> QED
    BY <2>1, SettledIs, OutcomeIs
<1>4. Applied(m, side, old) = IF Applies(q) THEN [px |-> q.px, qty |-> q.qty] ELSE old
  BY DEF Applied
<1> HIDE DEF q, old
<1>5. CASE m.sym # i
  <2>1. ~Awaits(job', i, side)
    BY <1>2, <1>5 DEF Awaits
  <2> QED
    BY <1>3, <1>5, <2>1, OutcomeIs
<1>6. CASE m.sym = i
  <2>1. m.sym # NoSym
    BY <1>6, CountType DEF NoSym
  <2>2. ASSUME NEW k \in DOMAIN job'.todo, job'.todo[k].side = side
        PROVE  Applies(q) /\ job'.todo[k].px = q.px /\ job'.todo[k].qty = q.qty
    BY <1>1, <1>2, <2>1, <2>2, TodoSides DEF q
  <2>3. CASE Applies(q)
    <3>1. PICK k \in DOMAIN job'.todo : job'.todo[k].side = side
      BY <1>1, <1>2, <2>1, <2>3, TodoSides DEF q
    <3>2. \A n \in DOMAIN job'.todo : job'.todo[n].side = side => job'.todo[n] = job'.todo[k]
      BY <1>1, <1>2, <2>1, <3>1, TodoOnce
    <3>3. Outcome(job', old, i, side) = [px |-> job'.todo[k].px, qty |-> job'.todo[k].qty]
      BY <1>2, <1>6, <3>1, <3>2, OutcomeIs
    <3> QED
      BY <1>3, <1>4, <1>6, <2>2, <2>3, <3>1, <3>3
  <2>4. CASE ~Applies(q)
    <3>1. ~Awaits(job', i, side)
      BY <2>2, <2>4 DEF Awaits
    <3> QED
      BY <1>3, <1>4, <1>6, <2>4, <3>1, OutcomeIs
  <2> QED
    BY <2>3, <2>4
<1> QED
  BY <1>5, <1>6

\* A store changes nothing of the sides that are not still to be applied.
LEMMA SettledByStore ==
  ASSUME TypeOK, Storing, StoreField, NEW i \in Idx, NEW side \in SideNames
  PROVE  Settled(i, side)' = Settled(i, side)
<1> DEFINE c == Head(job.todo)
<1>1. step # 0 /\ job.todo # <<>> /\ job' = job
  BY DEF StoreField, TypeOK, FeedTypeOK, WriteOrder
<1>2. c \in Pending /\ c = job.todo[1] /\ 1 \in DOMAIN job.todo
  BY <1>1, TodoHead
<1>3. ASSUME NEW g \in OtherSide(c)
      PROVE  book'[job.sym][g] = book[job.sym][g]
  <2>1. g \in FieldNames /\ book[job.sym][g] = neu[g]
    BY <1>1 DEF OtherSide, FieldNames, Storing
  <2> QED
    BY <2>1, StoreFieldEffect
<1>4. ASSUME ~Awaits(job, i, side)
      PROVE  Showing(i, side)' = Showing(i, side)
  <2>1. CASE i # job.sym
    BY <2>1, StoreFieldEffect DEF Showing
  <2>2. CASE i = job.sym
    <3>1. c.side # side /\ c.side \in SideNames
      BY <1>2, <1>4, <2>2 DEF Awaits, Pending
    <3>2. /\ side = "bid" => {"bidPx", "bidQty"} = OtherSide(c)
          /\ side # "bid" => {"askPx", "askQty"} = OtherSide(c)
      BY <3>1 DEF OtherSide, SideNames
    <3> HIDE DEF c
    <3> QED
      BY <1>3, <2>2, <3>2 DEF Showing
  <2> QED
    BY <2>1, <2>2
<1>5. CASE ~Awaits(job, i, side)
  BY <1>1, <1>4, <1>5, SettledIs
<1>6. CASE Awaits(job, i, side)
  BY <1>1, <1>6 DEF Settled, Awaited, Awaits
<1> QED
  BY <1>5, <1>6

LEMMA TailOfOne ==
  ASSUME NEW S, NEW s \in Seq(S), Len(s) = 1
  PROVE  Tail(s) = <<>>
<1>1. Tail(s) \in Seq(S) /\ Len(Tail(s)) = 0
  OBVIOUS
<1> DEFINE t == Tail(s)
<1>2. t \in Seq(S) /\ Len(t) = 0
  BY <1>1
<1> HIDE DEF t
<1>3. t = <<>>
  BY <1>2
<1> QED
  BY <1>3 DEF t

LEMMA PublishEffect ==
  ASSUME TypeOK, Publish
  PROVE  /\ step = Publishing /\ job.todo # <<>> /\ book' = book
         /\ job.sym \in Idx /\ 1 \in DOMAIN job.todo /\ job.todo[1] \in Pending
         /\ Head(job.todo) = job.todo[1]
         /\ job'.todo # <<>> => job'.sym = job.sym
         /\ \A k \in DOMAIN job'.todo : /\ k + 1 \in DOMAIN job.todo
                                        /\ job'.todo[k] = job.todo[k + 1]
                                        /\ job'.sym = job.sym
         /\ \A k \in DOMAIN job.todo : k # 1 => /\ k - 1 \in DOMAIN job'.todo
                                                /\ job'.todo[k - 1] = job.todo[k]
<1>1. step = Publishing /\ job.todo # <<>> /\ book' = book
  BY DEF Publish, TypeOK, FeedTypeOK, Publishing, WriteOrder
<1>2. /\ job.todo \in Seq(Pending) /\ Len(job.todo) \in Nat \ {0}
      /\ Head(job.todo) = job.todo[1] /\ job.todo[1] \in Pending /\ 1 \in DOMAIN job.todo
      /\ job.sym \in Idx /\ job \in [sym : Idx \cup {NoSym}, index : Nat, todo : Seq(Pending)]
  BY <1>1, TodoHead DEF TypeOK, FeedTypeOK
<1>3. job'.todo = Tail(job.todo) /\ (job'.todo # <<>> => job'.sym = job.sym)
  <2>1. CASE Len(job.todo) = 1
    <3>1. Tail(job.todo) = <<>>
      BY <1>2, <2>1, TailOfOne
    <3>2. job' = NoJob
      BY <2>1 DEF Publish
    <3> QED
      BY <3>1, <3>2 DEF NoJob
  <2>2. CASE Len(job.todo) # 1
    BY <1>2, <2>2 DEF Publish
  <2> QED
    BY <2>1, <2>2
<1> QED
  BY <1>1, <1>2, <1>3

\* When the call returns, the entry shows the side it was about.
LEMMA SettledByPublish ==
  ASSUME TypeOK, Storing, Once, Publish, NEW i \in Idx, NEW side \in SideNames
  PROVE  Settled(i, side)' = Settled(i, side)
<1> DEFINE c == job.todo[1]
<1>1. /\ step = Publishing /\ step # 0 /\ book' = book /\ 1 \in DOMAIN job.todo
      /\ c \in Pending /\ Head(job.todo) = c
  BY PublishEffect DEF Publishing
<1>2. Showing(job.sym, c.side) = [px |-> c.px, qty |-> c.qty]
  <2>1. book[job.sym] = neu /\ WithSide(neu, c) = neu
    BY <1>1, AllStored DEF Storing
  <2>2. neu \in DepthEntry
    BY DEF TypeOK, FeedTypeOK
  <2>3. c.side \in SideNames /\ c.px \in Nat /\ c.qty \in Nat
    BY <1>1 DEF Pending
  <2> HIDE DEF c
  <2> QED
    BY <2>1, <2>2, <2>3 DEF Showing, WithSide, SideNames, DepthEntry
<1> HIDE DEF c
<1>3. Showing(i, side)' = Showing(i, side)
  BY <1>1 DEF Showing
<1>4. CASE Awaits(job', i, side)
  <2>1. PICK k \in DOMAIN job'.todo : job'.sym = i /\ job'.todo[k].side = side
    BY <1>4 DEF Awaits
  <2>2. /\ k + 1 \in DOMAIN job.todo /\ job'.todo[k] = job.todo[k + 1] /\ job.sym = i
        /\ \A n \in DOMAIN job'.todo : job'.todo[n].side = side => job'.todo[n] = job'.todo[k]
        /\ \A n \in DOMAIN job.todo : job.todo[n].side = side => job.todo[n] = job.todo[k + 1]
    BY <2>1, PublishEffect DEF Once
  <2>3. Settled(i, side)' = [px |-> job'.todo[k].px, qty |-> job'.todo[k].qty]
    BY <2>1, <2>2, SettledIs, OutcomeIs
  <2>4. Settled(i, side) = [px |-> job.todo[k + 1].px, qty |-> job.todo[k + 1].qty]
    BY <2>1, <2>2, SettledIs, OutcomeIs
  <2> QED
    BY <2>2, <2>3, <2>4
<1>5. CASE ~Awaits(job', i, side)
  <2>1. Settled(i, side)' = Showing(i, side)
    BY <1>3, <1>5, SettledIs, OutcomeIs
  <2>2. ASSUME NEW k \in DOMAIN job.todo, job.sym = i, job.todo[k].side = side
        PROVE  k = 1
    BY <1>5, <2>2, PublishEffect DEF Awaits
  <2>3. CASE job.sym = i /\ c.side = side
    <3>1. \A n \in DOMAIN job.todo : job.todo[n].side = side => job.todo[n] = job.todo[1]
      BY <2>2, <2>3
    <3>2. Settled(i, side) = [px |-> c.px, qty |-> c.qty]
      BY <1>1, <2>3, <3>1, SettledIs, OutcomeIs DEF c
    <3> QED
      BY <1>2, <2>1, <2>3, <3>2
  <2>4. CASE ~(job.sym = i /\ c.side = side)
    <3>1. ~Awaits(job, i, side)
      BY <2>2, <2>4 DEF Awaits, c
    <3> QED
      BY <2>1, <3>1, SettledIs, OutcomeIs
  <2> QED
    BY <2>3, <2>4
<1> QED
  BY <1>4, <1>5

LEMMA OnceStep ==
  ASSUME TypeOK, Once, [Next]_vars
  PROVE  Once'
<1>1. CASE Receive
  <2>1. PICK m \in Feed[nmsg + 1] : FromApp(m)
    BY <1>1 DEF Receive
  <2>2. nmsg + 1 \in 1 .. Len(Feed)
    BY <1>1 DEF Receive, TypeOK, FeedTypeOK
  <2>3. m \in Message /\ job'.todo = Todo(m)
    BY <2>1, <2>2, FixFeedAssumption DEF FromApp
  <2>4. CASE m.sym = NoSym
    BY <2>3, <2>4 DEF Todo, Once
  <2>5. CASE m.sym # NoSym
    BY <2>3, <2>5, TodoOnce DEF Once
  <2> QED
    BY <2>4, <2>5
<1>2. CASE BeginApply \/ StoreField
  BY <1>2 DEF BeginApply, StoreField, Once
<1>3. CASE Publish
  BY <1>3, PublishEffect DEF Once
<1>4. CASE ~FeedStep
  BY <1>4, OthersKeepBook DEF Once
<1> QED
  BY <1>1, <1>2, <1>3, <1>4 DEF FeedStep, FeedNext, Applying

\* Only a message received changes what the entries will show.
LEMMA SettledStep ==
  ASSUME TypeOK, Storing, Once, [Next]_vars
  PROVE  \/ \E m \in Feed[nmsg + 1] : nmsg < Len(Feed) /\ FromApp(m)
         \/ /\ UNCHANGED <<nmsg, quoted>>
            /\ \A i \in Idx : \A side \in SideNames : Settled(i, side)' = Settled(i, side)
<1>1. CASE Receive
  BY <1>1 DEF Receive
<1>2. CASE BeginApply
  <2>1. UNCHANGED <<nmsg, quoted, job, book>>
    BY <1>2 DEF BeginApply
  <2> QED
    BY <2>1 DEF Settled, Awaited, Showing
<1>3. CASE StoreField
  <2>1. UNCHANGED <<nmsg, quoted>>
    BY <1>3 DEF StoreField
  <2> QED
    BY <1>3, <2>1, SettledByStore
<1>4. CASE Publish
  <2>1. UNCHANGED <<nmsg, quoted>>
    BY <1>4 DEF Publish
  <2> QED
    BY <1>4, <2>1, SettledByPublish
<1>5. CASE ~FeedStep
  <2>1. UNCHANGED <<nmsg, quoted, job, book>>
    BY <1>5, OthersKeepBook
  <2> QED
    BY <2>1 DEF Settled, Awaited, Showing
<1> QED
  BY <1>1, <1>2, <1>3, <1>4, <1>5 DEF FeedStep, FeedNext, Applying

LEMMA SettledInitially ==
  ASSUME Init
  PROVE  Once /\ \A i \in Idx : \A side \in SideNames : Settled(i, side) = NoLevel
BY DEF Init, SharedBookInit, FeedInit, NoJob, Once, Settled, Awaited, Showing, Empty, NoLevel

\* The callback reads an entry, stores it field by field and does so once for
\* each side, while others read: to the quotes it is a callback that applies
\* each message at once.  Nothing is asked of what the venue sends.
THEOREM ImplementsAtomic == Spec => ImplementsAtomicFeed
<1>1. Init => Atomic!AtomicInit
  BY SettledInitially DEF Init, FeedInit, Atomic!AtomicInit
<1>2. TypeOK /\ Storing /\ Once /\ [Next]_vars => [Atomic!AtomicNext]_(Atomic!atomicVars)
  <2> SUFFICES ASSUME TypeOK, Storing, Once, [Next]_vars
               PROVE  [Atomic!AtomicNext]_(Atomic!atomicVars)
    OBVIOUS
  <2>1. ASSUME NEW m \in Feed[nmsg + 1], nmsg < Len(Feed), FromApp(m)
        PROVE  Atomic!AtomicNext
    <3>1. nmsg' = nmsg + 1
      BY <2>1 DEF FromApp
    <3>2. \A i \in Idx : \A side \in SideNames :
            Settled(i, side)' = IF m.sym = i THEN Applied(m, side, Settled(i, side))
                                ELSE Settled(i, side)
      BY <2>1, SettledByReceive
    <3> QED
      BY <2>1, <3>1, <3>2 DEF Atomic!AtomicNext, Atomic!Take
  <2>2. ASSUME UNCHANGED nmsg,
               \A i \in Idx : \A side \in SideNames : Settled(i, side)' = Settled(i, side)
        PROVE  UNCHANGED Atomic!atomicVars
    BY <2>2 DEF Atomic!atomicVars
  <2> QED
    BY <2>1, <2>2, SettledStep
<1>3. TypeOK /\ Storing /\ [Next]_vars => Storing'
  BY StoringStep
<1>4. TypeOK /\ Once /\ [Next]_vars => Once'
  BY OnceStep
<1>5. Init => Once
  BY SettledInitially
<1> QED
  BY <1>1, <1>2, <1>3, <1>4, <1>5, StoringInitially, TypeCorrect, PTL
     DEF Spec, ImplementsAtomicFeed, Atomic!AtomicSpec

\* However the engine and the consumer interleave with the stores, and
\* however many wake-ups find the channel full: with a feed the parser can
\* read, an entry no call is under way for shows what the venue's messages
\* add up to.
THEOREM QuietBook ==
  ASSUME OrdinaryFeed
  PROVE  Spec => []QuietBookExact
<1>1. Init => SettledExact
  BY SettledInitially DEF Init, FeedInit, SettledExact, Shows, NoLevel
<1>2. TypeOK /\ Storing /\ Once /\ SettledExact /\ [Next]_vars => SettledExact'
  <2> SUFFICES ASSUME TypeOK, Storing, Once, SettledExact, [Next]_vars,
                      NEW i \in Idx, NEW side \in SideNames
               PROVE  Shows(Settled(i, side)', quoted'[i][side])
    BY DEF SettledExact
  <2>1. Shows(Settled(i, side), quoted[i][side])
    BY DEF SettledExact
  <2>2. ASSUME NEW m \in Feed[nmsg + 1], nmsg < Len(Feed), FromApp(m)
        PROVE  Shows(Settled(i, side)', quoted'[i][side])
    <3>1. nmsg + 1 \in DOMAIN Feed /\ quoted \in [Idx -> TopOfBook]
      BY <2>2 DEF TypeOK, FeedTypeOK
    <3>2. m \in Message /\ m.entries \in Seq(Entry)
      BY <3>1, FixFeedAssumption DEF Message
    <3>3. CASE m.sym # i
      <4>1. quoted'[i] = quoted[i]
        BY <2>2, <3>1, <3>3 DEF FromApp
      <4>2. Settled(i, side)' = Settled(i, side)
        BY <2>2, <3>3, SettledByReceive
      <4> QED
        BY <2>1, <4>1, <4>2
    <3>4. CASE m.sym = i
      <4>1. m.sym # NoSym
        BY <3>4, CountType DEF NoSym
      <4>2. quoted'[i][side] = VenueSide(m, side, quoted[i][side])
        BY <2>2, <3>1, <3>4, <4>1 DEF FromApp
      <4>3. Settled(i, side)' = Applied(m, side, Settled(i, side))
        BY <2>2, <3>4, SettledByReceive
      <4>4. Ordinary(m, side)
        BY <3>1, <4>1 DEF OrdinaryFeed
      <4> QED
        BY <2>1, <3>2, <4>2, <4>3, <4>4, OrdinaryExact
    <3> QED
      BY <3>3, <3>4
  <2>3. ASSUME UNCHANGED quoted, Settled(i, side)' = Settled(i, side)
        PROVE  Shows(Settled(i, side)', quoted'[i][side])
    BY <2>1, <2>3
  <2> QED
    BY <2>2, <2>3, SettledStep
<1>3. TypeOK /\ Storing /\ [Next]_vars => Storing'
  BY StoringStep
<1>4. TypeOK /\ Once /\ [Next]_vars => Once'
  BY OnceStep
<1>5. SettledExact => QuietBookExact
  <2> SUFFICES ASSUME SettledExact, NEW i \in Idx, NEW side \in SideNames,
                      job.todo = <<>> \/ job.sym # i
               PROVE  Shows(Showing(i, side), quoted[i][side])
    BY DEF QuietBookExact
  <2>1. ~Awaits(job, i, side)
    BY DEF Awaits
  <2> QED
    BY <2>1, SettledIs, OutcomeIs DEF SettledExact
<1>6. Init => Once
  BY SettledInitially
<1> QED
  BY <1>1, <1>2, <1>3, <1>4, <1>5, <1>6, StoringInitially, TypeCorrect, PTL DEF Spec
=============================================================================
