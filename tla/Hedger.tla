------------------------------- MODULE Hedger --------------------------------
(***************************************************************************)
(* The running process as main.go wires it: the FIX session's goroutine    *)
(* (FixFeed), the strategy's (BoxEngine) and the alert consumer's          *)
(* (SignalConsumer), joined by the shared book and by two channels that    *)
(* are only ever sent to without blocking.                                 *)
(***************************************************************************)
EXTENDS FixFeed, SignalConsumer

sharedVars == <<book, index, clock, updates>>

vars == <<sharedVars, feedVars, engineVars, consumerVars>>

\* Nanotime is far from 0 when the first message arrives.
Init ==
  /\ SharedBookInit(RestIndex, Debounce)
  /\ FeedInit
  /\ EngineInit
  /\ ConsumerInit

FeedStep     == FeedNext     /\ UNCHANGED <<engineVars, consumerVars>>
EngineStep   == EngineNext   /\ UNCHANGED <<feedVars, consumerVars>>
ConsumerStep == ConsumerNext /\ UNCHANGED feedVars
ClockStep    == Tick         /\ UNCHANGED <<feedVars, engineVars, consumerVars>>

Next == FeedStep \/ EngineStep \/ ConsumerStep \/ ClockStep

(***************************************************************************)
(* Fairness is that of the Go scheduler: a goroutine that can run runs     *)
(* again.  The venue owes no message, the clock no tick, and nobody a call *)
(* of ResetSignalMask.  AlertDone is fair because Send has a deadline.     *)
(***************************************************************************)
Spec ==
  /\ Init /\ [][Next]_vars
  /\ WF_vars(Applying /\ UNCHANGED <<engineVars, consumerVars>>)
  /\ WF_vars(Run /\ UNCHANGED <<feedVars, consumerVars>>)
  /\ WF_vars(ConsumerStep)

TypeOK == SharedBookTypeOK /\ FeedTypeOK /\ EngineTypeOK /\ ConsumerTypeOK

(***************************************************************************)
(* Safety.                                                                 *)
(***************************************************************************)

\* What the entry of an option shows of a side.
Showing(i, side) ==
  IF side = "bid" THEN [px |-> book[i].bidPx, qty |-> book[i].bidQty]
  ELSE [px |-> book[i].askPx, qty |-> book[i].askQty]

\* Once the callback is done with an option, its entry shows what the venue's
\* messages add up to: parsing picks the right level, re-storing the other
\* side of the entry loses nothing, whatever the readers do and however many
\* wake-ups are dropped.  A price without quantity counts as no quote.
QuietBookExact ==
  \A i \in Idx : \A side \in SideNames :
    job.todo = <<>> \/ job.sym # i => Shows(Showing(i, side), quoted[i][side])

\* A wake-up is sent only when the quote it announces is completely stored
\* and the index it carries is the shared one, so an engine that reacts at
\* once cannot read the entry as it was before.
WakeAfterWrite ==
  [][Len(updates') > Len(updates) =>
       LET u == updates'[Len(updates')]
       IN  /\ WithSide(book[u.sym], Head(job.todo)) = book[u.sym]
           /\ book[u.sym].ts <= u.time
           /\ u.index = index]_vars

\* Wake-ups wait in the order of their times, between the last time the
\* engine processed and now; the debounce never sees a time run backwards.
WakeupsInOrder ==
  LET times == <<lastCheck>> \o [n \in DOMAIN updates |-> updates[n].time]
                 \o <<clock>>
  IN  \A m, n \in DOMAIN times : m <= n => times[m] <= times[n]

\* Signals that may still come of the evaluation in progress.
PendingSignals == CASE pc \in {"load", "long"} -> 2
                    [] pc = "short"            -> 1
                    [] OTHER                   -> 0

\* No bit of the mask is worth more than one long and one short signal
\* between two resets, whatever the quotes do.
SignalBudget ==
  Len(emitted) + PendingSignals <= 2 * (Cardinality(mask) + DedupBits * resets)

\* The select-default around the send never drops a signal: all that were
\* sent are with the consumer or in the channel, in order.  With 64 bits and
\* no reset the capacity of 128 is exactly what this takes.
NoSignalDropped == emitted = delivered \o signals

\* Every signal names four distinct legs of one expiry, parsed from real
\* symbols: call and put of the low strike, call and put of the high one.
SignalsWellFormed ==
  \A n \in DOMAIN emitted :
    LET b == emitted[n].box
        o == [l \in LegNames |-> Option[b[l]]]
    IN  /\ \A l \in LegNames : Symbols[b[l]].parsed /\ o[l].expiry = o["lc"].expiry
        /\ o["lc"].isCall /\ o["hc"].isCall /\ ~o["lp"].isCall /\ ~o["hp"].isCall
        /\ o["lc"].strike = o["lp"].strike /\ o["hc"].strike = o["hp"].strike
        /\ o["hc"].strike - o["lc"].strike >= Params.minStrikeGap

\* A box is signalled both long and short at once only from a snapshot in
\* which some leg is crossed.
BothSidesOnlyIfCrossed ==
  pc = "long" /\ EmitsNow(Long) /\ EmitsNow(Short) => Crossed(snap)

(***************************************************************************)
(* The abstract view: SignalLedger, with the bits of the mask as keys.     *)
(***************************************************************************)
KeyOf(b) == HashBit(Option[b["lc"]].strike, Option[b["hc"]].strike)

Entries(sigs) ==
  [n \in DOMAIN sigs |-> [key |-> KeyOf(sigs[n].box), side |-> sigs[n].side]]

OpenJudgement ==
  CASE pc \in {"load", "long"} -> [key |-> KeyOf(box), sides |-> <<Long, Short>>]
    [] pc = "short"            -> [key |-> KeyOf(box), sides |-> <<Short>>]
    [] OTHER                   -> [key |-> -1, sides |-> <<>>]

Ledger == INSTANCE SignalLedger WITH
            Keys <- Bits, judged <- mask, open <- OpenJudgement,
            issued <- Entries(emitted), received <- Entries(delivered)

\* The process implements the ledger: one judgement per key and epoch, at
\* most one signal per side of it, all received in order.
ImplementsLedger == Ledger!LedgerSpec

(***************************************************************************)
(* The abstract view of the callback: AtomicFeed, with the quotes the      *)
(* entries will show once the running callback has returned.               *)
(***************************************************************************)

\* The calls of ApplyUpdateFast still to be made for a side of i.
Awaited(i, side) ==
  {job.todo[k] : k \in {n \in DOMAIN job.todo : job.sym = i /\ job.todo[n].side = side}}

Settled(i, side) ==
  IF Awaited(i, side) = {} THEN Showing(i, side)
  ELSE LET c == CHOOSE c \in Awaited(i, side) : TRUE IN [px |-> c.px, qty |-> c.qty]

Atomic == INSTANCE AtomicFeed WITH
            Options <- Idx, Sides <- SideNames, Blank <- NoLevel,
            Offers <- Feed, Apply <- Applied, taken <- nmsg,
            shown <- [i \in Idx |-> [side \in SideNames |-> Settled(i, side)]]

\* The callback implements an atomic one: although it reads an entry, stores
\* it field by field and does so for each side anew, each message changes the
\* quotes of its option once and as a whole, whatever the venue sends.
ImplementsAtomicFeed == Atomic!AtomicSpec

(***************************************************************************)
(* Liveness.                                                               *)
(***************************************************************************)

\* Every signal the engine sends reaches the operator's log.
SignalsReachOperator ==
  \A n \in 1 .. 2 * DedupBits * (MaxResets + 1) :
    Len(emitted) >= n ~> Len(delivered) >= n

\* Processing one update always comes to an end and the wake-ups are drained.
EngineDrains == []<>(updates = <<>> /\ pc = "wait")

(***************************************************************************)
(* What the comments of the code say, and the code does not do.            *)
(***************************************************************************)

\* The prices and quantities that ever came in one entry for a side of i.
Quoted(i, side) ==
  LET msgs == {m \in UNION {Feed[n] : n \in DOMAIN Feed} : m.sym = i}
      sent == UNION {{m.entries[k] : k \in DOMAIN m.entries} : m \in msgs}
  IN  {<<0, 0>>} \cup {<<e.px, IF e.del THEN 0 ELSE e.qty>> :
                         e \in {ee \in sent : ee.kind = side}}

\* "Top-of-book snapshot", "atomic updates and lock-free reads": a price and
\* a quantity read together were quoted together.
SnapshotWasQuoted ==
  pc = "long" =>
    \A l \in LegNames :
      /\ <<snap[l].bidPx, snap[l].bidQty>> \in Quoted(box[l], "bid")
      /\ <<snap[l].askPx, snap[l].askQty>> \in Quoted(box[l], "ask")

\* "Emits signals when worst-case profit floor exceeds minProfitUSD": the
\* dedup mask passes over a worthwhile box only if it was signalled before.
DedupSuppressesRepeatsOnly ==
  \A side \in {Long, Short} :
    /\ pc = "scan" /\ job.todo = <<>>
    /\ Candidate(cur.sym, scan) /\ Seen(cur.sym, scan)
    => LET b == Legs(cur.sym, scan)
       IN  /\ AllFound(b)
           /\ Emits(side, [l \in LegNames |-> book[b[l]]],
                    Option[b["hc"]].strike - Option[b["lc"]].strike, cur.index)
           => \E n \in DOMAIN emitted : emitted[n] = [box |-> b, side |-> side]

\* "Side +1: Long Box, -1: Short Box": the alert tells the operator to buy
\* the legs the signal's profit was computed by buying.
AlertMatchesSide ==
  alert # NoAlert =>
    LET s == delivered[Len(delivered)]
    IN  /\ alert.buy  = {s.box[l] : l \in Buys(s.side)}
        /\ alert.sell = {s.box[l] : l \in Sells(s.side)}
=============================================================================
