------------------------------- MODULE FixFeed -------------------------------
(***************************************************************************)
(* Package fix, receiving side.  quickfix runs FromApp on the goroutine of *)
(* its one session, so the callback of a message ends before the next one  *)
(* begins and this goroutine is the only writer of the shared book.        *)
(***************************************************************************)
EXTENDS SharedBook, FixParse

CONSTANTS
  Feed,         \* Feed[n]: the messages the venue may send as its n-th
  RestIndex     \* the index price BuildUniverse sets before the first message

\* Any symbol getSymbolIndex does not know; index says it is the index itself.
NoSym == 0

\* Of a message that is neither snapshot nor increment FromApp reads tag 810
\* only: its symbol is not looked at.
Message ==
  [type : {"W", "X", "other"}, sym : Idx \cup {NoSym}, index : BOOLEAN,
   px810 : Nat \cup {Absent}, entries : Seq(Entry),
   fits : SUBSET {"levels", "index"}]

ASSUME FixFeedAssumption ==
  /\ Feed \in Seq(SUBSET Message)
  /\ \A n \in DOMAIN Feed : \A m \in Feed[n] :
       /\ m.index => m.sym = NoSym
       /\ m.type = "W" => "index" \notin m.fits
       /\ m.type = "other" => m.sym = NoSym /\ ~m.index
  /\ RestIndex \in Nat

\* Of every option, on both sides, the venue sends what the parser reads as
\* the venue means it.  What becomes of other messages is in BookReplay.
OrdinaryFeed ==
  \A n \in DOMAIN Feed : \A m \in Feed[n] : \A side \in SideNames :
    m.sym # NoSym => Ordinary(m, side)

VARIABLES
  nmsg,         \* messages received so far
  job,          \* what the running callback still has to apply
  neu,          \* the entry WriteDepthFast is storing
  step,         \* 0: before ApplyUpdateFast; 1..5: next field; 6: publish
  quoted        \* history: top of book by message, as the venue sent it

feedVars == <<nmsg, job, neu, step, quoted>>

Level == [px : Nat, qty : Nat]

TopOfBook == [SideNames -> Level]

\* One pending call of ApplyUpdateFast.
Pending == [side : SideNames, px : Nat, qty : Nat]

NoJob == [sym |-> NoSym, index |-> 0, todo |-> <<>>]

Publishing == Len(WriteOrder) + 1

FeedTypeOK ==
  /\ nmsg \in 0 .. Len(Feed)
  /\ job \in [sym : Idx \cup {NoSym}, index : Nat, todo : Seq(Pending)]
  /\ job.todo # <<>> => job.sym \in Idx
  /\ neu \in DepthEntry
  /\ step \in 0 .. Publishing
  /\ step # 0 => job.todo # <<>>
  /\ quoted \in [Idx -> TopOfBook]

FeedInit ==
  /\ nmsg = 0
  /\ job = NoJob
  /\ neu = Empty
  /\ step = 0
  /\ quoted = [i \in Idx |-> [side \in SideNames |-> NoLevel]]

\* An entry with one side replaced.
WithSide(entry, s) ==
  IF s.side = "bid"
  THEN [entry EXCEPT !.bidPx = s.px, !.bidQty = s.qty]
  ELSE [entry EXCEPT !.askPx = s.px, !.askQty = s.qty]

\* Bid before ask.
Calls(name, q) ==
  IF Applies(q) THEN <<[side |-> name, px |-> q.px, qty |-> q.qty]>> ELSE <<>>

Todo(m) ==
  IF m.sym = NoSym THEN <<>>
  ELSE Calls("bid", FastParseHFT(m, "bid")) \o Calls("ask", FastParseHFT(m, "ask"))

\* The index price FromApp works with: tag 810 whatever its value, else that
\* of an index message, else the price already shared.
MessageIndex(m) ==
  IF m.px810 # Absent THEN m.px810
  ELSE IF m.index /\ ParseIndexPriceFast(m) > 0 THEN ParseIndexPriceFast(m)
  ELSE index

\* FromApp up to its first ApplyUpdateFast; the index is already shared here.
FromApp(m) ==
  /\ job.todo = <<>>
  /\ nmsg' = nmsg + 1
  /\ SetIndexPrice(MessageIndex(m))
  /\ job' = [sym |-> m.sym, index |-> MessageIndex(m), todo |-> Todo(m)]
  /\ quoted' = IF m.sym = NoSym THEN quoted
               ELSE [quoted EXCEPT ![m.sym] =
                       [side \in SideNames |-> VenueSide(m, side, @[side])]]
  /\ UNCHANGED <<neu, step, book, clock, updates>>

\* Fault: the other side of the entry is cleared instead of re-stored.
BeginApplyAlone ==
  /\ job.todo # <<>>
  /\ step = 0
  /\ neu' = [WithSide(Empty, Head(job.todo)) EXCEPT !.ts = clock]
  /\ step' = 1
  /\ UNCHANGED <<nmsg, job, quoted, book, index, clock, updates>>

\* Fault: the wake-up is sent before the entry is written.
BeginApplyWakesFirst ==
  /\ job.todo # <<>>
  /\ step = 0
  /\ neu' = [WithSide(book[job.sym], Head(job.todo)) EXCEPT !.ts = clock]
  /\ step' = 1
  /\ PushUpdate([sym |-> job.sym, index |-> job.index, time |-> clock])
  /\ UNCHANGED <<nmsg, job, quoted, book, index, clock>>

\* ApplyUpdateFast reads the entry and WriteDepthFast takes its time.  Only
\* this goroutine writes entries, so its own five loads are one step.
BeginApply ==
  /\ job.todo # <<>>
  /\ step = 0
  /\ neu' = [WithSide(book[job.sym], Head(job.todo)) EXCEPT !.ts = clock]
  /\ step' = 1
  /\ UNCHANGED <<nmsg, job, quoted, book, index, clock, updates>>

\* WriteDepthFast, one field at a time.
StoreField ==
  /\ step \in 1 .. Len(WriteOrder)
  /\ StoreDepth(job.sym, WriteOrder[step], neu[WriteOrder[step]])
  /\ step' = step + 1
  /\ UNCHANGED <<nmsg, job, neu, quoted, index, clock, updates>>

\* Fault: the callback returns after its first call of ApplyUpdateFast.
PublishOnce ==
  /\ step = Publishing
  /\ SetIndexPrice(IF job.index > 0 THEN job.index ELSE index)
  /\ PushUpdate([sym |-> job.sym, index |-> job.index, time |-> clock])
  /\ job' = NoJob
  /\ neu' = Empty
  /\ step' = 0
  /\ UNCHANGED <<nmsg, quoted, book, clock>>

\* The rest of ApplyUpdateFast: the index again, then the wake-up.
Publish ==
  /\ step = Publishing
  /\ SetIndexPrice(IF job.index > 0 THEN job.index ELSE index)
  /\ PushUpdate([sym |-> job.sym, index |-> job.index, time |-> clock])
  /\ job' = IF Len(job.todo) = 1 THEN NoJob
            ELSE [job EXCEPT !.todo = Tail(job.todo)]
  /\ neu' = Empty
  /\ step' = 0
  /\ UNCHANGED <<nmsg, quoted, book, clock>>

Receive ==
  /\ nmsg < Len(Feed)
  /\ \E m \in Feed[nmsg + 1] : FromApp(m)

Applying == BeginApply \/ StoreField \/ Publish

FeedNext == Receive \/ Applying
=============================================================================
