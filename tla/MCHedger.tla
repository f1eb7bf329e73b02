------------------------------ MODULE MCHedger -------------------------------
(***************************************************************************)
(* Hedger on small instances: one box, 64000/65000.  The venue first       *)
(* quotes the legs that stay put, then the low call, whose quote decides   *)
(* whether the box is worth buying (Cheap), selling (Rich) or neither      *)
(* (Fair).                                                                 *)
(***************************************************************************)
EXTENDS Hedger

Option4(expiry, strike, isCall) ==
  [parsed |-> TRUE, expiry |-> expiry, strike |-> strike, isCall |-> isCall]

BoxSymbols ==
  <<Option4("27JUN25", 64000, TRUE), Option4("27JUN25", 64000, FALSE),
    Option4("27JUN25", 65000, TRUE), Option4("27JUN25", 65000, FALSE)>>

\* What trimming the universe can leave: a near expiry whose two options have
\* no counterparts, before a complete box of the far expiry.
RaggedSymbols ==
  <<Option4("20JUN25", 64000, TRUE), Option4("20JUN25", 66000, FALSE)>>
    \o BoxSymbols

MCParams == NewBoxSpreadHFT

\* Entries of a message: a level, a deleted level, an index price.
At(kind, px, qty) == [kind |-> kind, px |-> px, qty |-> qty, del |-> FALSE]

Del(kind, px) == [kind |-> kind, px |-> px, qty |-> 0, del |-> TRUE]

Mark(px) == [kind |-> "index", px |-> px, qty |-> Absent, del |-> FALSE]

Snapshot(sym, entries) ==
  [type |-> "W", sym |-> sym, index |-> FALSE, px810 |-> Absent,
   entries |-> entries, fits |-> {"levels"}]

Incremental(sym, entries) == [Snapshot(sym, entries) EXCEPT !.type = "X"]

IndexTo(p) ==
  [Incremental(NoSym, <<Mark(p)>>) EXCEPT !.index = TRUE, !.fits = {"levels", "index"}]

\* A message of another type that carries the index in tag 810.
OtherWith(p) ==
  [Incremental(NoSym, <<>>) EXCEPT !.type = "other", !.px810 = p]

With810(m, p) == [m EXCEPT !.px810 = p]

\* Quotes of the low call of the box whose options start after position n.
Fair(n)  == Snapshot(n + 1, <<At("bid", 500, 3), At("ask", 502, 4)>>)
Cheap(n) == Snapshot(n + 1, <<At("ask", 491, 7), At("bid", 486, 3), At("ask", 490, 2)>>)
Rich(n)  == Incremental(n + 1, <<At("bid", 520, 5), At("ask", 522, 4)>>)
AskGone(n) == Incremental(n + 1, <<Del("ask", 490)>>)

\* The legs that stay put.
LowPut(n)   == Snapshot(n + 2, <<At("bid", 300, 9), At("ask", 302, 9)>>)
HighCall(n) == Snapshot(n + 3, <<At("bid", 440, 9), At("ask", 442, 9)>>)
HighPut(n)  == Snapshot(n + 4, <<At("bid", 390, 9), At("ask", 392, 9)>>)

\* The quote of the low call goes from worth buying to worth selling.
SwingFeed ==
  <<{HighCall(0)}, {LowPut(0)}, {HighPut(0)}, {Cheap(0)}, {Rich(0)}>>

\* The venue may make the box cheap or fair, then rich or one-sided, or leave
\* it and move the index.  With tag 810 set to 0 the index is lost until it is
\* sent again.
RaceFeed ==
  <<{Incremental(1, <<At("bid", 486, 3), At("ask", 490, 2)>>)},
    {With810(LowPut(2), 0)}, {With810(HighCall(2), 65000)}, {HighPut(2)},
    {Cheap(2), Fair(2)}, {Rich(2), AskGone(2), IndexTo(65100), OtherWith(65100)}>>

\* What the theorems QuietBook and SignalsFormed ask of the venue holds of
\* every instance.
ASSUME FeedIsOrdinary == OrdinaryFeed

ASSUME StrikesArePositive == PositiveStrikes
=============================================================================
