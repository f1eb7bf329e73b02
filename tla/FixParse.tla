------------------------------ MODULE FixParse -------------------------------
(***************************************************************************)
(* Package fix, parsing side: what fastParseHFT and parseIndexPriceFast    *)
(* make of the entries (group 268) of a market data message.               *)
(*                                                                         *)
(* An entry has a kind (tag 269), a price (270) and a size (271), either   *)
(* of which may be Absent, and, in an incremental message, says whether it *)
(* deletes (279=2).  quickfix reads a group against a template and gives   *)
(* up on all of it if an entry but the last has a tag outside: fits names  *)
(* the templates a message's entries can be read with, "levels" for the    *)
(* one of fastParseHFT, "index" for the one of parseIndexPriceFast, which  *)
(* begins each entry with tag 279 and so never fits a snapshot.            *)
(***************************************************************************)
EXTENDS Integers, Sequences, FiniteSets

CONSTANTS
  MaxEntriesW,  \* entries of a snapshot that are looked at: 32
  MaxLevels,    \* levels of a side that are kept of a snapshot: 16
  MaxEntriesX   \* entries of an incremental message that are looked at: 8

ASSUME FixParseAssumption ==
  /\ MaxEntriesW \in Nat
  /\ MaxLevels \in Nat
  /\ MaxEntriesX \in Nat

Absent == -1

Entry == [kind : {"bid", "ask", "index", "other"},
          px : Nat \cup {Absent}, qty : Nat \cup {Absent}, del : BOOLEAN]

QuoteSide == [px : Nat, qty : Nat, del : BOOLEAN]

NoQuote == [px |-> 0, qty |-> 0, del |-> FALSE]

SideNames == {"bid", "ask"}

First(P) == CHOOSE k \in P : \A j \in P : k <= j

Last(P) == CHOOSE k \in P : \A j \in P : j <= k

\* The entries of one side among the first max that have all three tags.
Complete(es, kind, max) ==
  {k \in DOMAIN es : k <= max /\ es[k].kind = kind
                     /\ es[k].px # Absent /\ es[k].qty # Absent}

Levels(es, kind) ==
  {k \in Complete(es, kind, MaxEntriesW) : es[k].px > 0 /\ es[k].qty > 0}

\* bids and asks are arrays of MaxLevels places; later levels are not kept.
Kept(es, kind) ==
  {k \in Levels(es, kind) :
     Cardinality({j \in Levels(es, kind) : j < k}) < MaxLevels}

Better(kind, p, q) == IF kind = "bid" THEN p >= q ELSE p <= q

BestPx(es, P, kind) ==
  CHOOSE p \in {es[k].px : k \in P} : \A k \in P : Better(kind, p, es[k].px)

\* The first of the entries at the best price.
BestOf(es, P, kind) == First({k \in P : es[k].px = BestPx(es, P, kind)})

\* Fault: the venue's levels are taken to come best first.
SnapshotSideFirst(es, kind) ==
  IF Kept(es, kind) = {} THEN NoQuote
  ELSE LET e == es[First(Kept(es, kind))]
       IN  [px |-> e.px, qty |-> e.qty, del |-> FALSE]

SnapshotSide(es, kind) ==
  IF Kept(es, kind) = {} THEN NoQuote
  ELSE LET e == es[BestOf(es, Kept(es, kind), kind)]
       IN  [px |-> e.px, qty |-> e.qty, del |-> FALSE]

\* The entry an incremental message is reduced to on one side: the first with
\* a price other than 0, or the last if there is none.
Reduced(es, P) ==
  IF \E k \in P : es[k].px > 0 THEN First({k \in P : es[k].px > 0}) ELSE Last(P)

\* Fault: a delete keeps the quantity of the entry that says so.
IncrementalSideKeepsQty(es, kind) ==
  LET P == Complete(es, kind, MaxEntriesX)
      e == es[Reduced(es, P)]
  IN  IF P = {} THEN NoQuote
      ELSE [px |-> e.px, qty |-> e.qty, del |-> \E k \in P : es[k].del]

\* Fault: only the price is guarded, so the last entry's quantity stays.
IncrementalSideLastQty(es, kind) ==
  LET P == Complete(es, kind, MaxEntriesX)
      e == es[Reduced(es, P)]
      l == es[Last(P)]
  IN  IF P = {} THEN NoQuote
      ELSE [px |-> e.px, qty |-> IF l.del THEN 0 ELSE l.qty,
            del |-> \E k \in P : es[k].del]

\* The delete flag is that of any entry of the side, the price and quantity
\* are those of one: a level that replaces a deleted one is not seen.
IncrementalSide(es, kind) ==
  LET P == Complete(es, kind, MaxEntriesX)
      e == es[Reduced(es, P)]
  IN  IF P = {} THEN NoQuote
      ELSE [px |-> e.px, qty |-> IF e.del THEN 0 ELSE e.qty,
            del |-> \E k \in P : es[k].del]

FastParseHFT(m, kind) ==
  IF "levels" \notin m.fits THEN NoQuote
  ELSE IF m.type = "W" THEN SnapshotSide(m.entries, kind)
  ELSE IncrementalSide(m.entries, kind)

\* FromApp applies a side that has a price or was deleted.
Applies(q) == q.px > 0 \/ q.del

\* What ApplyUpdateFast leaves of one side.
Applied(m, kind, old) ==
  LET q == FastParseHFT(m, kind)
  IN  IF Applies(q) THEN [px |-> q.px, qty |-> q.qty] ELSE old

IndexEntries(es) == {k \in DOMAIN es : es[k].kind = "index" /\ es[k].px # Absent}

\* Only ever asked of a message of the index symbol.
ParseIndexPriceFast(m) ==
  IF "index" \notin m.fits \/ IndexEntries(m.entries) = {} THEN 0
  ELSE m.entries[First(IndexEntries(m.entries))].px

(***************************************************************************)
(* What the venue means, as the reference for the parser: a snapshot is a  *)
(* full refresh, a side without a level is empty; the entries of an        *)
(* incremental message apply to a book of depth 1 one after the other.     *)
(***************************************************************************)
NoLevel == [px |-> 0, qty |-> 0]

\* All the levels of a side, however many.
Offered(es, kind) ==
  {k \in Complete(es, kind, Len(es)) : es[k].px > 0 /\ es[k].qty > 0}

VenueSide(m, kind, old) ==
  LET P == Complete(m.entries, kind, Len(m.entries))
      Q == Offered(m.entries, kind)
      e == m.entries[IF m.type = "W" THEN BestOf(m.entries, Q, kind) ELSE Last(P)]
  IN  IF m.type = "W" /\ Q = {} THEN NoLevel
      ELSE IF m.type = "X" /\ P = {} THEN old
      ELSE IF m.type = "X" /\ e.del THEN NoLevel
      ELSE [px |-> e.px, qty |-> e.qty]

\* The same quote: a price without quantity is no quote.
Shows(level, meant) ==
  level.qty = meant.qty /\ (level.qty > 0 => level.px = meant.px)

(***************************************************************************)
(* The messages for which the parser sees what the venue means.            *)
(***************************************************************************)
\* A snapshot with a level on the side, the first of the best of which comes
\* within the limits: among the first MaxEntriesW entries, and among the first
\* MaxLevels levels of its side.
OrdinarySnapshot(m, kind) ==
  LET Q == Offered(m.entries, kind)
      b == BestOf(m.entries, Q, kind)
  IN  /\ m.type = "W" /\ "levels" \in m.fits
      /\ Q # {}
      /\ b <= MaxEntriesW
      /\ Cardinality({k \in Q : k < b}) < MaxLevels

\* An increment with at most one entry for the side, which is looked at and
\* either deletes or has a price.
OrdinaryIncrement(m, kind) ==
  LET P == Complete(m.entries, kind, Len(m.entries))
  IN  /\ m.type = "X" /\ "levels" \in m.fits
      /\ \A j, k \in P : j = k
      /\ \A k \in P : /\ k <= MaxEntriesX
                      /\ m.entries[k].px > 0 \/ m.entries[k].del

Ordinary(m, kind) == OrdinarySnapshot(m, kind) \/ OrdinaryIncrement(m, kind)
=============================================================================
