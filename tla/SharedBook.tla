------------------------------ MODULE SharedBook -----------------------------
(***************************************************************************)
(* Package data: the block of memory the FIX callback writes and the       *)
(* strategy and the alert consumer read (SharedBook), and the channel of   *)
(* Updates.  No lock protects either.  Each field of a depth entry is      *)
(* stored and loaded by an atomic operation of its own, so the unit of     *)
(* interleaving is one field, never one entry.                             *)
(***************************************************************************)
EXTENDS SymbolTable

CONSTANTS
  UpdateCap,    \* capacity of updatesCh: 2048 in main.go
  MaxClock      \* bound on the clock, for model checking

ASSUME SharedBookAssumption ==
  /\ UpdateCap \in Nat \ {0}
  /\ MaxClock \in Nat

VARIABLES
  book,         \* shared.Books
  index,        \* shared.IndexPrice
  clock,        \* Nanotime(), in units of the debounce window
  updates       \* updatesCh

\* The fields of a DepthEntry in the order WriteDepthFast stores them.
WriteOrder == <<"bidPx", "bidQty", "askPx", "askQty", "ts">>

FieldNames == {"bidPx", "bidQty", "askPx", "askQty", "ts"}

DepthEntry == [bidPx : Nat, bidQty : Nat, askPx : Nat, askQty : Nat, ts : Nat]

Empty == [bidPx |-> 0, bidQty |-> 0, askPx |-> 0, askQty |-> 0, ts |-> 0]

\* IsBid, Price and Qty travel with an Update too, and no one reads them.
Update == [sym : Idx, index : Nat, time : Nat]

NoUpdate == [sym |-> 0, index |-> 0, time |-> 0]

SharedBookTypeOK ==
  /\ book \in [Idx -> DepthEntry]
  /\ index \in Nat
  /\ clock \in Nat
  /\ updates \in Seq(Update)

SharedBookInit(startIndex, startTime) ==
  /\ book = [i \in Idx |-> Empty]
  /\ index = startIndex
  /\ clock = startTime
  /\ updates = <<>>

\* One atomic store of WriteDepthFast.
StoreDepth(i, field, value) ==
  book' = [book EXCEPT ![i] = [@ EXCEPT ![field] = value]]

SetIndexPrice(v) == index' = v

\* The select of ApplyUpdateFast: when the channel is full the update is lost.
PushUpdate(u) ==
  updates' = IF Len(updates) < UpdateCap THEN Append(updates, u) ELSE updates

Tick ==
  /\ clock < MaxClock
  /\ clock' = clock + 1
  /\ UNCHANGED <<book, index, updates>>
=============================================================================
