---------------------------- MODULE SignalLedger -----------------------------
(***************************************************************************)
(* What the detector promises, told without books, quotes or goroutines.   *)
(* Opportunities are known by a key.  A key is judged at most once until   *)
(* the ledger forgets; while it is being judged a signal may be issued for *)
(* each of its two sides, long before short, each at most once; and the    *)
(* operator receives every signal issued, in order, without loss.          *)
(***************************************************************************)
EXTENDS Integers, Sequences

CONSTANT Keys       \* integers other than -1

VARIABLES
  judged,       \* keys judged since the ledger last forgot
  open,         \* the judgement in progress: its key and the sides left
  issued,       \* signals issued, as pairs of key and side
  received      \* signals received

ledgerVars == <<judged, open, issued, received>>

Closed == [key |-> -1, sides |-> <<>>]

LedgerInit ==
  /\ judged = {}
  /\ open = Closed
  /\ issued = <<>>
  /\ received = <<>>

Judge(k) ==
  /\ open = Closed
  /\ k \notin judged
  /\ judged' = judged \cup {k}
  /\ open' \in {Closed, [key |-> k, sides |-> <<1, -1>>]}
  /\ UNCHANGED <<issued, received>>

\* Settle the next side of the open judgement, with or without a signal.
Settle ==
  /\ open # Closed
  /\ open' = IF Len(open.sides) = 1 THEN Closed
             ELSE [open EXCEPT !.sides = Tail(@)]
  /\ \/ issued' = Append(issued, [key |-> open.key, side |-> Head(open.sides)])
     \/ UNCHANGED issued
  /\ UNCHANGED <<judged, received>>

Forget ==
  /\ judged' = {}
  /\ UNCHANGED <<open, issued, received>>

ReceiveNext ==
  /\ Len(received) < Len(issued)
  /\ received' = Append(received, issued[Len(received) + 1])
  /\ UNCHANGED <<judged, open, issued>>

LedgerNext == (\E k \in Keys : Judge(k)) \/ Settle \/ Forget \/ ReceiveNext

LedgerSpec ==
  /\ LedgerInit /\ [][LedgerNext]_ledgerVars
  /\ WF_ledgerVars(Settle) /\ WF_ledgerVars(ReceiveNext)
=============================================================================
