----------------------------- MODULE SymbolTable -----------------------------
(***************************************************************************)
(* The option table.  main.go hands ONE list of symbols to the FIX client  *)
(* (SetOptionSymbols), to the order books (InitOrderBooks) and to the      *)
(* strategy (InitializeHFT); each cuts it at MaxOptions and uses the       *)
(* position in the list as the option's index.  A symbol is abstracted to  *)
(* what InitializeHFT parses out of "BTC-<expiry>-<strike>-<C|P>"; parsed  *)
(* is FALSE for a name it cannot split into four parts with a numeric      *)
(* strike.  Go's index i is position i + 1 here.                           *)
(***************************************************************************)
EXTENDS Integers, Sequences, FiniteSets

CONSTANTS
  MaxOptions,   \* size of the fixed tables (data.MaxOptions)
  Symbols       \* the pre-selected universe, in order

ASSUME SymbolsAssumption ==
  /\ MaxOptions \in Nat \ {0}
  /\ Symbols \in Seq([parsed : BOOLEAN, expiry : STRING,
                      strike : Nat, isCall : BOOLEAN])

\* Symbols beyond the fixed tables are ignored by all three components.
Count == IF Len(Symbols) < MaxOptions THEN Len(Symbols) ELSE MaxOptions

Idx == 1 .. Count

\* Expiries are numbered 0, 1, ... in the order in which they first appear.
ExpiryIndex(e) ==
  Cardinality({Symbols[j].expiry :
                 j \in {k \in Idx : /\ Symbols[k].parsed
                                    /\ \A l \in 1 .. k : Symbols[l].parsed =>
                                                           Symbols[l].expiry # e}})

\* A name that does not parse leaves the zero OptionInfo in the table: a put
\* of strike 0 in the first expiry.
Option ==
  [i \in Idx |->
     IF Symbols[i].parsed
     THEN [strike |-> Symbols[i].strike,
           expiry |-> ExpiryIndex(Symbols[i].expiry),
           isCall |-> Symbols[i].isCall]
     ELSE [strike |-> 0, expiry |-> 0, isCall |-> FALSE]]

\* The venue's strikes are above 0.  The put that a name which does not parse
\* leaves in the table would else be a leg of a box with a call of strike 0.
PositiveStrikes == \A i \in Idx : Symbols[i].parsed => Symbols[i].strike > 0
=============================================================================
