----------------------------- MODULE MCUniverse ------------------------------
(***************************************************************************)
(* Universe on chains about a price of 100, some of whose strikes are      *)
(* equally far from it, in one or two expiries: up to three strikes, each  *)
(* option with or without its counterpart, amid names, times, strikes and  *)
(* flags that must not be selected; or up to five strikes, each complete.  *)
(***************************************************************************)
EXTENDS Universe

AnOption(exp, strike, isCall) ==
  [parts |-> 4, exp |-> exp, strike |-> strike, isCall |-> isCall, active |-> TRUE]

Board(exp, strikes) == {AnOption(exp, k, c) : k \in strikes, c \in BOOLEAN}

Noise ==
  {[AnOption(2, 100, TRUE) EXCEPT !.active = FALSE], AnOption(0, 100, TRUE),
   AnOption(8, 100, FALSE), AnOption(2, 121, TRUE), AnOption(7, 79, FALSE),
   [AnOption(1, 100, TRUE) EXCEPT !.parts = 2],
   [AnOption(2, 100, TRUE) EXCEPT !.parts = 3],
   [AnOption(7, 0, FALSE) EXCEPT !.strike = NotANumber]}

Partial ==
  {Noise \cup board : board \in SUBSET Board(2, {95, 100, 105})}
    \cup {Noise \cup Board(2, {95, 110}) \cup board :
            board \in SUBSET Board(7, {90, 110, 119})}
    \cup {Board(2, {95, 100, 105, 80})}

\* Chains that list every call with its put, on several boards of strikes.
Complete ==
  {Board(2, ks) \cup Board(7, ls) :
     ks \in SUBSET {85, 95, 100, 105, 115} \ {{}}, ls \in {{}, {90, 95, 110, 111}}}

SomeChains == Partial \cup Complete

ASSUME NamesAreOfOneForm == NamesIdentify
=============================================================================
