------------------------------ MODULE AtomicFeed ------------------------------
(***************************************************************************)
(* What the receiving side promises of the quotes, told without fields,    *)
(* wake-ups or other goroutines: the messages are taken in the order they  *)
(* come, and each is applied to both sides of its option at once.          *)
(***************************************************************************)
EXTENDS Naturals, Sequences

CONSTANTS
  Options,
  Sides,
  Blank,            \* a side before its first quote
  Offers,           \* Offers[n]: the messages the n-th may be one of
  Apply(_, _, _)    \* what a message leaves of a side, from what it was

VARIABLES
  taken,            \* messages taken
  shown             \* shown[o][s]: the quote of a side

atomicVars == <<taken, shown>>

AtomicInit ==
  /\ taken = 0
  /\ shown = [o \in Options |-> [s \in Sides |-> Blank]]

Take(m) ==
  /\ taken' = taken + 1
  /\ shown' = [o \in Options |->
                 IF m.sym = o THEN [s \in Sides |-> Apply(m, s, shown[o][s])]
                 ELSE shown[o]]

AtomicNext == taken < Len(Offers) /\ \E m \in Offers[taken + 1] : Take(m)

AtomicSpec == AtomicInit /\ [][AtomicNext]_atomicVars
=============================================================================
