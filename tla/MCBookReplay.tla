---------------------------- MODULE MCBookReplay -----------------------------
(***************************************************************************)
(* BookReplay with every message of up to MaxLen entries, on limits small  *)
(* enough for messages to be longer than what is looked at.                *)
(***************************************************************************)
EXTENDS BookReplay

CONSTANT MaxLen     \* entries in a message

At(kind, px, qty) == [kind |-> kind, px |-> px, qty |-> qty, del |-> FALSE]

\* Two bids, two asks, an ask without a size, the index; and, in increments,
\* a bid and an ask that go.
Standing ==
  {At("bid", 10, 1), At("bid", 11, 2), At("ask", 12, 3), At("ask", 13, 1),
   At("ask", 12, Absent), At("index", 65000, Absent)}

Going ==
  {[At("bid", 11, 3) EXCEPT !.del = TRUE], [At("ask", 12, 0) EXCEPT !.del = TRUE]}

UpTo(n, S) == UNION {[1 .. k -> S] : k \in 0 .. n}

SomeMessages ==
  [type : {"W"}, entries : UpTo(MaxLen, Standing), fits : {{}, {"levels"}}]
    \cup [type : {"X"}, entries : UpTo(MaxLen, Standing \cup Going),
          fits : {{}, {"levels"}}]
=============================================================================
