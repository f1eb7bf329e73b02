----------------------------- MODULE BookReplay ------------------------------
(***************************************************************************)
(* One option's market data, message after message: what the venue's book  *)
(* of depth 1 becomes, next to what FromApp keeps of it in the entry of    *)
(* the option.  Nothing runs concurrently here; Hedger interleaves.        *)
(***************************************************************************)
EXTENDS FixParse

CONSTANT Messages   \* the messages the venue may send for the option

ASSUME BookReplayAssumption ==
  Messages \subseteq [type : {"W", "X"}, entries : Seq(Entry),
                      fits : SUBSET {"levels", "index"}]

VARIABLES
  venue,    \* history: the sides as the venue means them
  kept,     \* the sides of the DepthEntry
  synced    \* history: the side was in a snapshot, and ordinary ever since

vars == <<venue, kept, synced>>

Init ==
  /\ venue  = [s \in SideNames |-> NoLevel]
  /\ kept   = [s \in SideNames |-> NoLevel]
  /\ synced = [s \in SideNames |-> TRUE]

Handle(m) ==
  /\ venue'  = [s \in SideNames |-> VenueSide(m, s, venue[s])]
  /\ kept'   = [s \in SideNames |-> Applied(m, s, kept[s])]
  /\ synced' = [s \in SideNames |-> \/ OrdinarySnapshot(m, s)
                                    \/ synced[s] /\ OrdinaryIncrement(m, s)]

Next == \E m \in Messages : Handle(m)

Spec == Init /\ [][Next]_vars

\* A side that was in a snapshot, its best level among those looked at, and
\* of which each later increment had at most one entry, is kept as the venue
\* means it, whatever levels came and went and in whatever order a snapshot
\* lists them.  Any ordinary snapshot repairs a side that fell behind.
SyncedSidesExact ==
  \A s \in SideNames : synced[s] => Shows(kept[s], venue[s])

\* The levels the venue may name for a side, each a price with its quantity.
Named == [s \in SideNames |->
  UNION {{[px |-> m.entries[k].px, qty |-> m.entries[k].qty] :
            k \in {j \in DOMAIN m.entries :
                      /\ m.entries[j].kind = s
                      /\ m.type = "X" => ~m.entries[j].del}} : m \in Messages}]

\* Whatever messages come, ordinary or not: a quote with a quantity is one the
\* venue named, price and quantity of one entry that did not delete it, though
\* the parser puts a side together from several entries.
KeptWasNamed ==
  \A s \in SideNames : kept[s].qty > 0 => kept[s] \in Named[s]
=============================================================================
