-------------------------- MODULE BookReplayProofs ---------------------------
(***************************************************************************)
(* The replay of one option, message after message: a side that is synced  *)
(* stays exact, and no side mixes entries.  What a single message does is  *)
(* in FixParseProofs.                                                      *)
(***************************************************************************)
EXTENDS BookReplay, FixParseProofs

\* On whatever messages of whatever length, and for all limits of the parser,
\* a side that was in an ordinary snapshot and had ordinary increments since
\* is kept exactly as the venue means it.
THEOREM SyncedExact == Spec => []SyncedSidesExact
<1>1. Init => SyncedSidesExact
  BY DEF Init, SyncedSidesExact, Shows, NoLevel
<1>2. SyncedSidesExact /\ [Next]_vars => SyncedSidesExact'
  <2> SUFFICES ASSUME SyncedSidesExact, [Next]_vars PROVE SyncedSidesExact'
    OBVIOUS
  <2>1. CASE UNCHANGED vars
    BY <2>1 DEF vars, SyncedSidesExact
  <2>2. ASSUME NEW m \in Messages, Handle(m) PROVE SyncedSidesExact'
    <3>1. SUFFICES ASSUME NEW s \in SideNames, synced'[s]
                   PROVE  Shows(kept'[s], venue'[s])
      BY DEF SyncedSidesExact
    <3>2. /\ kept'[s] = Applied(m, s, kept[s])
          /\ venue'[s] = VenueSide(m, s, venue[s])
          /\ OrdinarySnapshot(m, s) \/ (synced[s] /\ OrdinaryIncrement(m, s))
          /\ m.entries \in Seq(Entry)
      BY <2>2, <3>1, BookReplayAssumption DEF Handle
    <3>3. CASE OrdinarySnapshot(m, s)
      <4>1. kept'[s] = venue'[s]
        BY <3>2, <3>3, SnapshotExact
      <4> QED
        BY <4>1 DEF Shows
    <3>4. CASE synced[s] /\ OrdinaryIncrement(m, s)
      BY <3>2, <3>4, IncrementExact DEF SyncedSidesExact
    <3> QED
      BY <3>2, <3>3, <3>4
  <2> QED
    BY <2>1, <2>2 DEF Next
<1> QED
  BY <1>1, <1>2, PTL DEF Spec

\* On whatever messages, ordinary or not, and for all limits of the parser, a
\* quote that is kept with a quantity is one the venue named.
THEOREM KeptNamed == Spec => []KeptWasNamed
<1>1. Init => KeptWasNamed
  BY DEF Init, KeptWasNamed, NoLevel
<1>2. KeptWasNamed /\ [Next]_vars => KeptWasNamed'
  <2> SUFFICES ASSUME KeptWasNamed, [Next]_vars PROVE KeptWasNamed'
    OBVIOUS
  <2>1. CASE UNCHANGED vars
    BY <2>1 DEF vars, KeptWasNamed
  <2>2. ASSUME NEW m \in Messages, Handle(m) PROVE KeptWasNamed'
    <3>1. SUFFICES ASSUME NEW s \in SideNames, kept'[s].qty > 0
                   PROVE  kept'[s] \in Named[s]
      BY DEF KeptWasNamed
    <3> DEFINE q == FastParseHFT(m, s)
    <3>2. /\ kept'[s] = Applied(m, s, kept[s])
          /\ m.entries \in Seq(Entry) /\ m.type \in {"W", "X"}
      BY <2>2, <3>1, BookReplayAssumption DEF Handle
    <3>3. CASE ~Applies(q)
      BY <3>1, <3>2, <3>3 DEF Applied, KeptWasNamed
    <3>4. CASE Applies(q)
      <4>1. kept'[s] = [px |-> q.px, qty |-> q.qty]
        BY <3>2, <3>4 DEF Applied
      <4>2. q.qty > 0
        BY <3>1, <4>1
      <4>3. PICK k \in DOMAIN m.entries :
                   /\ m.entries[k].kind = s
                   /\ m.type = "X" => ~m.entries[k].del
                   /\ m.entries[k].px = q.px /\ m.entries[k].qty = q.qty
        BY <3>2, <4>2, FromOneEntry
      <4>4. kept'[s] = [px |-> m.entries[k].px, qty |-> m.entries[k].qty]
        BY <4>1, <4>3
      <4> QED
        BY <2>2, <4>3, <4>4 DEF Named
    <3> QED
      BY <3>3, <3>4
  <2> QED
    BY <2>1, <2>2 DEF Next
<1> QED
  BY <1>1, <1>2, PTL DEF Spec
=============================================================================
