--------------------------- MODULE FixParseProofs ----------------------------
(***************************************************************************)
(* What FixParse's definitions choose exists, so they return what their    *)
(* names say; and where the parser agrees with what the venue means.       *)
(***************************************************************************)
EXTENDS FixParse, TLAPS, WellFoundedInduction, FiniteSetTheorems

LEMMA LeastIndex ==
  ASSUME NEW S \in SUBSET Nat, S # {}
  PROVE  \E x \in S : \A y \in S : x <= y
<1>1. \E x \in S : \A y \in S : ~(<<y, x>> \in OpToRel(<, Nat))
  BY NatLessThanWellFounded, WFMin
<1>2. \A x, y \in Nat : y < x => <<y, x>> \in OpToRel(<, Nat)
  BY DEF OpToRel
<1>3. PICK x \in S : \A y \in S : ~(y < x)
  BY <1>1, <1>2
<1> QED
  BY <1>3

LEMMA FirstIn ==
  ASSUME NEW P \in SUBSET Nat, P # {}
  PROVE  First(P) \in P /\ \A j \in P : First(P) <= j
BY LeastIndex DEF First

LEMMA LastIn ==
  ASSUME NEW n \in Nat, NEW P \in SUBSET (1 .. n), P # {}
  PROVE  Last(P) \in P /\ \A j \in P : j <= Last(P)
<1> DEFINE S == {n - k : k \in P}
<1>1. S \in SUBSET Nat /\ S # {}
  OBVIOUS
<1>2. \E x \in S : \A y \in S : x <= y
  <2> HIDE DEF S
  <2> QED
    BY <1>1, LeastIndex
<1>3. PICK k \in P : \A j \in P : n - k <= n - j
  BY <1>2
<1>4. \A j \in P : j <= k
  BY <1>3
<1> QED
  BY <1>4 DEF Last

\* Finitely many naturals have an upper bound.
LEMMA Bounded ==
  ASSUME NEW n \in Nat, NEW P \in SUBSET (1 .. n),
         NEW f, \A k \in P : f[k] \in Nat
  PROVE  \E b \in Nat : \A k \in P : f[k] <= b
<1> DEFINE BoundedTo(m) == \E b \in Nat : \A k \in P : k <= m => f[k] <= b
           S == {m \in Nat : ~BoundedTo(m)}
<1>1. S = {}
  <2> SUFFICES ASSUME S # {} PROVE FALSE
    OBVIOUS
  <2>1. PICK m \in S : \A y \in S : m <= y
    <3>1. S \in SUBSET Nat
      OBVIOUS
    <3> HIDE DEF S
    <3> QED
      BY <3>1, LeastIndex
  <2>2. CASE m = 0
    <3>1. \A k \in P : ~(k <= 0)
      OBVIOUS
    <3>2. BoundedTo(0)
      BY <3>1
    <3> QED
      BY <2>1, <2>2, <3>2
  <2>3. CASE m # 0
    <3>3a. m \in Nat /\ S \in SUBSET Nat
      OBVIOUS
    <3>3b. m - 1 \in Nat
      BY <3>3a, <2>3
    <3>3c. ~(m - 1 \in S)
      <4> HIDE DEF S
      <4> QED
        BY <3>3a, <2>1
    <3>2. PICK b \in Nat : \A k \in P : k <= m - 1 => f[k] <= b
      BY <3>3b, <3>3c
    <3>3. CASE m \in P /\ f[m] > b
      <4>1. \A k \in P : k <= m => k = m \/ k <= m - 1
        BY <2>1
      <4>2. \A k \in P : k <= m => f[k] <= f[m]
        <5> HIDE DEF S
        <5>1. \A k \in P : k <= m - 1 => f[k] <= f[m]
          BY <3>2, <3>3
        <5>2. f[m] <= f[m]
          BY <3>3
        <5> QED
          BY <4>1, <5>1, <5>2
      <4>3. BoundedTo(m)
        BY <3>3, <4>2
      <4> QED
        BY <2>1, <4>3
    <3>4. CASE ~(m \in P /\ f[m] > b)
      <4>1. \A k \in P : k <= m => k = m \/ k <= m - 1
        BY <2>1
      <4>2. \A k \in P : k <= m => f[k] <= b
        BY <3>2, <3>4, <4>1
      <4>3. BoundedTo(m)
        BY <4>2
      <4> QED
        BY <2>1, <4>3
    <3> QED
      BY <3>3, <3>4
  <2> QED
    BY <2>2, <2>3
<1>2. PICK b \in Nat : \A k \in P : k <= n => f[k] <= b
  BY <1>1
<1> QED
  BY <1>2

LEMMA LeastValue ==
  ASSUME NEW n \in Nat, NEW P \in SUBSET (1 .. n), P # {},
         NEW f, \A k \in P : f[k] \in Nat
  PROVE  \E p \in {f[k] : k \in P} : \A k \in P : p <= f[k]
<1> DEFINE V == {f[k] : k \in P}
<1>1. V \in SUBSET Nat /\ V # {}
  OBVIOUS
<1>2. \E x \in V : \A y \in V : x <= y
  <2> HIDE DEF V
  <2> QED
    BY <1>1, LeastIndex
<1> QED
  BY <1>2

LEMMA GreatestValue ==
  ASSUME NEW n \in Nat, NEW P \in SUBSET (1 .. n), P # {},
         NEW f, \A k \in P : f[k] \in Nat
  PROVE  \E p \in {f[k] : k \in P} : \A k \in P : p >= f[k]
<1> DEFINE U == {b \in Nat : \A k \in P : f[k] <= b}
<1>1. U \in SUBSET Nat /\ U # {}
  BY Bounded
<1>2. PICK u \in U : \A b \in U : u <= b
  <2> HIDE DEF U
  <2> QED
    BY <1>1, LeastIndex
<1>3. \E k \in P : f[k] = u
  <2> SUFFICES ASSUME \A k \in P : f[k] # u PROVE FALSE
    OBVIOUS
  <2>01. u \in Nat /\ \A k \in P : f[k] <= u
    BY <1>2
  <2>02. PICK k0 \in P : TRUE
    OBVIOUS
  <2>1. \A k \in P : f[k] \in Nat /\ f[k] < u
    <3> HIDE DEF U
    <3> QED
      BY <2>01
  <2>2. u - 1 \in Nat
    <3> HIDE DEF U
    <3> QED
      BY <2>01, <2>02, <2>1
  <2>3. \A k \in P : f[k] <= u - 1
    <3> HIDE DEF U
    <3> QED
      BY <2>01, <2>1
  <2>4. u - 1 \in U
    BY <2>2, <2>3
  <2> QED
    <3> HIDE DEF U
    <3> QED
      BY <1>2, <2>01, <2>4
<1> QED
  BY <1>2, <1>3

LEMMA BestIn ==
  ASSUME NEW es \in Seq(Entry), NEW kind,
         NEW P \in SUBSET DOMAIN es, P # {}, \A k \in P : es[k].px \in Nat
  PROVE  /\ BestOf(es, P, kind) \in P
         /\ es[BestOf(es, P, kind)].px = BestPx(es, P, kind)
         /\ \A k \in P : es[k].px = BestPx(es, P, kind) => BestOf(es, P, kind) <= k
         /\ \A k \in P : Better(kind, BestPx(es, P, kind), es[k].px)
<1> DEFINE f == [k \in P |-> es[k].px]
           V == {es[k].px : k \in P}
<1>1. Len(es) \in Nat /\ DOMAIN es = 1 .. Len(es)
  OBVIOUS
<1>2. \A k \in P : f[k] \in Nat
  OBVIOUS
<1>3. V = {f[k] : k \in P}
  OBVIOUS
<1>4. \E p \in V : \A k \in P : Better(kind, p, f[k])
  <2>1. CASE kind = "bid"
    <3> HIDE DEF f, V
    <3>1. \E p \in {f[k] : k \in P} : \A k \in P : p >= f[k]
      BY <1>1, <1>2, GreatestValue
    <3> QED
      BY <2>1, <3>1, <1>3 DEF Better
  <2>2. CASE kind # "bid"
    <3> HIDE DEF f, V
    <3>1. \E p \in {f[k] : k \in P} : \A k \in P : p <= f[k]
      BY <1>1, <1>2, LeastValue
    <3> QED
      BY <2>2, <3>1, <1>3 DEF Better
  <2> QED
    BY <2>1, <2>2
<1>5. \E p \in V : \A k \in P : Better(kind, p, es[k].px)
  BY <1>4
<1>6. /\ BestPx(es, P, kind) \in V
      /\ \A k \in P : Better(kind, BestPx(es, P, kind), es[k].px)
  BY <1>5 DEF BestPx
<1> DEFINE B == {k \in P : es[k].px = BestPx(es, P, kind)}
<1>7. B # {} /\ B \in SUBSET Nat
  BY <1>1, <1>6
<1>8. BestOf(es, P, kind) \in B /\ \A k \in B : BestOf(es, P, kind) <= k
  <2> HIDE DEF B
  <2>1. First(B) \in B /\ \A k \in B : First(B) <= k
    BY <1>7, FirstIn
  <2> QED
    BY <2>1 DEF BestOf, B
<1> QED
  BY <1>6, <1>8

LEMMA EntryType ==
  ASSUME NEW es \in Seq(Entry), NEW k \in DOMAIN es
  PROVE  /\ es[k].px \in Int /\ (es[k].px # Absent => es[k].px \in Nat)
         /\ es[k].qty \in Int /\ (es[k].qty # Absent => es[k].qty \in Nat)
         /\ es[k].del \in BOOLEAN
<1>1. es[k] \in Entry
  OBVIOUS
<1> QED
  BY <1>1 DEF Entry, Absent

LEMMA SnapshotSideType ==
  ASSUME NEW es \in Seq(Entry), NEW kind
  PROVE  SnapshotSide(es, kind) \in QuoteSide
<1>1. CASE Kept(es, kind) = {}
  BY <1>1 DEF SnapshotSide, NoQuote, QuoteSide
<1>2. CASE Kept(es, kind) # {}
  <2>1. /\ Kept(es, kind) \in SUBSET DOMAIN es
        /\ \A k \in Kept(es, kind) : es[k].px # Absent /\ es[k].qty # Absent
    BY DEF Kept, Levels, Complete
  <2>2. BestOf(es, Kept(es, kind), kind) \in Kept(es, kind)
    BY <1>2, <2>1, EntryType, BestIn
  <2> QED
    BY <1>2, <2>1, <2>2, EntryType DEF SnapshotSide, QuoteSide
<1> QED
  BY <1>1, <1>2

LEMMA ReducedIn ==
  ASSUME NEW es \in Seq(Entry), NEW P \in SUBSET DOMAIN es, P # {}
  PROVE  Reduced(es, P) \in P
<1>1. Len(es) \in Nat /\ DOMAIN es = 1 .. Len(es)
  OBVIOUS
<1>2. CASE \E k \in P : es[k].px > 0
  <2> DEFINE Q == {k \in P : es[k].px > 0}
  <2>1. Q \in SUBSET Nat /\ Q # {}
    BY <1>1, <1>2
  <2>2. First(Q) \in Q
    <3> HIDE DEF Q
    <3> QED
      BY <2>1, FirstIn
  <2> QED
    BY <1>2, <2>2 DEF Reduced
<1>3. CASE ~(\E k \in P : es[k].px > 0)
  <2>1. Last(P) \in P
    BY <1>1, LastIn
  <2> QED
    BY <1>3, <2>1 DEF Reduced
<1> QED
  BY <1>2, <1>3

LEMMA CompleteIn ==
  ASSUME NEW es, NEW kind, NEW max
  PROVE  /\ Complete(es, kind, max) \in SUBSET DOMAIN es
         /\ \A k \in Complete(es, kind, max) :
              es[k].px # Absent /\ es[k].qty # Absent
BY DEF Complete

LEMMA IncrementalSideType ==
  ASSUME NEW es \in Seq(Entry), NEW kind
  PROVE  IncrementalSide(es, kind) \in QuoteSide
<1> DEFINE P == Complete(es, kind, MaxEntriesX)
           e == es[Reduced(es, P)]
           d == \E k \in P : es[k].del
<1>1. CASE P = {}
  BY <1>1 DEF IncrementalSide, NoQuote, QuoteSide
<1>2. CASE P # {}
  <2>1. P \in SUBSET DOMAIN es
    BY CompleteIn
  <2>2. Reduced(es, P) \in P
    <3> HIDE DEF P
    <3> QED
      BY <1>2, <2>1, ReducedIn
  <2>3. e.px \in Nat /\ e.qty \in Nat
    BY <2>1, <2>2, CompleteIn, EntryType
  <2>4. IncrementalSide(es, kind)
          = [px |-> e.px, qty |-> IF e.del THEN 0 ELSE e.qty, del |-> d]
    BY <1>2 DEF IncrementalSide
  <2>5. d \in BOOLEAN
    OBVIOUS
  <2> HIDE DEF e, d
  <2> QED
    BY <2>3, <2>4, <2>5 DEF QuoteSide
<1> QED
  BY <1>1, <1>2

LEMMA ParserType ==
  ASSUME NEW m, m.entries \in Seq(Entry), NEW kind
  PROVE  FastParseHFT(m, kind) \in QuoteSide
<1>1. NoQuote \in QuoteSide
  BY DEF NoQuote, QuoteSide
<1> QED
  BY <1>1, SnapshotSideType, IncrementalSideType DEF FastParseHFT

LEMMA IndexType ==
  ASSUME NEW m, m.entries \in Seq(Entry)
  PROVE  ParseIndexPriceFast(m) \in Nat
<1> DEFINE es == m.entries
           P  == IndexEntries(es)
<1>1. CASE "index" \notin m.fits \/ P = {}
  BY <1>1 DEF ParseIndexPriceFast
<1>2. CASE "index" \in m.fits /\ P # {}
  <2>1. P \in SUBSET Nat /\ P \in SUBSET DOMAIN es
    BY DEF IndexEntries
  <2>2. First(P) \in P
    BY <1>2, <2>1, FirstIn
  <2>3. First(P) \in DOMAIN es /\ es[First(P)].px # Absent
    BY <2>2 DEF IndexEntries
  <2> QED
    BY <1>2, <2>3, EntryType DEF ParseIndexPriceFast
<1> QED
  BY <1>1, <1>2

LEMMA VenueType ==
  ASSUME NEW m, m.entries \in Seq(Entry), m.type \in {"W", "X"}, NEW kind,
         NEW old \in [px : Nat, qty : Nat]
  PROVE  VenueSide(m, kind, old) \in [px : Nat, qty : Nat]
<1> DEFINE es == m.entries
           P  == Complete(es, kind, Len(es))
           Q  == Offered(es, kind)
<1>1. P \in SUBSET DOMAIN es /\ Q \in SUBSET P
  BY CompleteIn DEF Offered
<1>2. \A k \in P : es[k].px \in Nat /\ es[k].qty \in Nat
  BY <1>1, CompleteIn, EntryType
<1>3. Q # {} => BestOf(es, Q, kind) \in P
  <2> HIDE DEF P, Q
  <2> QED
    BY <1>1, <1>2, BestIn
<1>4. P # {} => Last(P) \in P
  <2>1. Len(es) \in Nat /\ DOMAIN es = 1 .. Len(es)
    OBVIOUS
  <2> HIDE DEF P
  <2> QED
    BY <1>1, <2>1, LastIn
<1> DEFINE j == IF m.type = "W" THEN BestOf(es, Q, kind) ELSE Last(P)
<1>5. VenueSide(m, kind, old) =
        IF m.type = "W" /\ Q = {} THEN NoLevel
        ELSE IF m.type = "X" /\ P = {} THEN old
        ELSE IF m.type = "X" /\ es[j].del THEN NoLevel
        ELSE [px |-> es[j].px, qty |-> es[j].qty]
  BY DEF VenueSide
<1>6. CASE (m.type = "W" /\ Q # {}) \/ (m.type = "X" /\ P # {})
  <2>1. j \in P
    BY <1>3, <1>4, <1>6
  <2>2. es[j].px \in Nat /\ es[j].qty \in Nat
    BY <1>2, <2>1
  <2> HIDE DEF es, P, Q, j
  <2> QED
    BY <1>5, <1>6, <2>2 DEF NoLevel
<1>7. CASE ~((m.type = "W" /\ Q # {}) \/ (m.type = "X" /\ P # {}))
  <2>1. VenueSide(m, kind, old) \in {NoLevel, old}
    <3> HIDE DEF es, P, Q, j
    <3>1. CASE m.type = "W"
      BY <1>5, <1>7, <3>1
    <3>2. CASE m.type = "X"
      BY <1>5, <1>7, <3>2
    <3> QED
      BY <3>1, <3>2
  <2> QED
    BY <2>1 DEF NoLevel
<1> QED
  BY <1>6, <1>7

\* The best level of all, if it is looked at, is the one the snapshot is
\* reduced to: the levels that are cut off cannot matter.
LEMMA BestKept ==
  ASSUME NEW es \in Seq(Entry), NEW kind,
         NEW P \in SUBSET DOMAIN es, NEW Q \in SUBSET P,
         \A k \in P : es[k].px \in Nat,
         P # {}, BestOf(es, P, kind) \in Q
  PROVE  BestOf(es, Q, kind) = BestOf(es, P, kind)
<1> DEFINE p == BestOf(es, P, kind)
           q == BestOf(es, Q, kind)
<1>1. /\ p \in P /\ es[p].px = BestPx(es, P, kind)
      /\ \A k \in P : es[k].px = BestPx(es, P, kind) => p <= k
      /\ \A k \in P : Better(kind, BestPx(es, P, kind), es[k].px)
  BY BestIn
<1>2. Q \in SUBSET DOMAIN es /\ Q # {} /\ \A k \in Q : es[k].px \in Nat
  OBVIOUS
<1>3. /\ q \in Q /\ es[q].px = BestPx(es, Q, kind)
      /\ \A k \in Q : es[k].px = BestPx(es, Q, kind) => q <= k
      /\ \A k \in Q : Better(kind, BestPx(es, Q, kind), es[k].px)
  BY <1>2, BestIn
<1> HIDE DEF p, q
<1>4. es[p].px \in Nat /\ es[q].px \in Nat /\ p \in Nat /\ q \in Nat
  BY <1>1, <1>2, <1>3
<1>5. Better(kind, es[p].px, es[q].px) /\ Better(kind, es[q].px, es[p].px)
  BY <1>1, <1>3 DEF p
<1>6. es[p].px = es[q].px
  BY <1>4, <1>5 DEF Better
<1>7. p <= q /\ q <= p
  BY <1>1, <1>3, <1>6 DEF p
<1> QED
  BY <1>4, <1>7 DEF p, q

LEMMA SnapshotExact ==
  ASSUME NEW m, m.entries \in Seq(Entry), NEW s \in SideNames, NEW old, NEW older,
         OrdinarySnapshot(m, s)
  PROVE  Applied(m, s, old) = VenueSide(m, s, older)
<1> DEFINE es == m.entries
           P  == Offered(es, s)
           Q  == Kept(es, s)
           b  == BestOf(es, P, s)
<1>1. es \in Seq(Entry)
  OBVIOUS
<1>2. P \in SUBSET DOMAIN es /\ P # {}
  BY DEF OrdinarySnapshot, Offered, Complete
<1>3. Q \in SUBSET P
  <2>1. Len(es) \in Nat /\ DOMAIN es = 1 .. Len(es)
    BY <1>1
  <2> QED
    BY <2>1, FixParseAssumption DEF Kept, Levels, Offered, Complete
<1>4. \A k \in P : es[k].px \in Nat /\ es[k].px > 0
  BY <1>1, <1>2, EntryType DEF Offered, Complete
<1>9. b \in Q
  <2>1. b \in P
    <3> HIDE DEF es, P
    <3> QED
      BY <1>1, <1>2, <1>4, BestIn DEF b
  <2>2. b <= MaxEntriesW /\ Cardinality({k \in P : k < b}) < MaxLevels
    BY DEF OrdinarySnapshot
  <2>3. Len(es) \in Nat /\ DOMAIN es = 1 .. Len(es)
    BY <1>1
  <2> HIDE DEF b
  <2>4. b \in Levels(es, s)
    BY <2>1, <2>2 DEF Levels, Offered, Complete
  <2>5. {j \in Levels(es, s) : j < b} = {k \in P : k < b}
    BY <2>1, <2>2, <2>3, FixParseAssumption DEF Levels, Offered, Complete
  <2> QED
    BY <2>2, <2>4, <2>5 DEF Kept
<1>5. BestOf(es, Q, s) = b
  <2> HIDE DEF es, P, Q
  <2> QED
    BY <1>1, <1>2, <1>3, <1>4, <1>9, BestKept DEF b
<1>6. FastParseHFT(m, s) = [px |-> es[b].px, qty |-> es[b].qty, del |-> FALSE]
  <2>1. Q # {}
    BY <1>9
  <2>2. FastParseHFT(m, s) = SnapshotSide(es, s)
    BY DEF OrdinarySnapshot, FastParseHFT
  <2> QED
    BY <1>5, <2>1, <2>2 DEF SnapshotSide
<1>7. VenueSide(m, s, older) = [px |-> es[b].px, qty |-> es[b].qty]
  BY <1>2 DEF OrdinarySnapshot, VenueSide
<1>8. es[b].px > 0
  BY <1>3, <1>4, <1>9
<1> HIDE DEF es, b
<1> QED
  BY <1>6, <1>7, <1>8 DEF Applied, Applies

LEMMA IncrementExact ==
  ASSUME NEW m, m.entries \in Seq(Entry), NEW s \in SideNames, NEW old, NEW meant,
         OrdinaryIncrement(m, s), Shows(old, meant)
  PROVE  Shows(Applied(m, s, old), VenueSide(m, s, meant))
<1> DEFINE es == m.entries
           P  == Complete(es, s, Len(es))
           Q  == Complete(es, s, MaxEntriesX)
<1>1. es \in Seq(Entry) /\ m.type = "X" /\ "levels" \in m.fits
  BY DEF OrdinaryIncrement
<1>2. P = Q
  <2>1. Len(es) \in Nat /\ DOMAIN es = 1 .. Len(es)
    BY <1>1
  <2> QED
    BY <2>1, FixParseAssumption DEF OrdinaryIncrement, Complete
<1>3. FastParseHFT(m, s) = IncrementalSide(es, s)
  BY <1>1 DEF FastParseHFT
<1>4. CASE P = {}
  <2>1. FastParseHFT(m, s) = NoQuote
    BY <1>2, <1>3, <1>4 DEF IncrementalSide
  <2>2. Applied(m, s, old) = old
    BY <2>1 DEF Applied, Applies, NoQuote
  <2>3. VenueSide(m, s, meant) = meant
    BY <1>1, <1>4 DEF VenueSide
  <2> QED
    BY <2>2, <2>3
<1>5. CASE P # {}
  <2>1. PICK k \in P : P = {k}
    BY <1>5 DEF OrdinaryIncrement
  <2>2. k \in DOMAIN es /\ es[k].px # Absent /\ es[k].qty # Absent
    BY DEF Complete
  <2>3. es[k].px \in Nat /\ es[k].qty \in Nat /\ (es[k].px > 0 \/ es[k].del)
    BY <1>1, <2>2, EntryType DEF OrdinaryIncrement
  <2>4. Reduced(es, Q) = k
    <3>1. Q = {k} /\ Q \in SUBSET DOMAIN es /\ Q # {}
      BY <1>2, <2>1, <2>2
    <3> HIDE DEF es, P, Q
    <3>2. Reduced(es, Q) \in Q
      BY <1>1, <3>1, ReducedIn
    <3> QED
      BY <3>1, <3>2
  <2>5. Last(P) = k
    <3>1. Len(es) \in Nat /\ P \in SUBSET (1 .. Len(es))
      BY <1>1, <2>1, <2>2
    <3> HIDE DEF es, P
    <3> QED
      BY <2>1, <3>1, LastIn
  <2> DEFINE e == es[k]
             d == \E j \in Q : es[j].del
  <2>6. IncrementalSide(es, s)
          = [px |-> e.px, qty |-> IF e.del THEN 0 ELSE e.qty, del |-> d]
    BY <1>2, <1>5, <2>4 DEF IncrementalSide
  <2>7. d = e.del
    BY <1>1, <1>2, <2>1, <2>2, EntryType
  <2>8. VenueSide(m, s, meant)
          = IF e.del THEN NoLevel ELSE [px |-> e.px, qty |-> e.qty]
    BY <1>1, <1>5, <2>5 DEF VenueSide
  <2> HIDE DEF e, d, P, Q, es
  <2>9. Applied(m, s, old) = [px |-> e.px, qty |-> IF e.del THEN 0 ELSE e.qty]
    BY <1>3, <2>3, <2>6, <2>7 DEF Applied, Applies, e
  <2> QED
    BY <2>8, <2>9 DEF Shows, NoLevel
<1> QED
  BY <1>4, <1>5

\* What the parser makes of a side has no quantity, or is one entry's.
LEMMA FromOneEntry ==
  ASSUME NEW m, m.entries \in Seq(Entry), m.type \in {"W", "X"}, NEW s,
         FastParseHFT(m, s).qty > 0
  PROVE  \E k \in DOMAIN m.entries :
           /\ m.entries[k].kind = s
           /\ m.type = "X" => ~m.entries[k].del
           /\ m.entries[k].px = FastParseHFT(m, s).px
           /\ m.entries[k].qty = FastParseHFT(m, s).qty
<1> DEFINE es == m.entries
<1>1. es \in Seq(Entry)
  OBVIOUS
<1>2. ~(NoQuote.qty > 0)
  BY DEF NoQuote
<1>3. "levels" \in m.fits
  BY <1>2 DEF FastParseHFT
<1>4. CASE m.type = "W"
  <2> DEFINE Q == Kept(es, s)
             b == BestOf(es, Q, s)
  <2>1. FastParseHFT(m, s) = SnapshotSide(es, s)
    BY <1>3, <1>4 DEF FastParseHFT
  <2>2. Q # {}
    BY <1>2, <2>1 DEF SnapshotSide
  <2>3. /\ Q \in SUBSET DOMAIN es
        /\ \A k \in Q : es[k].kind = s /\ es[k].px # Absent
    BY DEF Kept, Levels, Complete
  <2>4. b \in Q
    <3> HIDE DEF es, Q
    <3> QED
      BY <1>1, <2>2, <2>3, EntryType, BestIn DEF b
  <2>5. FastParseHFT(m, s) = [px |-> es[b].px, qty |-> es[b].qty, del |-> FALSE]
    BY <2>1, <2>2 DEF SnapshotSide
  <2> HIDE DEF Q, b
  <2> QED
    BY <1>4, <2>3, <2>4, <2>5
<1>5. CASE m.type = "X"
  <2> DEFINE P == Complete(es, s, MaxEntriesX)
             r == Reduced(es, P)
  <2>1. FastParseHFT(m, s) = IncrementalSide(es, s)
    BY <1>3, <1>5 DEF FastParseHFT
  <2>2. P # {}
    BY <1>2, <2>1 DEF IncrementalSide
  <2>3. P \in SUBSET DOMAIN es /\ \A k \in P : es[k].kind = s
    BY DEF Complete
  <2>4. r \in P
    <3> HIDE DEF es, P
    <3> QED
      BY <1>1, <2>2, <2>3, ReducedIn DEF r
  <2>5. /\ FastParseHFT(m, s).px = es[r].px
        /\ FastParseHFT(m, s).qty = IF es[r].del THEN 0 ELSE es[r].qty
    BY <2>1, <2>2 DEF IncrementalSide
  <2> HIDE DEF P, r
  <2> QED
    BY <1>5, <2>3, <2>4, <2>5
<1> QED
  BY <1>4, <1>5

\* Applying an ordinary message keeps an exact side exact.
LEMMA OrdinaryExact ==
  ASSUME NEW m, m.entries \in Seq(Entry), NEW s \in SideNames, NEW old, NEW meant,
         Ordinary(m, s), Shows(old, meant)
  PROVE  Shows(Applied(m, s, old), VenueSide(m, s, meant))
<1>1. CASE OrdinarySnapshot(m, s)
  <2>1. Applied(m, s, old) = VenueSide(m, s, meant)
    BY <1>1, SnapshotExact
  <2> QED
    BY <2>1 DEF Shows
<1>2. CASE OrdinaryIncrement(m, s)
  BY <1>2, IncrementExact
<1> QED
  BY <1>1, <1>2 DEF Ordinary
=============================================================================
