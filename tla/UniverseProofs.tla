---------------------------- MODULE UniverseProofs ----------------------------
(***************************************************************************)
(* What BuildUniverse selects, for any lists of instruments and any        *)
(* MaxOptions.  The invariant says what filterOptionsByTSCap's list is     *)
(* while its loop runs (Filling) and when it ends (Chosen), and that the   *)
(* merge of the two lists keeps each of them whole.                        *)
(***************************************************************************)
EXTENDS Universe, FiniteSetTheorems, TLAPS

(***************************************************************************)
(* Lists without repetition.                                               *)
(***************************************************************************)

LEMMA DistinctLength ==
  ASSUME NEW T, NEW s \in Seq(T), IsInjective(s)
  PROVE  IsFiniteSet(ToSet(s)) /\ Cardinality(ToSet(s)) = Len(s)
<1>1. Len(s) \in Nat /\ DOMAIN s = 1 .. Len(s) /\ \A n \in 1 .. Len(s) : s[n] \in ToSet(s)
  BY DEF ToSet
<1>2. s \in [1 .. Len(s) -> ToSet(s)]
  BY <1>1
<1>3. s \in Bijection(1 .. Len(s), ToSet(s))
  <2>1. \A x \in ToSet(s) : \E n \in 1 .. Len(s) : s[n] = x
    BY <1>1 DEF ToSet
  <2> QED BY <1>1, <1>2, <2>1 DEF Bijection, Injection, Surjection, IsInjective
<1>4. ExistsBijection(1 .. Len(s), ToSet(s))
  BY <1>3 DEF ExistsBijection
<1>5. IsFiniteSet(1 .. Len(s)) /\ Cardinality(1 .. Len(s)) = Len(s)
  <2>1. Cardinality(1 .. Len(s)) = IF 1 > Len(s) THEN 0 ELSE Len(s) - 1 + 1
    BY <1>1, FS_Interval
  <2> QED BY <1>1, <2>1, FS_Interval
<1> QED BY <1>4, <1>5, FS_Bijection

LEMMA EmptyList == <<>> \in Seq(Instrument) /\ IsInjective(<<>>) /\ ToSet(<<>>) = {} /\ Len(<<>>) = 0
BY DEF IsInjective, ToSet

LEMMA AppendNew ==
  ASSUME NEW T, NEW s \in Seq(T), IsInjective(s), NEW x \in T, x \notin ToSet(s)
  PROVE  LET u == Append(s, x)
         IN  u \in Seq(T) /\ IsInjective(u) /\ ToSet(u) = ToSet(s) \cup {x}
<1> DEFINE u == Append(s, x)
<1>1. /\ Len(s) \in Nat /\ DOMAIN s = 1 .. Len(s) /\ u \in Seq(T)
      /\ DOMAIN u = 1 .. Len(s) + 1 /\ u[Len(s) + 1] = x
      /\ \A n \in 1 .. Len(s) : u[n] = s[n]
  OBVIOUS
<1> HIDE DEF u
<1>2. \A n \in DOMAIN s : s[n] # x
  BY DEF ToSet
<1>3. IsInjective(u)
  <2> SUFFICES ASSUME NEW m \in DOMAIN u, NEW n \in DOMAIN u, u[m] = u[n] PROVE m = n
    BY DEF IsInjective
  <2>1. CASE m = Len(s) + 1 \/ n = Len(s) + 1
    BY <1>1, <1>2, <2>1
  <2>2. CASE m # Len(s) + 1 /\ n # Len(s) + 1
    BY <1>1, <2>2 DEF IsInjective
  <2> QED BY <2>1, <2>2
<1>4. ASSUME NEW y
      PROVE  y \in ToSet(u) <=> y \in ToSet(s) \cup {x}
  <2>1. y \in ToSet(u) <=> \E n \in 1 .. Len(s) + 1 : y = u[n]
    BY <1>1 DEF ToSet
  <2>2. y \in ToSet(s) <=> \E n \in 1 .. Len(s) : y = s[n]
    BY <1>1 DEF ToSet
  <2> QED BY <1>1, <2>1, <2>2
<1> QED BY <1>1, <1>3, <1>4 DEF u

LEMMA TailOfDistinct ==
  ASSUME NEW T, NEW s \in Seq(T), IsInjective(s), s # <<>>
  PROVE  /\ Tail(s) \in Seq(T) /\ IsInjective(Tail(s)) /\ Head(s) \in T
         /\ ToSet(s) = ToSet(Tail(s)) \cup {Head(s)}
<1> DEFINE t == Tail(s)
<1>1. /\ Len(s) \in Nat /\ Len(s) >= 1 /\ DOMAIN s = 1 .. Len(s) /\ t \in Seq(T)
      /\ DOMAIN t = 1 .. Len(s) - 1 /\ Head(s) = s[1] /\ s[1] \in T
      /\ \A n \in 1 .. Len(s) - 1 : t[n] = s[n + 1]
  OBVIOUS
<1> HIDE DEF t
<1>2. IsInjective(t)
  <2> SUFFICES ASSUME NEW m \in DOMAIN t, NEW n \in DOMAIN t, t[m] = t[n] PROVE m = n
    BY DEF IsInjective
  <2>1. m + 1 \in DOMAIN s /\ n + 1 \in DOMAIN s /\ s[m + 1] = s[n + 1]
    BY <1>1
  <2>2. m + 1 = n + 1
    BY <2>1 DEF IsInjective
  <2> QED BY <1>1, <2>2
<1>3. ASSUME NEW y
      PROVE  y \in ToSet(s) <=> y \in ToSet(t) \cup {Head(s)}
  <2>1. y \in ToSet(s) <=> \E n \in 1 .. Len(s) : y = s[n]
    BY <1>1 DEF ToSet
  <2>2. y \in ToSet(t) <=> \E n \in 1 .. Len(s) - 1 : y = t[n]
    BY <1>1 DEF ToSet
  <2>3. \A n \in 1 .. Len(s) : n = 1 \/ (n - 1 \in 1 .. Len(s) - 1 /\ t[n - 1] = s[n])
    BY <1>1
  <2>4. \A n \in 1 .. Len(s) - 1 : n + 1 \in 1 .. Len(s)
    BY <1>1
  <2> QED BY <1>1, <2>1, <2>2, <2>3, <2>4
<1> QED BY <1>1, <1>2, <1>3 DEF t

LEMMA ContainsIs ==
  ASSUME NEW T, NEW s \in Seq(T), NEW x
  PROVE  Contains(s, x) <=> x \in ToSet(s)
<1>1. DOMAIN s = 1 .. Len(s)
  OBVIOUS
<1> QED BY <1>1 DEF Contains, ToSet

(***************************************************************************)
(* One call of filterOptionsByTSCap.                                       *)
(***************************************************************************)

\* callCap and putCap.
Half == PerCap \div 2

Dist(i, p) == IF i.strike > p THEN i.strike - p ELSE p - i.strike

Kind(T, c) == {i \in T : i.isCall = c}

\* T is among M, at most Half of a kind, and the nearest of their kind.
Nearest(T, M, p) ==
  /\ M \subseteq Instrument /\ T \subseteq M /\ IsFiniteSet(T)
  /\ \A c \in BOOLEAN : Cardinality(Kind(T, c)) <= Half
  /\ \A i \in T : \A j \in M \ T : i.isCall = j.isCall => Dist(i, p) <= Dist(j, p)

\* T are the options taken so far, rest those not looked at.
Filling(T, rest, M, p) ==
  /\ Nearest(T, M, p)
  /\ rest \subseteq M \ T
  /\ \A j \in (M \ T) \ rest : Cardinality(Kind(T, j.isCall)) = Half

\* T are the options taken in the end.
Chosen(T, M, p) ==
  /\ Nearest(T, M, p)
  /\ \A j \in M \ T : Cardinality(Kind(T, j.isCall)) = Half

LEMMA Caps ==
  /\ PerCap \in Nat \ {0} /\ Half \in Nat
  /\ 2 * Half <= PerCap /\ 4 * Half <= MaxOptions
BY UniverseAssumption DEF PerCap, Half

LEMMA KindsFinite ==
  ASSUME NEW T, IsFiniteSet(T), NEW c
  PROVE  IsFiniteSet(Kind(T, c)) /\ Cardinality(Kind(T, c)) \in Nat
<1>1. Kind(T, c) \in SUBSET T
  BY DEF Kind
<1> QED BY <1>1, FS_Subset, FS_CardinalityType

\* The two kinds.
Kinds(c, d) == c \in BOOLEAN /\ d \in BOOLEAN /\ c # d

LEMMA KindsAdd ==
  ASSUME NEW T \in SUBSET Instrument, IsFiniteSet(T), NEW c, NEW d, Kinds(c, d)
  PROVE  Cardinality(T) = Cardinality(Kind(T, c)) + Cardinality(Kind(T, d))
<1> DEFINE a == Kind(T, c)
           b == Kind(T, d)
<1>1. \A i \in T : i.isCall \in BOOLEAN
  BY DEF Instrument
<1>2. T = a \cup b /\ a \cap b = {}
  BY <1>1 DEF Kind, Kinds
<1>3. IsFiniteSet(a) /\ IsFiniteSet(b) /\ Cardinality(a) \in Nat /\ Cardinality(b) \in Nat
  BY KindsFinite
<1>4. Cardinality(a \cap b) = 0
  BY <1>2, FS_EmptySet
<1> HIDE DEF a, b
<1>5. Cardinality(T) = Cardinality(a) + Cardinality(b) - Cardinality(a \cap b)
  BY <1>2, <1>3, FS_Union
<1>6. Cardinality(T) = Cardinality(a) + Cardinality(b)
  BY <1>3, <1>4, <1>5
<1> QED BY <1>6 DEF a, b

\* A list holds at most Half of each kind.
LEMMA NearestSize ==
  ASSUME NEW T, NEW M, NEW p, Nearest(T, M, p)
  PROVE  Cardinality(T) \in Nat /\ Cardinality(T) <= 2 * Half
<1>1. T \in SUBSET Instrument /\ IsFiniteSet(T)
  BY DEF Nearest
<1>2. PICK c, d : Kinds(c, d)
  BY DEF Kinds
<1>3. /\ Cardinality(Kind(T, c)) \in Nat /\ Cardinality(Kind(T, d)) \in Nat
      /\ Cardinality(Kind(T, c)) <= Half /\ Cardinality(Kind(T, d)) <= Half
  BY <1>1, <1>2, KindsFinite DEF Nearest, Kinds
<1>4. Cardinality(T) = Cardinality(Kind(T, c)) + Cardinality(Kind(T, d))
  BY <1>1, <1>2, KindsAdd
<1> QED BY <1>3, <1>4, Caps

\* The loop ends with nothing left, or with both kinds full.
LEMMA FillingEnds ==
  ASSUME NEW T, NEW rest, NEW M, NEW p, Filling(T, rest, M, p),
         rest = {} \/ Cardinality(T) >= PerCap
  PROVE  Chosen(T, M, p)
<1>1. CASE rest = {}
  BY <1>1 DEF Filling, Chosen
<1>2. CASE Cardinality(T) >= PerCap
  <2>1. T \in SUBSET Instrument /\ IsFiniteSet(T) /\ Nearest(T, M, p)
    BY DEF Filling, Nearest
  <2>2. ASSUME NEW j \in M \ T
        PROVE  Cardinality(Kind(T, j.isCall)) = Half
    <3>1. j.isCall \in BOOLEAN
      BY <2>1 DEF Nearest, Instrument
    <3>2. PICK d : Kinds(j.isCall, d)
      BY <3>1 DEF Kinds
    <3>3. Cardinality(T) = Cardinality(Kind(T, j.isCall)) + Cardinality(Kind(T, d))
      BY <2>1, <3>2, KindsAdd
    <3>4. /\ Cardinality(Kind(T, j.isCall)) \in Nat /\ Cardinality(Kind(T, d)) \in Nat
          /\ Cardinality(Kind(T, j.isCall)) <= Half /\ Cardinality(Kind(T, d)) <= Half
      BY <2>1, <3>2, KindsFinite DEF Nearest, Kinds
    <3> QED BY <1>2, <3>3, <3>4, Caps
  <2> QED BY <2>1, <2>2 DEF Chosen
<1> QED BY <1>1, <1>2

LEMMA FillingBegins ==
  ASSUME NEW M \in SUBSET Instrument, NEW p
  PROVE  Filling({}, M, M, p)
<1>1. \A c : Kind({}, c) = {}
  BY DEF Kind
<1> QED BY <1>1, FS_EmptySet, Caps DEF Filling, Nearest

\* The next option is passed over: its kind is full.
LEMMA FillingPasses ==
  ASSUME NEW T, NEW rest, NEW M, NEW p, NEW i \in rest, Filling(T, rest, M, p),
         ~(Cardinality(Kind(T, i.isCall)) < Half)
  PROVE  Filling(T, rest \ {i}, M, p)
<1>1. i \in Instrument /\ IsFiniteSet(T)
  BY DEF Filling, Nearest
<1>2. i.isCall \in BOOLEAN
  BY <1>1 DEF Instrument
<1>3. Cardinality(Kind(T, i.isCall)) <= Half /\ Cardinality(Kind(T, i.isCall)) \in Nat
  BY <1>1, <1>2, KindsFinite DEF Filling, Nearest
<1>4. Cardinality(Kind(T, i.isCall)) = Half
  BY <1>3, Caps
<1> QED BY <1>4 DEF Filling

\* The next option is taken: it is nearer than those still to come, and none
\* of its kind was passed over.
LEMMA FillingTakes ==
  ASSUME NEW T, NEW rest, NEW M, NEW p, NEW i \in rest, Filling(T, rest, M, p),
         \A j \in rest : Dist(i, p) <= Dist(j, p),
         Cardinality(Kind(T, i.isCall)) < Half
  PROVE  Filling(T \cup {i}, rest \ {i}, M, p)
<1> DEFINE U == T \cup {i}
<1>1. /\ i \in Instrument /\ i \in M /\ i \notin T /\ IsFiniteSet(T)
      /\ Nearest(T, M, p) /\ rest \subseteq M \ T
      /\ \A j \in (M \ T) \ rest : Cardinality(Kind(T, j.isCall)) = Half
  BY DEF Filling, Nearest
<1>2. Kind(U, i.isCall) = Kind(T, i.isCall) \cup {i} /\ i \notin Kind(T, i.isCall)
  BY <1>1 DEF Kind
<1>3. \A c : c # i.isCall => Kind(U, c) = Kind(T, c)
  BY DEF Kind
<1>4. IsFiniteSet(U)
  BY <1>1, FS_AddElement
<1>5. Cardinality(Kind(T, i.isCall)) \in Nat /\ IsFiniteSet(Kind(T, i.isCall))
  BY <1>1, KindsFinite
<1>6. Cardinality(Kind(U, i.isCall)) <= Half
  <2>1. Cardinality(Kind(U, i.isCall)) = Cardinality(Kind(T, i.isCall)) + 1
    BY <1>2, <1>5, FS_AddElement
  <2> QED BY <1>5, <2>1, Caps
<1>7. \A j \in (M \ T) \ rest : j.isCall # i.isCall
  BY <1>1, <1>5, Caps
<1> HIDE DEF U
<1>8. \A c \in BOOLEAN : Cardinality(Kind(U, c)) <= Half
  BY <1>1, <1>3, <1>6 DEF Nearest
<1>9. ASSUME NEW a \in U, NEW j \in M \ U, a.isCall = j.isCall
      PROVE  Dist(a, p) <= Dist(j, p)
  BY <1>1, <1>7, <1>9 DEF Nearest, U
<1>10. \A j \in (M \ U) \ (rest \ {i}) : Cardinality(Kind(U, j.isCall)) = Half
  <2>1. \A j \in (M \ U) \ (rest \ {i}) : j \in (M \ T) \ rest
    BY DEF U
  <2> QED BY <1>1, <1>3, <1>7, <2>1
<1>11. U \subseteq M /\ rest \ {i} \subseteq M \ U
  <2>1. U \subseteq M
    BY <1>1 DEF U, Nearest
  <2> QED BY <1>1, <2>1 DEF U
<1>12. Nearest(U, M, p)
  BY <1>1, <1>4, <1>8, <1>9, <1>11 DEF Nearest
<1> QED BY <1>10, <1>11, <1>12 DEF Filling, U

(***************************************************************************)
(* BuildUniverse.                                                          *)
(***************************************************************************)

AtExpiry(T, e) == {i \in T : i.exp = e}

\* Both lists are whole among the options of T.
BothIn(T) ==
  /\ T \subseteq Matching(near) \cup Matching(far)
  /\ Chosen(AtExpiry(T, near), Matching(near), price)
  /\ Chosen(AtExpiry(T, far), Matching(far), price)

Typed ==
  /\ price \in Nat
  /\ \E chain \in Chains \cup {{}} : listed \subseteq {i \in chain : i.active}
  /\ symbols \in Seq(Instrument) /\ IsInjective(symbols)
  /\ balanced \in Seq(Instrument) /\ IsInjective(balanced)
  /\ pc \in {"price", "instruments", "expiries", "near", "far", "merge", "done", "fatal"}
  /\ pc \in {"price", "instruments", "expiries", "near", "fatal"} => symbols = <<>>
  /\ pc \in {"price", "instruments", "expiries"} => balanced = <<>>

NearInv == Filling(ToSet(balanced), left, Matching(near), price)

FarInv ==
  /\ Chosen(ToSet(symbols), Matching(near), price)
  /\ Filling(ToSet(balanced), left, Matching(far), price)
  /\ near = far => /\ ToSet(balanced) = ToSet(symbols)
                   /\ left = {} \/ Len(balanced) >= PerCap

\* An option waiting to be merged is of the far expiry, and seen before if
\* that is the near one.
MergeInv ==
  /\ BothIn(ToSet(symbols) \cup ToSet(balanced))
  /\ \A i \in ToSet(balanced) : i.exp = far /\ (near = far => i \in ToSet(symbols))

UniverseInv ==
  /\ Typed
  /\ pc = "near" => NearInv
  /\ pc = "far" => FarInv
  /\ pc = "merge" => MergeInv
  /\ pc = "done" => BothIn(ToSet(symbols))

LEMMA MatchingIs ==
  ASSUME Typed, NEW e
  PROVE  Matching(e) \subseteq Instrument /\ \A i \in Matching(e) : i.exp = e
BY UniverseAssumption DEF Typed, Matching

LEMMA ListedKept ==
  ASSUME UNCHANGED <<price, listed, near, far>>
  PROVE  Matching(near)' = Matching(near) /\ Matching(far)' = Matching(far)
BY DEF Matching, Distance

LEMMA DistanceIs ==
  ASSUME NEW i
  PROVE  Distance(i) = Dist(i, price)
BY DEF Distance, Dist

LEMMA FilterStep ==
  ASSUME Typed, NEW M, Filling(ToSet(balanced), left, M, price),
         NEW i \in left, FilterOption(i)
  PROVE  /\ Filling(ToSet(balanced'), left', M, price)
         /\ balanced' \in Seq(Instrument) /\ IsInjective(balanced')
<1> DEFINE B == ToSet(balanced)
<1>1. balanced \in Seq(Instrument) /\ IsInjective(balanced)
  BY DEF Typed
<1>2. /\ i \in Instrument /\ i \notin B
  BY DEF Filling, Nearest
<1>3. \A j \in left : Dist(i, price) <= Dist(j, price)
  BY DistanceIs DEF FilterOption, NextBest
<1>4. left' = left \ {i}
      /\ balanced' = IF Cardinality(Kind(B, i.isCall)) < Half
                     THEN Append(balanced, i) ELSE balanced
  BY DEF FilterOption, Taken, Kind, Half
<1>5. CASE Cardinality(Kind(B, i.isCall)) < Half
  <2>1. balanced' = Append(balanced, i)
    BY <1>4, <1>5
  <2>2. balanced' \in Seq(Instrument) /\ IsInjective(balanced') /\ ToSet(balanced') = B \cup {i}
    BY <1>1, <1>2, <2>1, AppendNew
  <2>3. Filling(B \cup {i}, left \ {i}, M, price)
    BY <1>3, <1>5, FillingTakes
  <2> QED BY <1>4, <2>2, <2>3
<1>6. CASE ~(Cardinality(Kind(B, i.isCall)) < Half)
  <2>1. balanced' = balanced
    BY <1>4, <1>6
  <2>2. Filling(B, left \ {i}, M, price)
    BY <1>6, FillingPasses
  <2> QED BY <1>1, <1>4, <2>1, <2>2
<1> QED BY <1>5, <1>6

LEMMA FilterKeeps ==
  ASSUME UniverseInv, NEW i \in left, FilterOption(i)
  PROVE  UniverseInv'
<1>1. /\ UNCHANGED <<pc, price, listed, near, far, symbols>>
      /\ pc \in {"near", "far"} /\ Len(balanced) < PerCap
  BY DEF FilterOption
<1>2. Typed
  BY DEF UniverseInv
<1>3. Matching(near)' = Matching(near) /\ Matching(far)' = Matching(far)
  BY <1>1, ListedKept
<1>4. CASE pc = "near"
  <2>1. /\ Filling(ToSet(balanced'), left', Matching(near), price)
        /\ balanced' \in Seq(Instrument) /\ IsInjective(balanced')
    BY <1>2, <1>4, FilterStep DEF UniverseInv, NearInv
  <2>2. NearInv'
    BY <1>1, <1>3, <2>1 DEF NearInv
  <2>3. Typed'
    BY <1>1, <1>2, <1>4, <2>1 DEF Typed
  <2> QED BY <1>1, <1>4, <2>2, <2>3 DEF UniverseInv
<1>5. CASE pc = "far"
  <2>0. FarInv
    BY <1>5 DEF UniverseInv
  <2>1. near # far
    BY <1>1, <1>2, <2>0, Caps DEF FarInv, Typed
  <2>2. /\ Filling(ToSet(balanced'), left', Matching(far), price)
        /\ balanced' \in Seq(Instrument) /\ IsInjective(balanced')
    BY <1>2, <2>0, FilterStep DEF FarInv
  <2>3. FarInv'
    BY <1>1, <1>3, <2>0, <2>1, <2>2 DEF FarInv
  <2>4. Typed'
    BY <1>1, <1>2, <1>5, <2>2 DEF Typed
  <2> QED BY <1>1, <1>5, <2>3, <2>4 DEF UniverseInv
<1> QED BY <1>1, <1>4, <1>5

\* When the loop has ended the list is as filterOptionsByTSCap returns it.
LEMMA FilteredChosen ==
  ASSUME Typed, NEW M, Filling(ToSet(balanced), left, M, price), Filtered
  PROVE  Chosen(ToSet(balanced), M, price)
<1>1. Cardinality(ToSet(balanced)) = Len(balanced)
  BY DistinctLength DEF Typed
<1> QED BY <1>1, FillingEnds DEF Filtered

LEMMA NearDoneKeeps ==
  ASSUME UniverseInv, NearDone
  PROVE  UniverseInv'
<1>1. /\ pc = "near" /\ pc' = "far" /\ Filtered /\ symbols' = balanced
      /\ UNCHANGED <<price, listed, near, far>>
      /\ far = near => UNCHANGED <<left, balanced>>
      /\ far # near => left' = Matching(far) /\ balanced' = <<>>
  BY DEF NearDone
<1>2. Typed /\ NearInv
  BY <1>1 DEF UniverseInv
<1>3. Matching(near)' = Matching(near) /\ Matching(far)' = Matching(far)
  BY <1>1, ListedKept
<1>4. Typed'
  BY <1>1, <1>2, EmptyList DEF Typed
<1>5. Chosen(ToSet(balanced), Matching(near), price)
  BY <1>1, <1>2, FilteredChosen DEF NearInv
<1>6. FarInv'
  <2>1. CASE far = near
    BY <1>1, <1>2, <1>3, <1>5, <2>1 DEF FarInv, NearInv, Filtered
  <2>2. CASE far # near
    <3>1. Filling({}, Matching(far), Matching(far), price)
      BY <1>2, MatchingIs, FillingBegins
    <3>2. ToSet(balanced') = {} /\ left' = Matching(far)
      BY <1>1, <2>2, EmptyList
    <3>3. near' # far'
      BY <1>1, <2>2
    <3> QED BY <1>1, <1>3, <1>5, <3>1, <3>2, <3>3 DEF FarInv
  <2> QED BY <2>1, <2>2
<1> QED BY <1>1, <1>4, <1>6 DEF UniverseInv

LEMMA FarDoneKeeps ==
  ASSUME UniverseInv, FarDone
  PROVE  UniverseInv'
<1> DEFINE B == ToSet(balanced)
           S == ToSet(symbols)
<1>1. /\ pc = "far" /\ pc' = "merge" /\ Filtered
      /\ UNCHANGED <<price, listed, near, far, left, balanced, symbols>>
  BY DEF FarDone
<1>2. Typed /\ FarInv
  BY <1>1 DEF UniverseInv
<1>3. Matching(near)' = Matching(near) /\ Matching(far)' = Matching(far)
  BY <1>1, ListedKept
<1>4. Typed'
  BY <1>1, <1>2 DEF Typed
<1>5. Chosen(B, Matching(far), price) /\ Chosen(S, Matching(near), price)
  BY <1>1, <1>2, FilteredChosen DEF FarInv
<1>6. B \subseteq Matching(far) /\ S \subseteq Matching(near)
  BY <1>5 DEF Chosen, Nearest
<1>7. (\A i \in B : i.exp = far) /\ (\A i \in S : i.exp = near)
  BY <1>2, <1>6, MatchingIs
<1>8. near = far => B = S
  BY <1>2 DEF FarInv
<1> HIDE DEF B, S
<1>9. AtExpiry(S \cup B, near) = S /\ AtExpiry(S \cup B, far) = B
  BY <1>7, <1>8 DEF AtExpiry
<1>10. BothIn(S \cup B)
  BY <1>5, <1>6, <1>9 DEF BothIn
<1>11. MergeInv
  BY <1>7, <1>8, <1>10 DEF MergeInv, B, S
<1>12. MergeInv'
  BY <1>1, <1>3, <1>11 DEF MergeInv, BothIn
<1> QED BY <1>1, <1>4, <1>12 DEF UniverseInv

LEMMA MergeKeeps ==
  ASSUME UniverseInv, Merge
  PROVE  UniverseInv'
<1> DEFINE h == Head(balanced)
           B == ToSet(balanced)
           S == ToSet(symbols)
<1>1. /\ pc = "merge" /\ balanced # <<>> /\ balanced' = Tail(balanced)
      /\ symbols' = IF Contains(symbols, h) THEN symbols ELSE Append(symbols, h)
      /\ UNCHANGED <<pc, price, listed, near, far, left>>
  BY DEF Merge
<1>2. Typed /\ MergeInv
  BY <1>1 DEF UniverseInv
<1>3. /\ symbols \in Seq(Instrument) /\ IsInjective(symbols)
      /\ balanced \in Seq(Instrument) /\ IsInjective(balanced)
  BY <1>2 DEF Typed
<1>4. Matching(near)' = Matching(near) /\ Matching(far)' = Matching(far)
  BY <1>1, ListedKept
<1>5. /\ balanced' \in Seq(Instrument) /\ IsInjective(balanced') /\ h \in Instrument
      /\ B = ToSet(balanced') \cup {h}
  BY <1>1, <1>3, TailOfDistinct
<1>6. Contains(symbols, h) <=> h \in S
  BY <1>3, ContainsIs
<1> HIDE DEF h
<1>7. /\ symbols' \in Seq(Instrument) /\ IsInjective(symbols')
      /\ ToSet(symbols') = S \cup {h}
  <2>1. CASE h \in S
    BY <1>1, <1>3, <1>6, <2>1
  <2>2. CASE h \notin S
    <3>1. symbols' = Append(symbols, h)
      BY <1>1, <1>6, <2>2
    <3> QED BY <1>3, <1>5, <2>2, <3>1, AppendNew
  <2> QED BY <2>1, <2>2
<1>8. Typed'
  BY <1>1, <1>2, <1>5, <1>7 DEF Typed
<1>9. ToSet(symbols') \cup ToSet(balanced') = S \cup B
  BY <1>5, <1>7
<1>10. BothIn(S \cup B)
  BY <1>2 DEF MergeInv
<1>11. BothIn(ToSet(symbols) \cup ToSet(balanced))'
  <2>1. (ToSet(symbols) \cup ToSet(balanced))' = S \cup B
    BY <1>9
  <2> HIDE DEF S, B
  <2> QED BY <1>1, <1>4, <1>10, <2>1 DEF BothIn
<1>12. \A i \in ToSet(balanced') : i.exp = far /\ (near = far => i \in ToSet(symbols'))
  BY <1>2, <1>5, <1>7 DEF MergeInv
<1>13. MergeInv'
  BY <1>1, <1>11, <1>12 DEF MergeInv
<1> QED BY <1>1, <1>8, <1>13 DEF UniverseInv

LEMMA ReturnKeeps ==
  ASSUME UniverseInv, Return
  PROVE  UniverseInv'
<1>1. /\ pc = "merge" /\ balanced = <<>>
      /\ pc' = IF symbols = <<>> THEN "fatal" ELSE "done"
      /\ UNCHANGED <<price, listed, near, far, left, balanced, symbols>>
  BY DEF Return
<1>2. Typed /\ MergeInv
  BY <1>1 DEF UniverseInv
<1>3. Matching(near)' = Matching(near) /\ Matching(far)' = Matching(far)
  BY <1>1, ListedKept
<1>4. Typed'
  BY <1>1, <1>2 DEF Typed
<1>5. ToSet(symbols) \cup ToSet(balanced) = ToSet(symbols)
  BY <1>1, EmptyList
<1>6. BothIn(ToSet(symbols))
  BY <1>2, <1>5 DEF MergeInv
<1>7. BothIn(ToSet(symbols))'
  BY <1>1, <1>3, <1>6 DEF BothIn
<1> QED BY <1>1, <1>4, <1>7 DEF UniverseInv

LEMMA UniverseInvInit == Init => UniverseInv
<1> SUFFICES ASSUME Init PROVE UniverseInv
  OBVIOUS
<1> QED BY EmptyList DEF Init, UniverseInv, Typed, IsInjective

LEMMA UniverseInvStep == UniverseInv /\ [Next]_vars => UniverseInv'
<1> SUFFICES ASSUME UniverseInv, [Next]_vars PROVE UniverseInv'
  OBVIOUS
<1>0. Typed
  BY DEF UniverseInv
<1>1. CASE UNCHANGED vars
  <2>1. UNCHANGED <<price, listed, near, far, pc, left, balanced, symbols>>
    BY <1>1 DEF vars
  <2>2. Matching(near)' = Matching(near) /\ Matching(far)' = Matching(far)
    BY <2>1, ListedKept
  <2>3. Typed'
    BY <1>0, <2>1 DEF Typed
  <2>4. (NearInv => NearInv') /\ (FarInv => FarInv')
    BY <2>1, <2>2 DEF NearInv, FarInv
  <2>5. (MergeInv => MergeInv') /\ (BothIn(ToSet(symbols)) => BothIn(ToSet(symbols))')
    BY <2>1, <2>2 DEF MergeInv, BothIn
  <2> QED BY <2>1, <2>3, <2>4, <2>5 DEF UniverseInv
<1>2. CASE FetchBTCPrice
  <2>1. price' \in Nat
    BY <1>2, UniverseAssumption DEF FetchBTCPrice
  <2>2. /\ pc = "price" /\ pc' = "instruments"
        /\ UNCHANGED <<listed, near, far, left, balanced, symbols>>
    BY <1>2 DEF FetchBTCPrice
  <2>3. Typed'
    BY <1>0, <2>1, <2>2 DEF Typed
  <2> QED BY <2>2, <2>3 DEF UniverseInv
<1>3. CASE FetchInstruments
  <2>1. /\ pc = "instruments" /\ pc' \in {"expiries", "fatal"}
        /\ \E chain \in Chains \cup {{}} : listed' \subseteq {i \in chain : i.active}
        /\ UNCHANGED <<price, near, far, left, balanced, symbols>>
    BY <1>3 DEF FetchInstruments
  <2>2. Typed'
    BY <1>0, <2>1 DEF Typed
  <2> QED BY <2>1, <2>2 DEF UniverseInv
<1>4. CASE FindNearAndFarWithinDays
  <2>1. /\ pc = "expiries" /\ UNCHANGED <<price, listed, balanced, symbols>>
        /\ \/ pc' = "fatal"
           \/ pc' = "near" /\ near' = Min(Window) /\ left' = Matching(Min(Window))
    BY <1>4 DEF FindNearAndFarWithinDays
  <2>2. Typed'
    BY <1>0, <2>1 DEF Typed
  <2>3. CASE pc' = "fatal"
    BY <2>2, <2>3 DEF UniverseInv
  <2>4. CASE pc' = "near" /\ near' = Min(Window) /\ left' = Matching(Min(Window))
    <3>1. ToSet(balanced') = {}
      BY <1>0, <2>1, EmptyList DEF Typed
    <3>2. Filling({}, Matching(Min(Window)), Matching(Min(Window)), price)
      BY <1>0, MatchingIs, FillingBegins
    <3>3. Matching(near)' = Matching(Min(Window))
      BY <2>1, <2>4 DEF Matching, Distance
    <3>4. NearInv'
      BY <2>1, <2>4, <3>1, <3>2, <3>3 DEF NearInv
    <3> QED BY <2>2, <2>4, <3>4 DEF UniverseInv
  <2> QED BY <2>1, <2>3, <2>4
<1> QED BY <1>1, <1>2, <1>3, <1>4, FilterKeeps, NearDoneKeeps, FarDoneKeeps,
           MergeKeeps, ReturnKeeps DEF Next

LEMMA UniverseHolds == Spec => []UniverseInv
BY UniverseInvInit, UniverseInvStep, PTL DEF Spec

(***************************************************************************)
(* The list.                                                               *)
(***************************************************************************)

\* Both lists together are no longer than MaxOptions.
LEMMA BothFit ==
  ASSUME NEW T, BothIn(T)
  PROVE  IsFiniteSet(T) /\ Cardinality(T) <= MaxOptions
<1> DEFINE a == AtExpiry(T, near)
           b == AtExpiry(T, far)
<1>1. Nearest(a, Matching(near), price) /\ Nearest(b, Matching(far), price)
  BY DEF BothIn, Chosen
<1>2. \A i \in T : i.exp = near \/ i.exp = far
  BY DEF BothIn, Matching
<1>3. T = a \cup b
  BY <1>2 DEF AtExpiry
<1>4. IsFiniteSet(a) /\ IsFiniteSet(b)
  BY <1>1 DEF Nearest
<1>5. /\ Cardinality(a) \in Nat /\ Cardinality(a) <= 2 * Half
      /\ Cardinality(b) \in Nat /\ Cardinality(b) <= 2 * Half
  BY <1>1, NearestSize
<1> HIDE DEF a, b
<1>6. IsFiniteSet(T) /\ Cardinality(T) = Cardinality(a) + Cardinality(b) - Cardinality(a \cap b)
  BY <1>3, <1>4, FS_Union
<1>7. Cardinality(a \cap b) \in Nat
  BY <1>4, FS_Intersection, FS_CardinalityType
<1>8. MaxOptions \in Nat
  BY UniverseAssumption
<1> QED BY <1>5, <1>6, <1>7, <1>8, Caps

\* No symbol twice and none too many: the tables and the FIX client's index
\* by symbol are built from a list that fits them.
THEOREM SymbolsDistinct == Spec => []DistinctSymbols
<1>1. ASSUME UniverseInv
      PROVE  DistinctSymbols
  <2>1. Typed
    BY <1>1 DEF UniverseInv
  <2>2. IsFiniteSet(ToSet(symbols)) /\ Cardinality(ToSet(symbols)) = Len(symbols)
        /\ Len(symbols) \in Nat
    BY <2>1, DistinctLength DEF Typed
  <2>3. Len(symbols) <= MaxOptions
    <3>1. CASE symbols = <<>>
      BY <3>1, EmptyList, UniverseAssumption
    <3>2. CASE pc = "far"
      <4>1. Cardinality(ToSet(symbols)) <= 2 * Half
        BY <1>1, <3>2, NearestSize DEF UniverseInv, FarInv, Chosen
      <4> QED BY <2>2, <4>1, Caps, UniverseAssumption
    <3>3. CASE pc = "merge"
      <4> DEFINE U == ToSet(symbols) \cup ToSet(balanced)
      <4>1. IsFiniteSet(U) /\ Cardinality(U) <= MaxOptions
        BY <1>1, <3>3, BothFit DEF UniverseInv, MergeInv
      <4>2. ToSet(symbols) \in SUBSET U
        OBVIOUS
      <4> HIDE DEF U
      <4>3. Cardinality(ToSet(symbols)) <= Cardinality(U) /\ Cardinality(U) \in Nat
        BY <4>1, <4>2, FS_Subset, FS_CardinalityType
      <4> QED BY <2>2, <4>1, <4>3, UniverseAssumption
    <3>4. CASE pc = "done"
      <4>1. Cardinality(ToSet(symbols)) <= MaxOptions
        BY <1>1, <3>4, BothFit DEF UniverseInv
      <4> QED BY <2>2, <4>1
    <3> QED BY <2>1, <3>1, <3>2, <3>3, <3>4 DEF Typed
  <2> QED BY <2>2, <2>3 DEF DistinctSymbols
<1> QED BY UniverseHolds, <1>1, PTL

\* Of each kind the nearest are selected, and as many as half the cap allows
\* if there are that many.
THEOREM NearestSelected == Spec => []NearestOfEachKind
<1>1. ASSUME UniverseInv
      PROVE  NearestOfEachKind
  <2>1. SUFFICES ASSUME pc = "done", NEW e \in {near, far}, NEW c \in BOOLEAN,
                        Passed(e, c) # {}
        PROVE  /\ Cardinality(Selected(e, c)) = PerCap \div 2
               /\ \A i \in Selected(e, c) : \A j \in Passed(e, c) :
                    Distance(i) <= Distance(j)
    BY DEF NearestOfEachKind
  <2> DEFINE T == AtExpiry(ToSet(symbols), e)
             M == Matching(e)
  <2>2. Chosen(T, M, price)
    BY <1>1, <2>1 DEF UniverseInv, BothIn
  <2>3. Selected(e, c) = Kind(T, c)
    BY DEF Selected, Kind, AtExpiry
  <2>4. \A j \in Passed(e, c) : j \in M \ T /\ j.isCall = c
    BY DEF Passed, AtExpiry
  <2>5. \A i \in Kind(T, c) : i \in T /\ i.isCall = c
    BY DEF Kind
  <2> HIDE DEF T, M
  <2>6. Cardinality(Kind(T, c)) = Half
    <3>1. PICK j \in Passed(e, c) : TRUE
      BY <2>1
    <3> QED BY <2>2, <2>4, <3>1 DEF Chosen
  <2>7. ASSUME NEW i \in Selected(e, c), NEW j \in Passed(e, c)
        PROVE  Distance(i) <= Distance(j)
    <3>1. Dist(i, price) <= Dist(j, price)
      BY <2>2, <2>3, <2>4, <2>5 DEF Chosen, Nearest
    <3> QED BY <3>1, DistanceIs
  <2> QED BY <2>3, <2>6, <2>7 DEF Half
<1> QED BY UniverseHolds, <1>1, PTL

(***************************************************************************)
(* Calls without their puts, and puts without their calls.                 *)
(***************************************************************************)

\* The put of a call and the call of a put.
Other(i) == [i EXCEPT !.isCall = ~@]

Lonely(T, c) == {i \in Kind(T, c) : Other(i) \notin T}

\* Every option of M has its counterpart there; strike and kind tell them apart.
Paired(M) ==
  /\ \A i \in M : Other(i) \in M
  /\ \A i, j \in M : i.strike = j.strike /\ i.isCall = j.isCall => i = j

LEMMA OtherIs ==
  ASSUME NEW i \in Instrument
  PROVE  /\ Other(i) \in Instrument /\ Other(Other(i)) = i
         /\ Other(i).strike = i.strike /\ Other(i).exp = i.exp
         /\ Other(i).parts = i.parts /\ Other(i).active = i.active
         /\ \A c, d : Kinds(c, d) /\ i.isCall = c => Other(i).isCall = d
         /\ \A p : Dist(Other(i), p) = Dist(i, p)
<1>1. PICK b \in BOOLEAN, e \in BOOLEAN : i.isCall = b /\ e = ~b
  BY DEF Instrument
<1>2. Other(i) = [i EXCEPT !.isCall = e]
  BY <1>1 DEF Other
<1>3. Other(i) \in Instrument
  BY <1>2 DEF Instrument
<1>4. Other(Other(i)) = i
  <2>1. Other(i).isCall = e /\ b = ~e
    BY <1>1, <1>2 DEF Instrument
  <2>2. Other(Other(i)) = [Other(i) EXCEPT !.isCall = b]
    BY <2>1 DEF Other
  <2> QED BY <1>1, <1>2, <2>2 DEF Instrument
<1>5. /\ Other(i).strike = i.strike /\ Other(i).exp = i.exp
      /\ Other(i).parts = i.parts /\ Other(i).active = i.active
      /\ i.isCall = b /\ Other(i).isCall = ~b
  BY <1>1, <1>2 DEF Instrument
<1>6. \A c, d : Kinds(c, d) /\ i.isCall = c => Other(i).isCall = d
  BY <1>1, <1>5 DEF Kinds
<1>7. \A p : Dist(Other(i), p) = Dist(i, p)
  BY <1>5 DEF Dist
<1> QED BY <1>3, <1>4, <1>5, <1>6, <1>7

\* If a call lacks its put, the puts are full; as there are no more calls, one
\* of the puts lacks its call.
LEMMA LonelyMet ==
  ASSUME NEW T, NEW M, NEW p, Chosen(T, M, p), Paired(M), NEW c, NEW d, Kinds(c, d),
         NEW i \in Lonely(T, c)
  PROVE  \E q : q \in Lonely(T, d)
<1>1. T \subseteq M /\ M \subseteq Instrument /\ IsFiniteSet(T)
  BY DEF Chosen, Nearest
<1>2. i \in T /\ i.isCall = c /\ i \in Instrument /\ Other(i) \notin T /\ i \in Kind(T, c)
  BY <1>1 DEF Lonely, Kind
<1>3. Other(i) \in M \ T /\ Other(i).isCall = d
  BY <1>1, <1>2, OtherIs DEF Paired
<1>4. Cardinality(Kind(T, d)) = Half
  BY <1>3 DEF Chosen
<1>5. Cardinality(Kind(T, c)) <= Half
  BY DEF Kinds, Chosen, Nearest
<1> DEFINE A == Kind(T, d)
           B == Kind(T, c) \ {i}
           f == [j \in A |-> Other(j)]
<1>6. IsFiniteSet(B) /\ Cardinality(B) = Cardinality(Kind(T, c)) - 1
  BY <1>1, <1>2, KindsFinite, FS_RemoveElement
<1>7. IsFiniteSet(A) /\ Cardinality(Kind(T, c)) \in Nat
  BY <1>1, KindsFinite
<1>8. SUFFICES ASSUME \A q : q \notin Lonely(T, d) PROVE FALSE
  OBVIOUS
<1>9. Kinds(d, c)
  BY DEF Kinds
<1>10. \A j \in A : j \in Instrument /\ j.isCall = d /\ Other(j) \in T
  BY <1>1, <1>8 DEF Kind, Lonely
<1>11. \A j \in A : Other(Other(j)) = j /\ Other(j).isCall = c
  BY <1>9, <1>10, OtherIs
<1>12. \A j \in A : Other(j) \in B
  <2> TAKE j \in A
  <2>1. Other(j) \in Kind(T, c)
    BY <1>10, <1>11 DEF Kind
  <2>2. Other(j) # i
    BY <1>2, <1>11 DEF Kind
  <2> QED BY <2>1, <2>2
<1>13. f \in Injection(A, B)
  BY <1>11, <1>12 DEF Injection, IsInjective
<1> HIDE DEF A, B, f
<1>14. Cardinality(A) <= Cardinality(B)
  BY <1>6, <1>13, FS_Injection DEF ExistsInjection
<1> QED BY <1>4, <1>5, <1>6, <1>7, <1>14, Caps DEF A, B

\* The two are equally far and farthest of their kinds, at different strikes.
LEMMA LonelyApart ==
  ASSUME NEW T, NEW M, NEW p \in Nat, Chosen(T, M, p), Paired(M),
         NEW c, NEW d, Kinds(c, d), NEW i \in Lonely(T, c), NEW q \in Lonely(T, d)
  PROVE  /\ i.strike # q.strike /\ Dist(i, p) = Dist(q, p)
         /\ \A j \in Kind(T, c) : Dist(j, p) <= Dist(i, p)
<1>1. T \subseteq M /\ M \subseteq Instrument
  BY DEF Chosen, Nearest
<1>2. /\ i \in T /\ i.isCall = c /\ i \in Instrument /\ Other(i) \notin T
      /\ q \in T /\ q.isCall = d /\ q \in Instrument /\ Other(q) \notin T
  BY <1>1 DEF Lonely, Kind
<1>3. Kinds(d, c)
  BY DEF Kinds
<1>4. /\ Other(i) \in M \ T /\ Other(i).isCall = d /\ Dist(Other(i), p) = Dist(i, p)
      /\ Other(q) \in M \ T /\ Other(q).isCall = c /\ Dist(Other(q), p) = Dist(q, p)
      /\ Other(q).strike = q.strike
  BY <1>1, <1>2, <1>3, OtherIs DEF Paired
<1>5. i.strike # q.strike
  BY <1>1, <1>2, <1>4 DEF Paired
<1>6. \A j \in Instrument : Dist(j, p) \in Int
  BY DEF Dist, Instrument, NotANumber
<1>7. \A j \in Kind(T, c) : Dist(j, p) <= Dist(q, p)
  BY <1>4 DEF Chosen, Nearest, Kind
<1>8. Dist(q, p) <= Dist(i, p)
  BY <1>2, <1>4 DEF Chosen, Nearest
<1>9. Dist(i, p) <= Dist(q, p)
  BY <1>2, <1>4 DEF Chosen, Nearest
<1>10. Dist(i, p) = Dist(q, p)
  BY <1>2, <1>6, <1>8, <1>9
<1> QED BY <1>5, <1>7, <1>10

\* There are but two strikes as far as that.
LEMMA LonelyOne ==
  ASSUME NEW T, NEW M, NEW p \in Nat, Chosen(T, M, p), Paired(M),
         NEW c, NEW d, Kinds(c, d)
  PROVE  Cardinality(Lonely(T, c)) <= 1
<1>1. ASSUME NEW i \in Lonely(T, c), NEW j \in Lonely(T, c)
      PROVE  i = j
  <2>1. PICK q : q \in Lonely(T, d)
    BY LonelyMet
  <2>2. /\ i.strike # q.strike /\ Dist(i, p) = Dist(q, p)
        /\ j.strike # q.strike /\ Dist(j, p) = Dist(q, p)
    BY <2>1, LonelyApart
  <2>3. /\ i \in M /\ j \in M /\ i.isCall = j.isCall
        /\ i \in Instrument /\ j \in Instrument /\ q \in Instrument
    BY <2>1 DEF Chosen, Nearest, Lonely, Kind
  <2>4. i.strike \in Int /\ j.strike \in Int /\ q.strike \in Int
    BY <2>3 DEF Instrument, NotANumber
  <2>5. i.strike = j.strike
    BY <2>2, <2>4 DEF Dist
  <2> QED BY <2>3, <2>5 DEF Paired
<1>2. CASE Lonely(T, c) = {}
  BY <1>2, FS_EmptySet
<1>3. CASE Lonely(T, c) # {}
  <2>1. PICK i \in Lonely(T, c) : TRUE
    BY <1>3
  <2>2. Lonely(T, c) = {i}
    BY <1>1, <2>1
  <2> QED BY <2>2, FS_Singleton
<1> QED BY <1>2, <1>3

\* If the names tell options apart and the venue lists every call with its
\* put, at most one of a kind and an expiry is left unpaired, at the edge.
THEOREM EdgeUnpaired ==
  ASSUME NamesIdentify
  PROVE  Spec => []OnlyEdgeUnpaired
<1>1. ASSUME UniverseInv
      PROVE  OnlyEdgeUnpaired
  <2> DEFINE S == ToSet(symbols)
  <2>1. SUFFICES ASSUME pc = "done", NEW e \in {near, far},
                        \A i \in Matching(e) : Other(i) \in listed,
                        NEW c \in BOOLEAN
        PROVE  LET lonely == {i \in Selected(e, c) : Other(i) \notin S}
               IN  /\ Cardinality(lonely) <= 1
                   /\ \A i \in lonely :
                        /\ \E j \in Matching(e) : j.strike # i.strike /\ Distance(j) = Distance(i)
                        /\ \A j \in Selected(e, c) : Distance(j) <= Distance(i)
    BY DEF OnlyEdgeUnpaired, Other
  <2> DEFINE T == AtExpiry(S, e)
             M == Matching(e)
  <2>2. Chosen(T, M, price) /\ Typed
    BY <1>1, <2>1 DEF UniverseInv, BothIn
  <2>3. T \subseteq M /\ M \subseteq Instrument /\ price \in Nat
    BY <2>2 DEF Chosen, Nearest, Typed
  <2>4. Paired(M)
    <3>1. ASSUME NEW i \in M
          PROVE  Other(i) \in M
      <4>1. i \in Instrument /\ Other(i) \in listed
        BY <2>1, <2>3
      <4>2. Distance(Other(i)) = Distance(i)
        BY <4>1, OtherIs, DistanceIs
      <4> QED BY <4>1, <4>2, OtherIs DEF Matching
    <3>2. ASSUME NEW i \in M, NEW j \in M, i.strike = j.strike, i.isCall = j.isCall
          PROVE  i = j
      <4>1. PICK chain \in Chains \cup {{}} : listed \subseteq {k \in chain : k.active}
        BY <2>2 DEF Typed
      <4>2. /\ i \in listed /\ i.parts >= 4 /\ i.exp = e
            /\ j \in listed /\ j.parts >= 4 /\ j.exp = e
        BY DEF Matching
      <4>3. chain \in Chains
        BY <4>1, <4>2
      <4> QED BY <3>2, <4>1, <4>2, <4>3 DEF NamesIdentify
    <3> QED BY <3>1, <3>2 DEF Paired
  <2>5. Selected(e, c) = Kind(T, c)
    BY DEF Selected, Kind, AtExpiry
  <2>6. {i \in Selected(e, c) : Other(i) \notin S} = Lonely(T, c)
    <3>1. ASSUME NEW i \in Kind(T, c)
          PROVE  Other(i) \in S <=> Other(i) \in T
      <4>1. i \in Instrument /\ i.exp = e
        BY <2>3 DEF Kind, AtExpiry
      <4> QED BY <4>1, OtherIs DEF AtExpiry
    <3> QED BY <2>5, <3>1 DEF Lonely
  <2>7. PICK d : Kinds(c, d)
    BY DEF Kinds
  <2> HIDE DEF S, T, M
  <2>8. Cardinality(Lonely(T, c)) <= 1
    BY <2>2, <2>3, <2>4, <2>7, LonelyOne
  <2>9. ASSUME NEW i \in Lonely(T, c)
        PROVE  /\ \E j \in M : j.strike # i.strike /\ Distance(j) = Distance(i)
               /\ \A j \in Kind(T, c) : Distance(j) <= Distance(i)
    <3>1. PICK q : q \in Lonely(T, d)
      BY <2>2, <2>4, <2>7, LonelyMet
    <3>2. /\ i.strike # q.strike /\ Dist(i, price) = Dist(q, price)
          /\ \A j \in Kind(T, c) : Dist(j, price) <= Dist(i, price)
      BY <2>2, <2>3, <2>4, <2>7, <3>1, LonelyApart
    <3>3. q \in M
      BY <2>3, <3>1 DEF Lonely, Kind
    <3> QED BY <3>2, <3>3, DistanceIs
  <2> QED BY <2>5, <2>6, <2>8, <2>9 DEF M
<1> QED BY UniverseHolds, <1>1, PTL
=============================================================================
