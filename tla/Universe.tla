------------------------------ MODULE Universe -------------------------------
(***************************************************************************)
(* BuildUniverse: from an index price and the list of instruments, fetched *)
(* over REST, to the list of symbols everything else is built on: of the   *)
(* nearest and the farthest expiry of the next days the options within 20% *)
(* of the price, nearest first, half calls and half puts.                  *)
(*                                                                         *)
(* Times are days from now.  An instrument is abstracted to what the code  *)
(* reads: how many parts its name has, expiry, strike, kind, is_active;    *)
(* that identifies it.  An expiry's label, by which the code groups names, *)
(* and its time are taken to name each other.                              *)
(***************************************************************************)
EXTENDS Integers, Sequences, FiniteSets, SequencesExt

CONSTANTS
  MaxOptions,   \* data.MaxOptions
  EnvDays,      \* HEDGE_EM_MAX_DAYS, 0 if unset or not a number
  Prices,       \* the index prices the venue may answer with
  Chains        \* the lists of instruments it may answer with

NotANumber == -1

Instrument == [parts : Nat, exp : Int, strike : Nat \cup {NotANumber},
               isCall : BOOLEAN, active : BOOLEAN]

ASSUME UniverseAssumption ==
  /\ MaxOptions \in Nat \ {0}
  /\ EnvDays \in Int
  /\ Prices \subseteq Nat \ {0}
  /\ Chains \subseteq SUBSET Instrument

\* What Deribit's names grant and OnlyEdgeUnpaired needs: no two options that
\* are traded have the same expiry, strike and kind.
NamesIdentify ==
  \A chain \in Chains : \A i, j \in {k \in chain : k.active /\ k.parts >= 4} :
    i.exp = j.exp /\ i.strike = j.strike /\ i.isCall = j.isCall => i = j

VARIABLES
  pc,           \* the step BuildUniverse is at; "fatal": the process exited
  price,        \* S, which is also what the index price starts as
  listed,       \* the active instruments
  near, far,    \* the two expiries
  left,         \* filterOptionsByTSCap: options still to look at
  balanced,     \*   and options taken, in the end those not merged yet
  symbols       \* merged

vars == <<pc, price, listed, near, far, left, balanced, symbols>>

MaxDays == IF EnvDays > 0 THEN EnvDays ELSE 7

Init ==
  /\ pc = "price" /\ price = 0 /\ listed = {} /\ near = 0 /\ far = 0
  /\ left = {} /\ balanced = <<>> /\ symbols = <<>>

\* A request or a decoding that fails gives the default.  The status of the
\* answer is not looked at, and a reply without a result decodes to 0.
FetchBTCPrice ==
  /\ pc = "price"
  /\ price' \in Prices \cup {65000, 0}
  /\ pc' = "instruments"
  /\ UNCHANGED <<listed, near, far, left, balanced, symbols>>

\* Failures end the process; a reply without a result holds no instruments.
FetchInstruments ==
  /\ pc = "instruments"
  /\ \/ \E chain \in Chains \cup {{}} :
          listed' = {i \in chain : i.active} /\ pc' = "expiries"
     \/ listed' = {} /\ pc' = "fatal"
  /\ UNCHANGED <<price, near, far, left, balanced, symbols>>

Window == {i.exp : i \in {j \in listed : j.parts >= 3 /\ j.exp \in 1 .. MaxDays}}

Distance(i) == IF i.strike > price THEN i.strike - price ELSE price - i.strike

Matching(e) ==
  {i \in listed : /\ i.exp = e /\ i.parts >= 4 /\ i.strike # NotANumber
                  /\ 5 * Distance(i) <= price}

FindNearAndFarWithinDays ==
  /\ pc = "expiries"
  /\ IF Window = {}
     THEN pc' = "fatal" /\ UNCHANGED <<near, far, left>>
     ELSE /\ near' = Min(Window) /\ far' = Max(Window)
          /\ left' = Matching(Min(Window))
          /\ pc' = "near"
  /\ UNCHANGED <<price, listed, balanced, symbols>>

PerCap == IF MaxOptions \div 2 > 0 THEN MaxOptions \div 2 ELSE MaxOptions

\* callCount and putCount count these.
Taken(isCall) == {i \in ToSet(balanced) : i.isCall = isCall}

\* Fault: the list is not sorted.
NextBestUnsorted(i) == i \in left

\* sort.Slice is not stable: options at the same distance come in any order.
NextBest(i) == i \in left /\ \A j \in left : Distance(i) <= Distance(j)

\* Fault: the list is filled nearest first, without a cap for each kind.
FilterOptionUncapped(i) ==
  /\ pc \in {"near", "far"}
  /\ Len(balanced) < PerCap
  /\ NextBest(i)
  /\ left' = left \ {i}
  /\ balanced' = Append(balanced, i)
  /\ UNCHANGED <<pc, price, listed, near, far, symbols>>

\* The loop over the sorted options, until enough are taken.
FilterOption(i) ==
  /\ pc \in {"near", "far"}
  /\ Len(balanced) < PerCap
  /\ NextBest(i)
  /\ left' = left \ {i}
  /\ balanced' = IF Cardinality(Taken(i.isCall)) < PerCap \div 2
                 THEN Append(balanced, i) ELSE balanced
  /\ UNCHANGED <<pc, price, listed, near, far, symbols>>

Filtered == pc \in {"near", "far"} /\ (left = {} \/ Len(balanced) >= PerCap)

\* Unstable but deterministic: the same arguments give the same list again.
NearDone ==
  /\ Filtered /\ pc = "near"
  /\ pc' = "far"
  /\ symbols' = balanced
  /\ IF far = near THEN UNCHANGED <<left, balanced>>
     ELSE left' = Matching(far) /\ balanced' = <<>>
  /\ UNCHANGED <<price, listed, near, far>>

FarDone ==
  /\ Filtered /\ pc = "far"
  /\ pc' = "merge"
  /\ UNCHANGED <<price, listed, near, far, left, balanced, symbols>>

\* Fault: the two lists are joined as they are.
MergeAll ==
  /\ pc = "merge" /\ balanced # <<>>
  /\ balanced' = Tail(balanced)
  /\ symbols' = Append(symbols, Head(balanced))
  /\ UNCHANGED <<pc, price, listed, near, far, left>>

\* Symbols seen before are passed over.  Two lists of at most PerCap fit, so
\* the break at MaxOptions leaves nothing out.
Merge ==
  /\ pc = "merge" /\ balanced # <<>>
  /\ balanced' = Tail(balanced)
  /\ symbols' = IF Contains(symbols, Head(balanced)) THEN symbols
                ELSE Append(symbols, Head(balanced))
  /\ UNCHANGED <<pc, price, listed, near, far, left>>

\* main gives up if nothing was selected.
Return ==
  /\ pc = "merge" /\ balanced = <<>>
  /\ pc' = IF symbols = <<>> THEN "fatal" ELSE "done"
  /\ UNCHANGED <<price, listed, near, far, left, balanced, symbols>>

Next ==
  \/ FetchBTCPrice \/ FetchInstruments \/ FindNearAndFarWithinDays
  \/ (\E i \in left : FilterOption(i))
  \/ NearDone \/ FarDone \/ Merge \/ Return

Spec == Init /\ [][Next]_vars

(***************************************************************************)
(* Properties.  Selected and Passed are the options of an expiry and kind  *)
(* that made it into the list, and those in the band that did not.         *)
(***************************************************************************)

Selected(e, isCall) == {i \in ToSet(symbols) : i.exp = e /\ i.isCall = isCall}

Passed(e, isCall) == {i \in Matching(e) : i.isCall = isCall} \ ToSet(symbols)

\* No symbol is listed twice, not even if the near and the far expiry are
\* one: the FIX client would write to the last of two indices only, and the
\* fixed tables have room for all.
DistinctSymbols ==
  /\ Cardinality(ToSet(symbols)) = Len(symbols)
  /\ Len(symbols) <= MaxOptions

\* Of each kind the nearest are selected and none is passed over while there
\* is room, although calls and puts are taken from one list in turns.
NearestOfEachKind ==
  pc = "done" =>
    \A e \in {near, far} : \A isCall \in BOOLEAN :
      Passed(e, isCall) # {} =>
        /\ Cardinality(Selected(e, isCall)) = PerCap \div 2
        /\ \A i \in Selected(e, isCall) : \A j \in Passed(e, isCall) :
             Distance(i) <= Distance(j)

\* If the venue lists every call with its put, at most one call of an expiry
\* is selected without its put, and only at the edge of the selection, where
\* a strike above and one below the price are equally far.
OnlyEdgeUnpaired ==
  pc = "done" =>
    \A e \in {near, far} :
      LET other(i)  == [i EXCEPT !.isCall = ~@]
          lonely(c) == {i \in Selected(e, c) : other(i) \notin ToSet(symbols)}
      IN  (\A i \in Matching(e) : other(i) \in listed) =>
            \A c \in BOOLEAN :
              /\ Cardinality(lonely(c)) <= 1
              /\ \A i \in lonely(c) :
                   /\ \E j \in Matching(e) : j.strike # i.strike /\ Distance(j) = Distance(i)
                   /\ \A j \in Selected(e, c) : Distance(j) <= Distance(i)
=============================================================================
