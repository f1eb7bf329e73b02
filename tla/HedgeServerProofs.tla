-------------------------- MODULE HedgeServerProofs --------------------------
(***************************************************************************)
(* The handlers of ServeHedgeHTTP, for any number of requests in flight.   *)
(*                                                                         *)
(* OncePerNumber is not inductive: it needs that a handler about to swap   *)
(* holds a number above the one it loaded (SwapsUpwards), and that what    *)
(* was let in is not above the counter (LetInBelow), so that a swap that   *)
(* succeeds lets in a number no other request had.  The same invariant     *)
(* makes the loop as good as an atomic gate.                               *)
(*                                                                         *)
(* TargetsAreSeen follows from who still owes a wake-up (WakeToCome).      *)
(***************************************************************************)
EXTENDS HedgeServer, TLAPS

SwapsUpwards ==
  \A r \in Requests : At(r, "cas") => Sent[r].seq # 0 /\ Sent[r].seq > prev[r]

LetInBelow ==
  \A r \in Requests : LetIn(r) => Sent[r].seq <= Counter(r)

IInv == TypeOK /\ SwapsUpwards /\ LetInBelow /\ OncePerNumber

LEMMA SentType ==
  ASSUME NEW r \in Requests
  PROVE  /\ Sent[r].endpoint \in Endpoints /\ Sent[r].seq \in Nat
         /\ Sent[r].side \in {-1, 0, 1} /\ Sent[r].valid \in BOOLEAN
<1>1. Sent[r] \in Message
  BY HedgeServerAssumption
<1> QED
  BY <1>1 DEF Message

LEMMA Initially == Init => IInv
BY DEF Init, IInv, TypeOK, SwapsUpwards, LetInBelow, OncePerNumber, At, LetIn,
       Steps, Target, NoTarget

LEMMA Typing ==
  ASSUME TypeOK, NEW r \in Requests, Handle(r)
  PROVE  TypeOK'
<1> USE SentType DEF TypeOK, At, Goto, Steps
<1>1. CASE Decode(r)
  BY <1>1 DEF Decode
<1>2. CASE LoadSeq(r)
  BY <1>2 DEF LoadSeq, Counter
<1>3. CASE SwapSeq(r)
  BY <1>3 DEF SwapSeq
<1>4. CASE SetTarget(r)
  <2>1. target' \in Target
    BY <1>4 DEF SetTarget, TargetOf, Target
  <2> QED
    BY <1>4, <2>1 DEF SetTarget
<1>5. CASE Wake(r)
  BY <1>5 DEF Wake
<1>6. CASE UpdateMainMarketPNL(r)
  BY <1>6 DEF UpdateMainMarketPNL
<1> QED
  BY <1>1, <1>2, <1>3, <1>4, <1>5, <1>6 DEF Handle

\* Only the handler's own request moves.
LEMMA OthersStay ==
  ASSUME TypeOK, NEW r \in Requests, Handle(r), NEW q \in Requests, q # r
  PROVE  pc'[q] = pc[q] /\ prev'[q] = prev[q]
BY DEF TypeOK, Handle, Decode, LoadSeq, SwapSeq, SetTarget, Wake,
       UpdateMainMarketPNL, Goto, At

\* A step that lets no request in changes no counter.
LEMMA QuietStep ==
  ASSUME TypeOK, NEW r \in Requests, Handle(r), ~(SwapSeq(r) /\ Counter(r) = prev[r])
  PROVE  /\ lastSeq' = lastSeq
         /\ LetIn(r)' => LetIn(r) \/ Sent[r].seq = 0
<1> USE DEF TypeOK, At, Goto, LetIn, Steps
<1>1. CASE Decode(r)
  BY <1>1 DEF Decode
<1>2. CASE LoadSeq(r)
  BY <1>2 DEF LoadSeq
<1>3. CASE SwapSeq(r)
  BY <1>3 DEF SwapSeq
<1>4. CASE SetTarget(r)
  BY <1>4 DEF SetTarget
<1>5. CASE Wake(r)
  BY <1>5 DEF Wake
<1>6. CASE UpdateMainMarketPNL(r)
  BY <1>6 DEF UpdateMainMarketPNL
<1> QED
  BY <1>1, <1>2, <1>3, <1>4, <1>5, <1>6 DEF Handle

LEMMA SwapsUpwardsStep ==
  ASSUME IInv, NEW r \in Requests, Handle(r)
  PROVE  SwapsUpwards'
<1> SUFFICES ASSUME NEW q \in Requests, pc'[q] = "cas"
             PROVE  Sent[q].seq # 0 /\ Sent[q].seq > prev'[q]
  BY DEF SwapsUpwards, At
<1>1. CASE q # r
  BY <1>1, OthersStay DEF IInv, SwapsUpwards, At
<1>2. CASE q = r
  <2> USE DEF IInv, TypeOK, Goto, At
  <2>1. LoadSeq(r)
    BY <1>2 DEF Handle, Decode, LoadSeq, SwapSeq, SetTarget, Wake,
                UpdateMainMarketPNL
  <2>2. Counter(r) \in Nat /\ Sent[r].seq \in Nat
    BY SentType DEF Counter
  <2>3. ~Stale(Sent[r].seq, Counter(r)) /\ Sent[r].seq # 0
    BY <1>2, <2>1 DEF LoadSeq
  <2>4. prev'[r] = Counter(r)
    BY <2>1 DEF LoadSeq
  <2> QED
    BY <1>2, <2>2, <2>3, <2>4 DEF Stale
<1> QED
  BY <1>1, <1>2

\* The swap that succeeds: it raises the counter above every number let in.
LEMMA SwapRaises ==
  ASSUME IInv, NEW r \in Requests, SwapSeq(r), Counter(r) = prev[r]
  PROVE  /\ Counter(r)' = Sent[r].seq
         /\ Counter(r) < Counter(r)'
         /\ \A q \in Requests : Counter(q) <= Counter(q)'
<1> USE SentType DEF IInv, TypeOK
<1>1. Sent[r].seq > Counter(r)
  BY DEF SwapsUpwards, SwapSeq
<1>2. lastSeq' = [lastSeq EXCEPT ![Sent[r].endpoint] = Sent[r].seq]
  BY DEF SwapSeq
<1>3. Counter(r)' = Sent[r].seq
  BY <1>2 DEF Counter
<1>4. ASSUME NEW q \in Requests PROVE Counter(q) <= Counter(q)'
  <2>1. Counter(q) \in Nat
    BY DEF Counter
  <2>2. CASE Sent[q].endpoint = Sent[r].endpoint
    BY <1>1, <1>2, <2>1, <2>2 DEF Counter
  <2>3. CASE Sent[q].endpoint # Sent[r].endpoint
    BY <1>2, <2>1, <2>3 DEF Counter
  <2> QED
    BY <2>2, <2>3
<1> QED
  BY <1>1, <1>3, <1>4

LEMMA LetInBelowStep ==
  ASSUME IInv, NEW r \in Requests, Handle(r)
  PROVE  LetInBelow'
<1> SUFFICES ASSUME NEW q \in Requests, LetIn(q)'
             PROVE  Sent[q].seq <= Counter(q)'
  BY DEF LetInBelow
<1>1. Sent[q].seq \in Nat /\ Counter(q) \in Nat /\ Counter(q)' \in Nat
  BY SentType, Typing DEF IInv, TypeOK, Counter
<1>2. CASE SwapSeq(r) /\ Counter(r) = prev[r]
  <2>1. CASE q = r
    BY <1>1, <1>2, <2>1, SwapRaises
  <2>2. CASE q # r
    <3>1. LetIn(q)
      BY <2>2, OthersStay DEF IInv, LetIn
    <3> QED
      BY <1>1, <1>2, <3>1, SwapRaises DEF IInv, LetInBelow
  <2> QED
    BY <2>1, <2>2
<1>3. CASE ~(SwapSeq(r) /\ Counter(r) = prev[r])
  <2>1. Counter(q)' = Counter(q)
    BY <1>3, QuietStep DEF IInv, Counter
  <2>2. LetIn(q) \/ Sent[q].seq = 0
    BY <1>3, QuietStep, OthersStay DEF IInv, LetIn
  <2> QED
    BY <1>1, <2>1, <2>2 DEF IInv, LetInBelow
<1> QED
  BY <1>2, <1>3

LEMMA OncePerNumberStep ==
  ASSUME IInv, NEW r \in Requests, Handle(r)
  PROVE  OncePerNumber'
<1> SUFFICES ASSUME NEW p \in Requests, NEW q \in Requests, LetIn(p)', LetIn(q)',
                    SameNumber(p, q), Sent[p].seq # 0
             PROVE  p = q
  BY DEF OncePerNumber, SameNumber
\* Two requests, one of which the step let in: the other has a lower number.
<1>1. ASSUME NEW x \in Requests, SameNumber(r, x), x # r, LetIn(x)', LetIn(r)',
             Sent[r].seq # 0
      PROVE  LetIn(r)
  <2>1. LetIn(x)
    BY <1>1, OthersStay DEF IInv, LetIn
  <2>2. CASE SwapSeq(r) /\ Counter(r) = prev[r]
    <3>1. Counter(x) = Counter(r)
      BY <1>1 DEF SameNumber, Counter
    <3>2. Sent[x].seq <= Counter(r) /\ Counter(r) < Sent[r].seq
      BY <2>1, <2>2, <3>1, SwapRaises DEF IInv, LetInBelow
    <3>3. Sent[x].seq = Sent[r].seq /\ Sent[r].seq \in Nat /\ Counter(r) \in Nat
      BY <1>1, SentType DEF SameNumber, IInv, TypeOK, Counter
    <3> QED
      BY <3>2, <3>3
  <2>3. CASE ~(SwapSeq(r) /\ Counter(r) = prev[r])
    BY <1>1, <2>3, QuietStep DEF IInv
  <2> QED
    BY <2>2, <2>3
<1>2. CASE p # r /\ q # r
  BY <1>2, OthersStay DEF IInv, LetIn, OncePerNumber
<1>3. CASE p = r /\ q # r
  BY <1>1, <1>3, OthersStay DEF IInv, LetIn, OncePerNumber
<1>4. CASE p # r /\ q = r
  <2>1. SameNumber(r, p) /\ Sent[r].seq # 0
    BY <1>4 DEF SameNumber
  <2>2. LetIn(r)
    BY <1>1, <1>4, <2>1
  <2> QED
    BY <1>4, <2>2, OthersStay DEF IInv, LetIn, OncePerNumber
<1> QED
  BY <1>2, <1>3, <1>4

LEMMA Inductive == IInv /\ [Next]_vars => IInv'
<1> SUFFICES ASSUME IInv, [Next]_vars PROVE IInv'
  OBVIOUS
<1>1. CASE UNCHANGED vars
  BY <1>1 DEF vars, IInv, TypeOK, SwapsUpwards, LetInBelow, OncePerNumber,
              LetIn, At, Counter
<1>2. CASE Next
  <2>1. PICK r \in Requests : Handle(r)
    BY <1>2 DEF Next
  <2>2. TypeOK'
    BY <2>1, Typing DEF IInv
  <2> QED
    BY <2>1, <2>2, SwapsUpwardsStep, LetInBelowStep, OncePerNumberStep DEF IInv
<1> QED
  BY <1>1, <1>2

\* However many handlers run their load-compare-swap loops at once, of the
\* requests of one endpoint with one number only one reaches the engine.
THEOREM DeDupe == Spec => []OncePerNumber
<1>1. IInv => OncePerNumber
  BY DEF IInv
<1> QED
  BY <1>1, Initially, Inductive, PTL DEF Spec

(***************************************************************************)
(* Wake-ups.                                                               *)
(***************************************************************************)

\* A target the engine has not seen is that of a handler about to wake it.
WakeToCome ==
  \/ target.by = NoRequest \/ ~Wakes(target.by)
  \/ seen = target
  \/ target.by \in Requests /\ At(target.by, "wake")

LEMMA WakeToComeStep ==
  ASSUME TypeOK, WakeToCome, NEW r \in Requests, Handle(r)
  PROVE  WakeToCome'
<1>1. CASE SetTarget(r)
  <2>1. target'.by = r
    BY <1>1 DEF SetTarget, TargetOf
  <2>2. Wakes(r) => pc'[r] = "wake"
    BY <1>1 DEF SetTarget, Goto, TypeOK
  <2> QED
    BY <2>1, <2>2 DEF WakeToCome, At, Wakes
<1>2. CASE Wake(r)
  BY <1>2 DEF Wake, WakeToCome
<1>3. CASE Decode(r) \/ LoadSeq(r) \/ SwapSeq(r) \/ UpdateMainMarketPNL(r)
  <2>1. target' = target /\ seen' = seen /\ ~At(r, "wake")
    BY <1>3 DEF Decode, LoadSeq, SwapSeq, UpdateMainMarketPNL, At
  <2>2. \A q \in Requests : At(q, "wake") => pc'[q] = "wake"
    BY <2>1, OthersStay DEF At
  <2> QED
    BY <2>1, <2>2 DEF WakeToCome, At, Wakes
<1> QED
  BY <1>1, <1>2, <1>3 DEF Handle

\* However the handlers interleave SetTarget and Wake: once none is under
\* way the engine has been woken after the last target that is not a close.
THEOREM NoWakeLost == Spec => []TargetsAreSeen
<1>1. Init => WakeToCome
  BY DEF Init, NoTarget, WakeToCome
<1>2. TypeOK /\ WakeToCome /\ [Next]_vars => WakeToCome'
  <2> SUFFICES ASSUME TypeOK, WakeToCome, [Next]_vars PROVE WakeToCome'
    OBVIOUS
  <2>1. CASE UNCHANGED vars
    BY <2>1 DEF vars, WakeToCome, At, Wakes
  <2>2. CASE Next
    BY <2>2, WakeToComeStep DEF Next
  <2> QED
    BY <2>1, <2>2
<1>3. WakeToCome => TargetsAreSeen
  BY DEF WakeToCome, TargetsAreSeen, At
<1>4. IInv => TypeOK
  BY DEF IInv
<1> QED
  BY <1>1, <1>2, <1>3, <1>4, Initially, Inductive, PTL DEF Spec

(***************************************************************************)
(* The gate.                                                               *)
(***************************************************************************)

LEMMA GateInitially == Init => Gate!GateInit
BY DEF Init, Gate!GateInit, Verdicts, LetIn, At

\* A step that gives request r a verdict and the others none.
LEMMA OneVerdict ==
  ASSUME TypeOK, NEW r \in Requests, Handle(r), NEW v, Verdicts'[r] = v
  PROVE  Verdicts' = [Verdicts EXCEPT ![r] = v]
<1>1. \A q \in Requests : q # r => Verdicts'[q] = Verdicts[q]
  BY OthersStay DEF Verdicts, LetIn, At
<1>2. /\ Verdicts = [q \in Requests |-> Verdicts[q]]
      /\ Verdicts' = [q \in Requests |-> Verdicts'[q]]
  BY DEF Verdicts
<1> HIDE DEF Verdicts
<1> QED
  BY <1>1, <1>2

LEMMA GateStep ==
  ASSUME IInv, NEW r \in Requests, Handle(r)
  PROVE  Gate!Admit(r) \/ Gate!Refuse(r) \/ UNCHANGED Gate!gateVars
<1>1. TypeOK /\ Counter(r) \in Nat /\ Sent[r].seq \in Nat
  BY SentType DEF IInv, TypeOK, Counter
<1> DEFINE same == lastSeq' = lastSeq /\ Verdicts'[r] = Verdicts[r]
<1>2. ASSUME same PROVE UNCHANGED Gate!gateVars
  <2>1. Verdicts' = [Verdicts EXCEPT ![r] = Verdicts[r]]
    BY <1>1, <1>2, OneVerdict
  <2>2. Verdicts' = Verdicts
    BY <2>1 DEF Verdicts
  <2> QED
    BY <1>2, <2>2 DEF Gate!gateVars
<1> HIDE DEF same
<1>3. CASE LoadSeq(r)
  <2>1. At(r, "load") /\ Verdicts[r] = "open" /\ lastSeq' = lastSeq
    BY <1>3 DEF LoadSeq, Verdicts, LetIn, At
  <2>2. CASE Stale(Sent[r].seq, Counter(r))
    <3>1. pc'[r] = "ignored"
      BY <1>1, <1>3, <2>2 DEF LoadSeq, Goto, TypeOK, Stale
    <3>2. Verdicts'[r] = "out"
      BY <3>1 DEF Verdicts, LetIn, At
    <3>3. Gate!Refuse(r)
      BY <1>1, <2>1, <2>2, <3>2, OneVerdict DEF Gate!Refuse, Stale, Counter
    <3> QED
      BY <3>3
  <2>3. CASE ~Stale(Sent[r].seq, Counter(r)) /\ Sent[r].seq = 0
    <3>1. pc'[r] = "apply"
      BY <1>1, <1>3, <2>3 DEF LoadSeq, Goto, TypeOK
    <3>2. Verdicts'[r] = "in"
      BY <3>1 DEF Verdicts, LetIn, At
    <3>3. Gate!Admit(r)
      BY <1>1, <2>1, <2>3, <3>2, OneVerdict DEF Gate!Admit
    <3> QED
      BY <3>3
  <2>4. CASE ~Stale(Sent[r].seq, Counter(r)) /\ Sent[r].seq # 0
    <3>1. pc'[r] = "cas"
      BY <1>1, <1>3, <2>4 DEF LoadSeq, Goto, TypeOK
    <3>2. Verdicts'[r] = "open"
      BY <3>1 DEF Verdicts, LetIn, At
    <3> QED
      BY <1>2, <2>1, <3>2 DEF same
  <2> QED
    BY <2>2, <2>3, <2>4
<1>4. CASE SwapSeq(r) /\ Counter(r) = prev[r]
  <2>1. /\ Verdicts[r] = "open" /\ pc'[r] = "apply"
        /\ lastSeq' = [lastSeq EXCEPT ![Sent[r].endpoint] = Sent[r].seq]
    BY <1>1, <1>4 DEF SwapSeq, Goto, TypeOK, Verdicts, LetIn, At
  <2>2. Verdicts'[r] = "in"
    BY <2>1 DEF Verdicts, LetIn, At
  <2>3. Sent[r].seq > Counter(r) /\ Sent[r].seq # 0
    BY <1>4 DEF IInv, SwapsUpwards, SwapSeq
  <2>4. Gate!Admit(r)
    BY <1>1, <2>1, <2>2, <2>3, OneVerdict DEF Gate!Admit, Counter
  <2> QED
    BY <2>4
<1>5. CASE Decode(r) \/ (SwapSeq(r) /\ Counter(r) # prev[r])
            \/ SetTarget(r) \/ Wake(r) \/ UpdateMainMarketPNL(r)
  <2>1. same
    BY <1>1, <1>5 DEF same, Decode, SwapSeq, SetTarget, Wake, UpdateMainMarketPNL,
                      Goto, At, TypeOK, Verdicts, LetIn
  <2> QED
    BY <1>2, <2>1
<1> QED
  BY <1>3, <1>4, <1>5 DEF Handle

\* The handlers implement the gate: whatever they interleave, each request is
\* let in or ignored as if the decision were one atomic comparison with the
\* highest number its endpoint let in before.
THEOREM HandlersImplementGate == Spec => ImplementsGate
<1>1. IInv /\ [Next]_vars => [Gate!GateNext]_(Gate!gateVars)
  <2> SUFFICES ASSUME IInv, [Next]_vars PROVE [Gate!GateNext]_(Gate!gateVars)
    OBVIOUS
  <2>1. CASE UNCHANGED vars
    BY <2>1 DEF vars, Gate!gateVars, Verdicts, LetIn, At
  <2>2. CASE Next
    <3>1. PICK r \in Requests : Handle(r)
      BY <2>2 DEF Next
    <3> QED
      BY <3>1, GateStep DEF Gate!GateNext
  <2> QED
    BY <2>1, <2>2
<1> QED
  BY <1>1, GateInitially, Initially, Inductive, PTL
     DEF Spec, ImplementsGate, Gate!GateSpec
=============================================================================
