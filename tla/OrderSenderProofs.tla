-------------------------- MODULE OrderSenderProofs ---------------------------
(***************************************************************************)
(* Two results, for any number of goroutines, calls and restarts.          *)
(*                                                                         *)
(* The ClOrdIDs of a day are distinct.  Within one process the counter     *)
(* keeps them apart, from one process to the next the time does; the       *)
(* invariant IdInv says both of the orders that have their identifier and  *)
(* of the goroutines about to stamp.                                       *)
(*                                                                         *)
(* What SendBatch returns is complete.  WaitInv: the WaitGroup counts the  *)
(* goroutines that have not called wg.Done, and those past their send have *)
(* stored the answer.                                                      *)
(***************************************************************************)
EXTENDS OrderSender, FiniteSetTheorems, TLAPS

\* Stamped since the running process started.
Recent(id) == ~Before(id.at, born)

Stamping(c, i) == pc[c][i] = "stamp"

\* No identifier is later than now, nor is the start of the process.
PastOK == ~Before(now, born) /\ \A id \in ids : ~Before(now, id.at)

\* The counter has passed every number of this process.
CounterOK ==
  /\ \A id \in ids : Recent(id) => id.n <= seq
  /\ \A c \in Callers : \A i \in Legs : Stamping(c, i) => num[c][i] <= seq

\* A number waiting to be stamped is used by no order and waits nowhere else.
NumbersOK ==
  \A c \in Callers : \A i \in Legs : Stamping(c, i) =>
    /\ \A id \in ids : Recent(id) => id.n # num[c][i]
    /\ \A d \in Callers : \A j \in Legs :
         Stamping(d, j) /\ num[d][j] = num[c][i] => d = c /\ j = i

IdInv == TypeOK /\ PastOK /\ CounterOK /\ NumbersOK

\* The clock's next value is later than any that is not later than now.
LEMMA NextMsLater ==
  ASSUME now \in Time
  PROVE  /\ NextMs \in Time
         /\ Before(now, NextMs)
         /\ \A t \in Time : ~Before(now, t) => Before(t, NextMs) /\ ~Before(NextMs, t)
BY OrderSenderAssumption DEF NextMs, Time, Before

\* A step that neither draws, stamps nor restarts, and starts no stamping,
\* keeps the invariant.
LEMMA QuietStep ==
  ASSUME IdInv, UNCHANGED <<now, born, seq, num, ids>>, TypeOK',
         \A c \in Callers : \A i \in Legs : Stamping(c, i)' => Stamping(c, i)
  PROVE  IdInv'
BY DEF IdInv, PastOK, CounterOK, NumbersOK, Recent, Stamping, TypeOK

\* Types are kept by every step.
LEMMA TypeStep ==
  ASSUME TypeOK, [Next]_vars
  PROVE  TypeOK'
<1>1. CASE UNCHANGED vars
  BY <1>1 DEF TypeOK, vars
<1>2. ASSUME NEW c \in Callers, NEW r \in Seq(TIF), Call(c, r)
      PROVE  TypeOK'
  BY <1>2 DEF TypeOK, Call
<1>3. ASSUME NEW c \in Callers, SendOrder(c) \/ SendBatch(c)
      PROVE  TypeOK'
  <2>1. <<"GTC">> \in Seq(TIF)
    BY DEF TIF
  <2>2. \A r \in Batches : r \in Seq(TIF)
    BY OrderSenderAssumption DEF TIF
  <2> QED BY <1>2, <1>3, <2>1, <2>2 DEF SendOrder, SendBatch
<1>4. ASSUME NEW c \in Callers, NEW i \in Legs,
             DrawSeq(c, i) \/ Stamp(c, i) \/ Send(c, i) \/ Done(c, i)
      PROVE  TypeOK'
  <2>1. CASE DrawSeq(c, i)
    BY <2>1 DEF TypeOK, DrawSeq
  <2>2. CASE Stamp(c, i)
    BY <2>2 DEF TypeOK, Stamp, ClOrdID
  <2>3. CASE Send(c, i)
    <3>1. PICK queued \in BOOLEAN : /\ errs' = [errs EXCEPT ![c][i] = ~queued]
                                   /\ out' = [out EXCEPT ![c][i] = queued]
      BY <2>3 DEF Send, Queueable
    <3>2. (~queued) \in BOOLEAN
      OBVIOUS
    <3>3. errs' \in [Callers -> [Legs -> BOOLEAN]] /\ out' \in [Callers -> [Legs -> BOOLEAN]]
      BY <3>1, <3>2 DEF TypeOK
    <3> QED BY <2>3, <3>3 DEF TypeOK, Send
  <2>4. CASE Done(c, i)
    BY <2>4 DEF TypeOK, Done
  <2> QED BY <1>4, <2>1, <2>2, <2>3, <2>4
<1>5. ASSUME NEW c \in Callers, Return(c)
      PROVE  TypeOK'
  BY <1>5 DEF TypeOK, Return
<1>6. CASE Tick
  BY <1>6, NextMsLater DEF TypeOK, Tick
<1>7. CASE Restart
  BY <1>7, NextMsLater DEF TypeOK, Restart, Each
<1> QED BY <1>1, <1>3, <1>4, <1>5, <1>6, <1>7 DEF Next, Leg

LEMMA IdInvInit == Init => IdInv
BY OrderSenderAssumption
   DEF Init, IdInv, TypeOK, PastOK, CounterOK, NumbersOK, Time, Before, Stamping,
       Midnight, Each

\* DrawSeq hands out a number nobody had.
LEMMA DrawKeeps ==
  ASSUME IdInv, TypeOK', NEW c \in Callers, NEW i \in Legs, DrawSeq(c, i)
  PROVE  IdInv'
<1> USE DEF IdInv, TypeOK
<1>1. \A d \in Callers : \A j \in Legs : Stamping(d, j)' =>
        \/ d = c /\ j = i /\ num'[d][j] = seq + 1
        \/ Stamping(d, j) /\ num'[d][j] = num[d][j] /\ num[d][j] <= seq
  BY DEF DrawSeq, Stamping, CounterOK
<1>2. PastOK'
  BY DEF DrawSeq, PastOK
<1>3. CounterOK'
  BY <1>1 DEF DrawSeq, CounterOK, Recent, ClOrdID
<1>4. NumbersOK'
  BY <1>1 DEF DrawSeq, CounterOK, NumbersOK, Recent, ClOrdID
<1> QED BY <1>2, <1>3, <1>4

\* Stamp makes an identifier no order has.
LEMMA StampNew ==
  ASSUME IdInv, NEW c \in Callers, NEW i \in Legs, Stamp(c, i)
  PROVE  [at |-> now, n |-> num[c][i]] \notin ids
<1>1. ~Before(now, born) /\ Stamping(c, i)
  BY DEF IdInv, PastOK, Stamp, Stamping
<1> QED BY <1>1 DEF IdInv, NumbersOK, Recent

LEMMA StampKeeps ==
  ASSUME IdInv, TypeOK', NEW c \in Callers, NEW i \in Legs, Stamp(c, i)
  PROVE  IdInv'
<1> USE DEF IdInv, TypeOK
<1> DEFINE new == [at |-> now, n |-> num[c][i]]
<1>1. ids' = ids \cup {new} /\ Stamping(c, i)
  BY DEF Stamp, Stamping
<1>2. \A d \in Callers : \A j \in Legs : Stamping(d, j)' =>
        Stamping(d, j) /\ num'[d][j] = num[d][j] /\ (d # c \/ j # i)
  BY DEF Stamp, Stamping
<1>3. ~Before(now, now)
  BY DEF Before, Time
<1>4. PastOK'
  BY <1>1, <1>3 DEF Stamp, PastOK
<1>5. CounterOK'
  BY <1>1, <1>2 DEF Stamp, CounterOK, Recent
<1>6. NumbersOK'
  BY <1>1, <1>2 DEF Stamp, NumbersOK, Recent
<1> QED BY <1>4, <1>5, <1>6

LEMMA IdInvStep ==
  ASSUME IdInv, [Next]_vars
  PROVE  IdInv'
<1>0. TypeOK'
  BY TypeStep DEF IdInv
<1>1. CASE UNCHANGED vars
  BY <1>0, <1>1, QuietStep DEF vars, Stamping
<1>2. ASSUME NEW c \in Callers, SendOrder(c) \/ SendBatch(c)
      PROVE  IdInv'
  <2>1. ASSUME NEW r, Call(c, r)
        PROVE  IdInv'
    <3>1. \A d \in Callers : \A j \in Legs : Stamping(d, j)' => Stamping(d, j)
      BY <2>1 DEF Call, Stamping, IdInv, TypeOK
    <3> QED BY <1>0, <2>1, <3>1, QuietStep DEF Call
  <2> QED BY <1>2, <2>1 DEF SendOrder, SendBatch
<1>3. ASSUME NEW c \in Callers, NEW i \in Legs,
             DrawSeq(c, i) \/ Stamp(c, i) \/ Send(c, i) \/ Done(c, i)
      PROVE  IdInv'
  <2>1. CASE Send(c, i) \/ Done(c, i)
    <3>1. pc' = [pc EXCEPT ![c][i] = "done"] \/ pc' = [pc EXCEPT ![c][i] = "off"]
      BY <2>1 DEF Send, Done
    <3>2. pc \in [Callers -> [Legs -> {"off", "draw", "stamp", "send", "done"}]]
      BY DEF IdInv, TypeOK
    <3>3. ASSUME NEW d \in Callers, NEW j \in Legs, Stamping(d, j)'
          PROVE  Stamping(d, j)
      BY <3>1, <3>2, <3>3 DEF Stamping
    <3> QED BY <1>0, <2>1, <3>3, QuietStep DEF Send, Done
  <2> QED BY <1>0, <1>3, <2>1, DrawKeeps, StampKeeps
<1>4. ASSUME NEW c \in Callers, Return(c)
      PROVE  IdInv'
  BY <1>0, <1>4, QuietStep DEF Return, Stamping
<1>5. CASE Tick
  <2>1. PastOK'
    BY <1>5, NextMsLater DEF Tick, PastOK, IdInv, TypeOK, ClOrdID
  <2> QED BY <1>0, <1>5, <2>1 DEF Tick, IdInv, CounterOK, NumbersOK, Recent, Stamping
<1>6. CASE Restart
  <2>1. \A id \in ids : Before(id.at, NextMs) /\ ~Before(NextMs, id.at)
    BY NextMsLater DEF IdInv, TypeOK, PastOK, ClOrdID
  <2>2. \A c \in Callers : \A i \in Legs : ~Stamping(c, i)'
    BY <1>6 DEF Restart, Each, Stamping
  <2>3. ~Before(NextMs, NextMs)
    BY NextMsLater DEF IdInv, TypeOK, Before, Time
  <2> QED BY <1>0, <1>6, <2>1, <2>2, <2>3
          DEF Restart, IdInv, PastOK, CounterOK, NumbersOK, Recent
<1> QED BY <1>1, <1>2, <1>3, <1>4, <1>5, <1>6 DEF Next, Leg

\* newClOrdID never repeats an identifier within a day.
THEOREM DistinctIds == Spec => IdsUniqueWithinDay
<1>1. ASSUME IdInv, [Next]_vars, NEW c \in Callers, NEW i \in Legs,
             pc[c][i] = "stamp", pc'[c][i] = "send"
      PROVE  ids' # ids
  <2>1. Stamp(c, i)
    <3>1. ASSUME NEW d \in Callers, NEW r, Call(d, r)
          PROVE  FALSE
      BY <1>1, <3>1 DEF Call, IdInv, TypeOK
    <3>2. ASSUME NEW d \in Callers, NEW j \in Legs,
                 DrawSeq(d, j) \/ Send(d, j) \/ Done(d, j)
          PROVE  FALSE
      <4>1. \E v \in {"stamp", "done", "off"} :
              pc' = [pc EXCEPT ![d][j] = v] /\ pc[d][j] # "stamp"
        BY <3>2 DEF DrawSeq, Send, Done
      <4>2. pc \in [Callers -> [Legs -> {"off", "draw", "stamp", "send", "done"}]]
        BY <1>1 DEF IdInv, TypeOK
      <4> QED BY <1>1, <4>1, <4>2
    <3>3. ASSUME NEW d \in Callers, NEW j \in Legs, Stamp(d, j)
          PROVE  d = c /\ j = i
      BY <1>1, <3>3 DEF Stamp, IdInv, TypeOK
    <3>4. ~Restart /\ ~Tick /\ ~UNCHANGED vars /\ \A d \in Callers : ~Return(d)
      BY <1>1 DEF Restart, Tick, Return, vars, Each
    <3> QED BY <1>1, <3>1, <3>2, <3>3, <3>4 DEF Next, Leg, SendOrder, SendBatch
  <2> QED BY <1>1, <2>1, StampNew DEF Stamp
<1>2. IdInv /\ [Next]_vars =>
        [\A c \in Callers : \A i \in Legs :
           pc[c][i] = "stamp" /\ pc'[c][i] = "send" => ids' # ids]_vars
  BY <1>1
<1> QED BY IdInvInit, IdInvStep, <1>2, PTL DEF Spec, IdsUniqueWithinDay

\* The legs of a call whose goroutines have not called wg.Done; p is pc[c].
Going(p) == {i \in Legs : p[i] # "off"}

\* Where a goroutine may be.
Places == {"off", "draw", "stamp", "send", "done"}

\* What a caller may be waiting for.
Requests == {<<>>, <<"GTC">>} \cup Batches

\* Only legs of the running call have a goroutine, and wg counts them.
Counted(r, p, w) ==
  /\ r \in Requests
  /\ Going(p) \subseteq 1 .. Len(r)
  /\ w = Cardinality(Going(p))

\* A goroutine past its send has stored what quickfix answered: an error if
\* the order is not out.
Answered(r, p, e, u) ==
  \A i \in 1 .. Len(r) : p[i] \in {"off", "done"} => e[i] = ~u[i]

WaitInv ==
  /\ TypeOK
  /\ \A c \in Callers : Counted(reqs[c], pc[c], wg[c]) /\ Answered(reqs[c], pc[c], errs[c], out[c])

LEMMA LegsOfRequests ==
  ASSUME NEW r \in Requests
  PROVE  Len(r) \in Nat /\ 1 .. Len(r) \subseteq Legs /\ (r = <<>> <=> Len(r) = 0)
<1>1. CASE r = <<>>
  BY <1>1
<1>2. CASE r = <<"GTC">>
  BY <1>2 DEF Legs
<1>3. CASE r \in Batches
  <2>1. r \in Seq(TIF) /\ r # <<>>
    BY <1>3, OrderSenderAssumption DEF TIF
  <2>2. DOMAIN r = 1 .. Len(r)
    BY <2>1
  <2> QED BY <1>3, <2>1, <2>2 DEF Legs
<1> QED BY <1>1, <1>2, <1>3 DEF Requests

\* Waiting for nobody, a call has every answer.
LEMMA WaitPasses ==
  ASSUME NEW r, NEW p, NEW w, NEW e, NEW u,
         Counted(r, p, w), Answered(r, p, e, u), w = 0
  PROVE  Going(p) = {} /\ \A i \in 1 .. Len(r) : p[i] = "off" /\ e[i] = ~u[i]
<1>1. Len(r) \in Nat /\ 1 .. Len(r) \subseteq Legs
  BY LegsOfRequests DEF Counted
<1>2. IsFiniteSet(1 .. Len(r))
  BY <1>1, FS_Interval
<1>3. IsFiniteSet(Going(p))
  BY <1>2, FS_Subset DEF Counted
<1>4. Going(p) = {}
  BY <1>3, FS_EmptySet DEF Counted
<1> QED BY <1>1, <1>4 DEF Going, Answered

\* wg.Done takes the goroutine out of the count.
LEMMA DoneCounts ==
  ASSUME NEW r, NEW p \in [Legs -> Places], NEW w, NEW i \in Legs,
         Counted(r, p, w), p[i] # "off"
  PROVE  Counted(r, [p EXCEPT ![i] = "off"], w - 1)
<1> DEFINE q == [p EXCEPT ![i] = "off"]
<1>1. Going(q) = Going(p) \ {i} /\ i \in Going(p)
  BY DEF Going
<1>2. IsFiniteSet(Going(p))
  <2>1. IsFiniteSet(1 .. Len(r))
    BY LegsOfRequests, FS_Interval DEF Counted
  <2> QED BY <2>1, FS_Subset DEF Counted
<1>3. Cardinality(Going(p) \ {i}) = Cardinality(Going(p)) - 1
  BY <1>1, <1>2, FS_RemoveElement
<1> QED BY <1>1, <1>3 DEF Counted

\* A goroutine that goes on short of wg.Done stays in the count.
LEMMA GoesOnCounts ==
  ASSUME NEW r, NEW p \in [Legs -> Places], NEW w, NEW i \in Legs, NEW v \in Places,
         Counted(r, p, w), p[i] # "off", v # "off"
  PROVE  Counted(r, [p EXCEPT ![i] = v], w)
<1>1. Going([p EXCEPT ![i] = v]) = Going(p)
  BY DEF Going
<1> QED BY <1>1 DEF Counted

LEMMA CallCounts ==
  ASSUME NEW r \in Requests
  PROVE  LET p == [i \in Legs |-> IF i <= Len(r) THEN "draw" ELSE "off"]
         IN  Counted(r, p, Len(r)) /\ \A e, u : Answered(r, p, e, u)
<1> DEFINE p == [i \in Legs |-> IF i <= Len(r) THEN "draw" ELSE "off"]
<1>1. Len(r) \in Nat /\ 1 .. Len(r) \subseteq Legs
  BY LegsOfRequests
<1>2. Legs \subseteq Nat \ {0}
  BY OrderSenderAssumption DEF Legs
<1>3. Going(p) = 1 .. Len(r)
  BY <1>1, <1>2 DEF Going
<1>4. Cardinality(1 .. Len(r)) = Len(r)
  <2>1. Cardinality(1 .. Len(r)) = IF 1 > Len(r) THEN 0 ELSE Len(r) - 1 + 1
    BY <1>1, FS_Interval
  <2> QED BY <1>1, <2>1
<1> QED BY <1>1, <1>3, <1>4 DEF Counted, Answered

\* No call: nobody to wait for.
LEMMA NoCall ==
  ASSUME NEW p, Going(p) = {}
  PROVE  Counted(<<>>, p, 0) /\ \A e, u : Answered(<<>>, p, e, u)
BY FS_EmptySet DEF Counted, Requests, Answered

LEMMA WaitInvInit == Init => WaitInv
<1> SUFFICES ASSUME Init PROVE WaitInv
  OBVIOUS
<1>1. TypeOK
  BY IdInvInit DEF IdInv
<1>2. ASSUME NEW c \in Callers
      PROVE  reqs[c] = <<>> /\ wg[c] = 0 /\ Going(pc[c]) = {}
  BY DEF Init, Each, Going
<1> QED BY <1>1, <1>2, NoCall DEF WaitInv

LEMMA WaitInvStep ==
  ASSUME WaitInv, [Next]_vars
  PROVE  WaitInv'
<1>0. TypeOK /\ TypeOK'
  BY TypeStep DEF WaitInv
<1> DEFINE Waits(d) == Counted(reqs[d], pc[d], wg[d]) /\ Answered(reqs[d], pc[d], errs[d], out[d])
           Same(d) == /\ reqs'[d] = reqs[d] /\ pc'[d] = pc[d]
                      /\ wg'[d] = wg[d] /\ errs'[d] = errs[d] /\ out'[d] = out[d]
<1>a. \A d \in Callers : Same(d) => Waits(d)'
  BY DEF WaitInv
<1>b. SUFFICES \A d \in Callers : Waits(d)'
  BY <1>0 DEF WaitInv
<1>t. \A d \in Callers : pc[d] \in [Legs -> Places] /\ errs[d] \in [Legs -> BOOLEAN]
                     /\ out[d] \in [Legs -> BOOLEAN]
  BY <1>0 DEF TypeOK, Places
<1>1. CASE UNCHANGED vars
  BY <1>a, <1>1 DEF vars
<1>2. ASSUME NEW c \in Callers, NEW r \in Requests, Call(c, r)
      PROVE  \A d \in Callers : Waits(d)'
  <2>1. reqs'[c] = r /\ wg'[c] = Len(r)
        /\ pc'[c] = [i \in Legs |-> IF i <= Len(r) THEN "draw" ELSE "off"]
    BY <1>0, <1>2 DEF Call, TypeOK
  <2>2. \A d \in Callers \ {c} : Same(d)
    BY <1>0, <1>2 DEF Call, TypeOK
  <2>3. Waits(c)'
    BY <2>1, CallCounts
  <2> QED BY <1>a, <2>2, <2>3
<1>3. ASSUME NEW c \in Callers, NEW i \in Legs,
             DrawSeq(c, i) \/ Stamp(c, i) \/ Send(c, i) \/ Done(c, i)
      PROVE  \A d \in Callers : Waits(d)'
  <2>1. \A d \in Callers \ {c} : Same(d)
    BY <1>0, <1>3 DEF DrawSeq, Stamp, Send, Done, TypeOK
  <2>2. reqs'[c] = reqs[c]
    BY <1>3 DEF DrawSeq, Stamp, Send, Done
  <2>3. CASE DrawSeq(c, i) \/ Stamp(c, i)
    <3>1. PICK v \in {"stamp", "send"} :
            pc[c][i] # "off" /\ pc[c][i] # "done" /\ pc'[c] = [pc[c] EXCEPT ![i] = v]
      BY <1>0, <2>3 DEF DrawSeq, Stamp, TypeOK
    <3>2. wg'[c] = wg[c] /\ errs'[c] = errs[c] /\ out'[c] = out[c]
      BY <2>3 DEF DrawSeq, Stamp
    <3>3. Counted(reqs[c], pc'[c], wg[c])
      <4>1. Counted(reqs[c], pc[c], wg[c]) /\ pc[c] \in [Legs -> Places]
        BY <1>t DEF WaitInv
      <4>2. v \in Places /\ v # "off"
        BY DEF Places
      <4> QED BY <3>1, <4>1, <4>2, GoesOnCounts
    <3>4. Answered(reqs[c], pc'[c], errs[c], out[c])
      BY <1>t, <3>1 DEF WaitInv, Answered
    <3> QED BY <1>a, <2>1, <2>2, <3>2, <3>3, <3>4
  <2>4. CASE Send(c, i)
    <3>1. /\ pc[c][i] = "send" /\ pc'[c] = [pc[c] EXCEPT ![i] = "done"]
          /\ wg'[c] = wg[c]
      BY <1>0, <2>4 DEF Send, TypeOK
    <3>q. PICK queued \in BOOLEAN : /\ errs' = [errs EXCEPT ![c][i] = ~queued]
                                   /\ out' = [out EXCEPT ![c][i] = queued]
      BY <2>4 DEF Send, Queueable
    <3>2. Counted(reqs[c], pc'[c], wg[c])
      <4>1. Counted(reqs[c], pc[c], wg[c]) /\ pc[c] \in [Legs -> Places]
        BY <1>t DEF WaitInv
      <4>2. "done" \in Places /\ "done" # "off"
        BY DEF Places
      <4> QED BY <3>1, <4>1, <4>2, GoesOnCounts
    <3>3. Answered(reqs[c], pc'[c], errs'[c], out'[c])
      <4>1. errs'[c][i] = ~queued /\ out'[c][i] = queued
        BY <1>0, <3>q DEF TypeOK
      <4>2. ASSUME NEW j \in Legs, j # i
            PROVE  errs'[c][j] = errs[c][j] /\ out'[c][j] = out[c][j]
                   /\ pc'[c][j] = pc[c][j]
        BY <1>0, <1>t, <3>1, <3>q, <4>2 DEF TypeOK
      <4>3. 1 .. Len(reqs[c]) \subseteq Legs
        BY LegsOfRequests DEF WaitInv, Counted
      <4>4. Answered(reqs[c], pc[c], errs[c], out[c])
        BY DEF WaitInv
      <4> QED BY <2>2, <4>1, <4>2, <4>3, <4>4 DEF Answered
    <3> QED BY <1>a, <2>1, <2>2, <3>1, <3>2, <3>3
  <2>5. CASE Done(c, i)
    <3>1. /\ pc[c][i] = "done" /\ pc'[c] = [pc[c] EXCEPT ![i] = "off"]
          /\ errs'[c] = errs[c] /\ out'[c] = out[c] /\ wg'[c] = wg[c] - 1
      BY <1>0, <2>5 DEF Done, TypeOK
    <3>2. Counted(reqs[c], pc'[c], wg'[c])
      BY <1>t, <3>1, DoneCounts DEF WaitInv
    <3>3. Answered(reqs[c], pc'[c], errs[c], out[c])
      BY <1>t, <3>1 DEF WaitInv, Answered
    <3> QED BY <1>a, <2>1, <2>2, <3>1, <3>2, <3>3
  <2> QED BY <1>3, <2>3, <2>4, <2>5
<1>4. ASSUME NEW c \in Callers, Return(c)
      PROVE  \A d \in Callers : Waits(d)'
  <2>1. reqs'[c] = <<>> /\ wg'[c] = 0 /\ pc'[c] = pc[c]
    BY <1>0, <1>4 DEF Return, TypeOK
  <2>2. \A d \in Callers \ {c} : Same(d)
    BY <1>0, <1>4 DEF Return, TypeOK
  <2>3. Going(pc[c]) = {}
    BY <1>4, WaitPasses DEF WaitInv, Return
  <2>4. Waits(c)'
    BY <2>1, <2>3, NoCall
  <2> QED BY <1>a, <2>2, <2>4
<1>5. CASE Tick
  BY <1>a, <1>5 DEF Tick
<1>6. CASE Restart
  <2>1. ASSUME NEW d \in Callers
        PROVE  reqs'[d] = <<>> /\ wg'[d] = 0 /\ Going(pc'[d]) = {}
    BY <1>6 DEF Restart, Each, Going
  <2> QED BY <2>1, NoCall
<1>7. <<"GTC">> \in Requests /\ Batches \subseteq Requests
  BY DEF Requests
<1> QED BY <1>1, <1>2, <1>3, <1>4, <1>5, <1>6, <1>7 DEF Next, Leg, SendOrder, SendBatch

\* SendBatch and SendOrder return when every goroutine of the call is gone
\* and a request has an error exactly if its order did not go out.
THEOREM ReturnsComplete == Spec => AnswersComplete
<1>1. ASSUME WaitInv, [Next]_vars, NEW c \in Callers,
             life' = life, reqs[c] # <<>>, reqs'[c] = <<>>
      PROVE  \A i \in 1 .. Len(reqs[c]) : pc[c][i] = "off" /\ errs[c][i] = ~out[c][i]
  <2>1. Return(c)
    <3>1. ~Tick /\ ~UNCHANGED vars
      BY <1>1 DEF Tick, vars
    <3>2. ~Restart
      <4>1. life \in Nat
        BY <1>1 DEF WaitInv, TypeOK
      <4>2. Restart => life' = life + 1
        BY DEF Restart
      <4> QED BY <1>1, <4>1, <4>2
    <3>3. ASSUME NEW d \in Callers, NEW r, Call(d, r)
          PROVE  FALSE
      BY <1>1, <3>3 DEF Call, WaitInv, TypeOK
    <3>4. \A d \in Callers : ~Leg(d)
      BY <1>1 DEF Leg, DrawSeq, Stamp, Send, Done
    <3>5. \A d \in Callers : Return(d) => d = c
      BY <1>1 DEF Return, WaitInv, TypeOK
    <3> QED BY <1>1, <3>1, <3>2, <3>3, <3>4, <3>5 DEF Next, SendOrder, SendBatch
  <2> QED BY <1>1, <2>1, WaitPasses DEF WaitInv, Return
<1>2. WaitInv /\ [Next]_vars =>
        [\A c \in Callers :
           life' = life /\ reqs[c] # <<>> /\ reqs'[c] = <<>> =>
             \A i \in 1 .. Len(reqs[c]) :
               pc[c][i] = "off" /\ errs[c][i] = ~out[c][i]]_vars
  BY <1>1
<1> QED BY WaitInvInit, WaitInvStep, <1>2, PTL DEF Spec, AnswersComplete
=============================================================================
