----------------------------- MODULE OrderSender -----------------------------
(***************************************************************************)
(* Package fix, sending side: SendOrder and SendBatch, called by any       *)
(* number of goroutines.  SendBatch starts a goroutine for each request    *)
(* and waits for all of them; SendOrder sends its one order on the         *)
(* caller's goroutine and is a batch of one here, whose error is logged.   *)
(*                                                                         *)
(* An order is identified by its ClOrdID: prefix, UTC time of day to the   *)
(* millisecond, number drawn from a counter that begins at 0 with every    *)
(* process.  The prefix is left out: orders that differ without it differ  *)
(* with it.  A request is abstracted to the time in force it asks for.     *)
(***************************************************************************)
EXTENDS Integers, Sequences, FiniteSets

CONSTANTS
  Callers,      \* the goroutines that send orders
  Batches,      \* what SendBatch may be called with
  Added,        \* fields the sender adds to an order's header: {} in the code
  MsPerDay,     \* milliseconds in a day: the time of day wraps
  MaxDays, MaxLives, MaxOrders  \* bounds: days, processes, orders

ASSUME OrderSenderAssumption ==
  /\ Batches \subseteq Seq({"none", "IOC", "GTC"}) \ {<<>>}
  /\ MsPerDay \in Nat \ {0}
  /\ MaxDays \in Nat /\ MaxLives \in Nat /\ MaxOrders \in Nat

VARIABLES
  now,      \* wall clock: day, and millisecond of the day
  life,     \* history: processes started so far
  born,     \* history: when the running one was
  orders,   \* orders asked for so far
  seq,      \* the counter
  reqs,     \* reqs[c]: requests of c's running call, <<>> if there is none
  pc,       \* pc[c][i]: where the goroutine of request i is
  num,      \* num[c][i]: the number it drew, until it stamps it
  errs,     \* errs[c][i]: an error was stored for request i
  out,      \* history: out[c][i]: the order of request i is with the session
  wg,       \* wg[c]: goroutines the call still waits for
  ids       \* history: the identifiers of all orders ever made

vars == <<now, life, born, orders, seq, reqs, pc, num, errs, out, wg, ids>>

TIF == {"none", "IOC", "GTC"}

\* The legs of any call; SendOrder has one.
Legs == {1} \cup UNION {DOMAIN r : r \in Batches}

Time == [day : Nat, ms : 0 .. MsPerDay - 1]

Before(s, t) == s.day < t.day \/ (s.day = t.day /\ s.ms < t.ms)

ClOrdID == [at : Time, n : Nat]

TypeOK ==
  /\ now \in Time /\ born \in Time
  /\ life \in Nat /\ orders \in Nat /\ seq \in Nat
  /\ reqs \in [Callers -> Seq(TIF)]
  /\ pc \in [Callers -> [Legs -> {"off", "draw", "stamp", "send", "done"}]]
  /\ num \in [Callers -> [Legs -> Nat]]
  /\ errs \in [Callers -> [Legs -> BOOLEAN]]
  /\ out \in [Callers -> [Legs -> BOOLEAN]]
  /\ wg \in [Callers -> Int]
  /\ ids \subseteq ClOrdID

Each(v) == [c \in Callers |-> [i \in Legs |-> v]]

Midnight == [day |-> 0, ms |-> 0]

Init ==
  /\ now = Midnight /\ born = Midnight
  /\ life = 1 /\ orders = 0 /\ seq = 0
  /\ reqs = [c \in Callers |-> <<>>]
  /\ pc = Each("off") /\ num = Each(0)
  /\ errs = Each(FALSE) /\ out = Each(FALSE)
  /\ wg = [c \in Callers |-> 0]
  /\ ids = {}

\* Fault: wg.Add is left to the goroutines.
CallAddsLate(c, r) ==
  /\ reqs[c] = <<>>
  /\ orders + Len(r) <= MaxOrders
  /\ orders' = orders + Len(r)
  /\ reqs' = [reqs EXCEPT ![c] = r]
  /\ wg' = [wg EXCEPT ![c] = 0]
  /\ pc' = [pc EXCEPT ![c] = [i \in Legs |-> IF i <= Len(r) THEN "draw" ELSE "off"]]
  /\ UNCHANGED <<now, life, born, seq, num, errs, out, ids>>

\* An empty batch returns at once and changes nothing.
Call(c, r) ==
  /\ reqs[c] = <<>>
  /\ orders + Len(r) <= MaxOrders
  /\ orders' = orders + Len(r)
  /\ reqs' = [reqs EXCEPT ![c] = r]
  /\ wg' = [wg EXCEPT ![c] = Len(r)]
  /\ pc' = [pc EXCEPT ![c] = [i \in Legs |-> IF i <= Len(r) THEN "draw" ELSE "off"]]
  /\ UNCHANGED <<now, life, born, seq, num, errs, out, ids>>

SendOrder(c) == Call(c, <<"GTC">>)

SendBatch(c) == \E r \in Batches : Call(c, r)

\* newClOrdID: the number first, by an atomic add ...
DrawSeq(c, i) ==
  /\ pc[c][i] = "draw"
  /\ seq' = seq + 1
  /\ num' = [num EXCEPT ![c][i] = seq + 1]
  /\ pc' = [pc EXCEPT ![c][i] = "stamp"]
  /\ UNCHANGED <<now, life, born, orders, reqs, errs, out, wg, ids>>

\* Fault: the identifier is the number alone.
StampNumberOnly(c, i) ==
  /\ pc[c][i] = "stamp"
  /\ ids' = ids \cup {[at |-> [now EXCEPT !.ms = 0], n |-> num[c][i]]}
  /\ num' = [num EXCEPT ![c][i] = 0]
  /\ pc' = [pc EXCEPT ![c][i] = "send"]
  /\ UNCHANGED <<now, life, born, orders, seq, reqs, errs, out, wg>>

\* ... then the time, by when others may have drawn theirs.
Stamp(c, i) ==
  /\ pc[c][i] = "stamp"
  /\ ids' = ids \cup {[at |-> now, n |-> num[c][i]]}
  /\ num' = [num EXCEPT ![c][i] = 0]
  /\ pc' = [pc EXCEPT ![c][i] = "send"]
  /\ UNCHANGED <<now, life, born, orders, seq, reqs, errs, out, wg>>

\* The fields newordersingle.New puts in the header, and those the sender does.
Header == {"BeginString", "MsgType"} \cup Added

\* quickfix.Send looks for the session these fields of the header name and
\* answers an error if one is missing.  Given all three it queues the order
\* with that session, or answers that there is none or that it cannot.
Queueable ==
  IF {"BeginString", "TargetCompID", "SenderCompID"} \subseteq Header
  THEN BOOLEAN ELSE {FALSE}

\* Fault: the error path returns without wg.Done.
SendNotDone(c, i) ==
  /\ pc[c][i] = "send"
  /\ \E queued \in Queueable :
       /\ errs' = [errs EXCEPT ![c][i] = ~queued]
       /\ out' = [out EXCEPT ![c][i] = queued]
       /\ pc' = [pc EXCEPT ![c][i] = IF queued THEN "done" ELSE "off"]
  /\ UNCHANGED <<now, life, born, orders, seq, reqs, num, wg, ids>>

\* Each order is answered on its own, whatever becomes of the others.
Send(c, i) ==
  /\ pc[c][i] = "send"
  /\ \E queued \in Queueable :
       /\ errs' = [errs EXCEPT ![c][i] = ~queued]
       /\ out' = [out EXCEPT ![c][i] = queued]
  /\ pc' = [pc EXCEPT ![c][i] = "done"]
  /\ UNCHANGED <<now, life, born, orders, seq, reqs, num, wg, ids>>

\* The deferred wg.Done.
Done(c, i) ==
  /\ pc[c][i] = "done"
  /\ pc' = [pc EXCEPT ![c][i] = "off"]
  /\ wg' = [wg EXCEPT ![c] = @ - 1]
  /\ UNCHANGED <<now, life, born, orders, seq, reqs, num, errs, out, ids>>

\* wg.Wait passes; from here on errs is the caller's.
Return(c) ==
  /\ reqs[c] # <<>>
  /\ wg[c] = 0
  /\ reqs' = [reqs EXCEPT ![c] = <<>>]
  /\ errs' = [errs EXCEPT ![c] = [i \in Legs |-> FALSE]]
  /\ out' = [out EXCEPT ![c] = [i \in Legs |-> FALSE]]
  /\ UNCHANGED <<now, life, born, orders, seq, pc, num, wg, ids>>

NextMs == IF now.ms + 1 < MsPerDay THEN [now EXCEPT !.ms = @ + 1]
          ELSE [day |-> now.day + 1, ms |-> 0]

Tick ==
  /\ NextMs.day < MaxDays
  /\ now' = NextMs
  /\ UNCHANGED <<life, born, orders, seq, reqs, pc, num, errs, out, wg, ids>>

\* The process dies with the calls it had and another one starts: seq is an
\* ordinary variable.  Authentication, the universe and the logon take more
\* than a millisecond before that one can send.
Restart ==
  /\ life < MaxLives
  /\ NextMs.day < MaxDays
  /\ now' = NextMs /\ born' = NextMs
  /\ life' = life + 1
  /\ seq' = 0
  /\ reqs' = [c \in Callers |-> <<>>]
  /\ pc' = Each("off") /\ num' = Each(0)
  /\ errs' = Each(FALSE) /\ out' = Each(FALSE)
  /\ wg' = [c \in Callers |-> 0]
  /\ UNCHANGED <<orders, ids>>

Leg(c) == \E i \in Legs : DrawSeq(c, i) \/ Stamp(c, i) \/ Send(c, i) \/ Done(c, i)

Next ==
  \/ \E c \in Callers : SendOrder(c) \/ SendBatch(c) \/ Leg(c) \/ Return(c)
  \/ Tick
  \/ Restart

\* Fairness is that of the Go scheduler; nobody owes a call.
Spec == Init /\ [][Next]_vars /\ \A c \in Callers : WF_vars(Leg(c) \/ Return(c))

(***************************************************************************)
(* Properties.                                                             *)
(***************************************************************************)

\* Each order gets a ClOrdID no order had before on that day, whichever
\* goroutines draw and stamp in whatever order and however often the process
\* is restarted.  From one day to the next identifiers do come back.
IdsUniqueWithinDay ==
  [][\A c \in Callers : \A i \in Legs :
       pc[c][i] = "stamp" /\ pc'[c][i] = "send" => ids' # ids]_vars

\* What SendBatch returns is complete and tells the legs apart: none of its
\* goroutines is still going to store an error, and a request has an error
\* exactly if its order did not go out, however many of the others did.
AnswersComplete ==
  [][\A c \in Callers :
       life' = life /\ reqs[c] # <<>> /\ reqs'[c] = <<>> =>
         \A i \in 1 .. Len(reqs[c]) :
           pc[c][i] = "off" /\ errs[c][i] = ~out[c][i]]_vars

\* Every call returns, unless the process dies: wg.Done is never skipped.
CallsReturn == \A c \in Callers : reqs[c] # <<>> ~> reqs[c] = <<>>

(***************************************************************************)
(* What the comments of sender.go say, and the code does not do.           *)
(***************************************************************************)

\* "SendOrder sends a NewOrderSingle", "SendBatch sends multiple IOC orders",
\* "nil if success": some order of a call is sent.
SomeOrderSent ==
  [][\A c \in Callers :
       life' = life /\ reqs[c] # <<>> /\ reqs'[c] = <<>> =>
         \E i \in 1 .. Len(reqs[c]) : ~errs[c][i]]_vars
=============================================================================
