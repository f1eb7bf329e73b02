----------------------------- MODULE HedgeServer -----------------------------
(***************************************************************************)
(* ServeHedgeHTTP: the handlers of /hedge/target and /hedge/update_mm.     *)
(* net/http runs each request on a goroutine of its own; what they share   *)
(* is one sequence number per endpoint and the engine.  The engine is only *)
(* an interface here (nothing in src/ implements SetTarget and Wake): it   *)
(* is taken to keep the last target it was given and, when woken, to look  *)
(* at it.  The amounts of a target travel with its side and are left out.  *)
(***************************************************************************)
EXTENDS Integers, FiniteSets

CONSTANTS
  Requests,     \* requests the main market ever makes, repeats included
  Sent,         \* Sent[r]: what request r carries
  Forwards      \* whether the engine takes UpdateMainMarketPNL

Endpoints == {"target", "update_mm"}

\* valid is FALSE for a request that is no POST or has no readable body.
Message == [endpoint : Endpoints, valid : BOOLEAN, seq : Nat,
            type : {"SNAPSHOT", "CLOSE_ALL"}, side : {-1, 0, 1}]

ASSUME HedgeServerAssumption ==
  /\ Sent \in [Requests -> Message]
  /\ Forwards \in BOOLEAN

VARIABLES
  pc,           \* where the handler of each request stands
  prev,         \* prev of each handler's loop
  lastSeq,      \* lastSeq and lastMMSeq
  target,       \* the engine's target, with the request that set it
  seen,         \* history: the target at the last Wake
  pnl           \* the request whose PnL the engine was last told

vars == <<pc, prev, lastSeq, target, seen, pnl>>

NoRequest == "none"

Target == [side : {-1, 0, 1}, seq : Nat, by : Requests \cup {NoRequest}]

NoTarget == [side |-> 0, seq |-> 0, by |-> NoRequest]

Steps == {"new", "load", "cas", "apply", "wake", "ok", "ignored", "error"}

TypeOK ==
  /\ pc \in [Requests -> Steps]
  /\ prev \in [Requests -> Nat]
  /\ lastSeq \in [Endpoints -> Nat]
  /\ target \in Target
  /\ seen \in Target
  /\ pnl \in Requests \cup {NoRequest}

Init ==
  /\ pc = [r \in Requests |-> "new"]
  /\ prev = [r \in Requests |-> 0]
  /\ lastSeq = [e \in Endpoints |-> 0]
  /\ target = NoTarget
  /\ seen = NoTarget
  /\ pnl = NoRequest

At(r, here) == pc[r] = here

Goto(r, there) == pc' = [pc EXCEPT ![r] = there]

Decode(r) ==
  /\ At(r, "new")
  /\ Goto(r, IF Sent[r].valid THEN "load" ELSE "error")
  /\ UNCHANGED <<prev, lastSeq, target, seen, pnl>>

Counter(r) == lastSeq[Sent[r].endpoint]

\* Fault: the number of the last request is let in once more.
StaleLoosely(seq, last) == seq # 0 /\ seq < last

Stale(seq, last) == seq # 0 /\ seq <= last

\* The load of the de-dupe loop, and where it leads.  Both endpoints have the
\* same loop, each on a number of its own.
LoadSeq(r) ==
  /\ At(r, "load")
  /\ prev' = [prev EXCEPT ![r] = Counter(r)]
  /\ Goto(r, CASE Stale(Sent[r].seq, Counter(r)) -> "ignored"
               [] Sent[r].seq = 0                -> "apply"
               [] OTHER                          -> "cas")
  /\ UNCHANGED <<lastSeq, target, seen, pnl>>

\* Fault: a plain store in the place of the compare-and-swap.
StoreSeq(r) ==
  /\ At(r, "cas")
  /\ lastSeq' = [lastSeq EXCEPT ![Sent[r].endpoint] = Sent[r].seq]
  /\ Goto(r, "apply")
  /\ UNCHANGED <<prev, target, seen, pnl>>

\* Fault: a failed swap is tried again without a new load.
SwapSeqAgain(r) ==
  /\ At(r, "cas")
  /\ IF Counter(r) = prev[r]
     THEN /\ lastSeq' = [lastSeq EXCEPT ![Sent[r].endpoint] = Sent[r].seq]
          /\ Goto(r, "apply")
     ELSE UNCHANGED <<pc, lastSeq>>
  /\ UNCHANGED <<prev, target, seen, pnl>>

SwapSeq(r) ==
  /\ At(r, "cas")
  /\ IF Counter(r) = prev[r]
     THEN /\ lastSeq' = [lastSeq EXCEPT ![Sent[r].endpoint] = Sent[r].seq]
          /\ Goto(r, "apply")
     ELSE Goto(r, "load") /\ UNCHANGED lastSeq
  /\ UNCHANGED <<prev, target, seen, pnl>>

\* What SetTarget is given.
TargetOf(r) ==
  [side |-> IF Sent[r].type = "CLOSE_ALL" THEN 0 ELSE Sent[r].side,
   seq  |-> Sent[r].seq, by |-> r]

Wakes(r) == Sent[r].type # "CLOSE_ALL"

\* Fault: the engine is woken for a target it is given later.
SetTargetAfterWake(r) ==
  /\ At(r, "apply")
  /\ Sent[r].endpoint = "target"
  /\ target' = TargetOf(r)
  /\ seen' = IF Wakes(r) THEN target ELSE seen
  /\ Goto(r, "ok")
  /\ UNCHANGED <<prev, lastSeq, pnl>>

SetTarget(r) ==
  /\ At(r, "apply")
  /\ Sent[r].endpoint = "target"
  /\ target' = TargetOf(r)
  /\ Goto(r, IF Wakes(r) THEN "wake" ELSE "ok")
  /\ UNCHANGED <<prev, lastSeq, seen, pnl>>

Wake(r) ==
  /\ At(r, "wake")
  /\ seen' = target
  /\ Goto(r, "ok")
  /\ UNCHANGED <<prev, lastSeq, target, pnl>>

UpdateMainMarketPNL(r) ==
  /\ At(r, "apply")
  /\ Sent[r].endpoint = "update_mm"
  /\ pnl' = IF Forwards THEN r ELSE pnl
  /\ Goto(r, "ok")
  /\ UNCHANGED <<prev, lastSeq, target, seen>>

Handle(r) == \/ Decode(r) \/ LoadSeq(r) \/ SwapSeq(r)
             \/ SetTarget(r) \/ Wake(r) \/ UpdateMainMarketPNL(r)

Next == \E r \in Requests : Handle(r)

\* The main market owes no request; a handler that began runs to its end.
Spec ==
  /\ Init /\ [][Next]_vars
  /\ \A r \in Requests : WF_vars(Handle(r) /\ ~At(r, "new"))

(***************************************************************************)
(* Safety.                                                                 *)
(***************************************************************************)

LetIn(r) == pc[r] \in {"apply", "wake", "ok"}

SameNumber(r, q) ==
  Sent[r].endpoint = Sent[q].endpoint /\ Sent[r].seq = Sent[q].seq

\* "seq de-dupe": however the loops of the handlers interleave, of the
\* requests of one endpoint with one number other than 0 only one gets
\* through to the engine.
OncePerNumber ==
  \A r, q \in Requests :
    LetIn(r) /\ LetIn(q) /\ SameNumber(r, q) /\ Sent[r].seq # 0 => r = q

\* Once all is quiet, a target that is not a close has been seen by a woken
\* engine: no wake-up is lost between the handlers.
TargetsAreSeen ==
  (\A r \in Requests : pc[r] \in {"new", "ok", "ignored", "error"})
    => target.by = NoRequest \/ seen = target \/ ~Wakes(target.by)

(***************************************************************************)
(* The abstract view.                                                      *)
(***************************************************************************)
Verdicts ==
  [r \in Requests |->
     IF LetIn(r) THEN "in" ELSE IF At(r, "ignored") THEN "out" ELSE "open"]

Gate == INSTANCE SeqGate WITH
          Callers <- Requests, Doors <- Endpoints,
          Door <- [r \in Requests |-> Sent[r].endpoint],
          Number <- [r \in Requests |-> Sent[r].seq],
          high <- lastSeq, verdict <- Verdicts

\* The compare-and-swap loop is as good as deciding each request at once:
\* none is let in below a number that was, none is ignored that is above all.
ImplementsGate == Gate!GateSpec

(***************************************************************************)
(* Liveness.                                                               *)
(***************************************************************************)

\* The loop ends: a swap fails only because another request got through.
EveryRequestAnswered ==
  \A r \in Requests :
    ~At(r, "new") ~> pc[r] \in {"ok", "ignored", "error"}

(***************************************************************************)
(* What the README says of the API, and the code does not do.              *)
(***************************************************************************)

\* Responses are "ignored":"stale_seq" "if stale": a target that was let in
\* never takes the place of a newer one.
NewestTargetStays ==
  [][target' # target /\ target'.seq # 0 => target'.seq > target.seq]_vars
=============================================================================
