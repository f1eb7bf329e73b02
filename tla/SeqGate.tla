------------------------------- MODULE SeqGate -------------------------------
(***************************************************************************)
(* What the sequence numbers of the hedge API are for, told without        *)
(* handlers: requests are decided one at a time.  A request without a      *)
(* number (0) is let in; any other is let in if its number is above all    *)
(* that its endpoint let in before, and kept out otherwise.                *)
(***************************************************************************)
EXTENDS Integers

CONSTANTS
  Callers,      \* the requests
  Doors,        \* the endpoints
  Door,         \* Door[c]: the endpoint request c is for
  Number        \* Number[c]: the sequence number it carries

VARIABLES
  high,         \* high[d]: the highest number door d let in
  verdict       \* what was decided of each request

gateVars == <<high, verdict>>

GateInit ==
  /\ high = [d \in Doors |-> 0]
  /\ verdict = [c \in Callers |-> "open"]

Admit(c) ==
  /\ verdict[c] = "open"
  /\ Number[c] = 0 \/ Number[c] > high[Door[c]]
  /\ high' = IF Number[c] = 0 THEN high ELSE [high EXCEPT ![Door[c]] = Number[c]]
  /\ verdict' = [verdict EXCEPT ![c] = "in"]

Refuse(c) ==
  /\ verdict[c] = "open"
  /\ Number[c] # 0 /\ Number[c] <= high[Door[c]]
  /\ verdict' = [verdict EXCEPT ![c] = "out"]
  /\ UNCHANGED high

GateNext == \E c \in Callers : Admit(c) \/ Refuse(c)

GateSpec == GateInit /\ [][GateNext]_gateVars
=============================================================================
