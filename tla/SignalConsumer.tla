---------------------------- MODULE SignalConsumer ---------------------------
(***************************************************************************)
(* The goroutine StartEngine starts to consume the signals channel: it     *)
(* writes the alert to the log, hands it to the notifier for at most two   *)
(* seconds, ignores the outcome and takes the next signal.  The alert is   *)
(* abstracted to the trade it tells the operator to make.                  *)
(***************************************************************************)
EXTENDS BoxEngine

VARIABLES
  delivered,    \* history: the signals taken, in order
  alert         \* the alert being sent, or NoAlert

consumerVars == <<delivered, alert>>

NoAlert == [buy |-> {}, sell |-> {}]

\* The four lines of the message: always those of a long box.
AlertText(s) ==
  [buy |-> {s.box["lc"], s.box["hp"]}, sell |-> {s.box["hc"], s.box["lp"]}]

ConsumerTypeOK ==
  /\ delivered \in Seq(Signal)
  /\ alert \in [buy : SUBSET Idx, sell : SUBSET Idx]

ConsumerInit ==
  /\ delivered = <<>>
  /\ alert = NoAlert
\* Fault: the consumer waits for two signals to report.
TakeSignalBatched ==
  /\ alert = NoAlert
  /\ Len(signals) >= 2
  /\ delivered' = Append(delivered, Head(signals))
  /\ alert' = AlertText(Head(signals))
  /\ signals' = Tail(signals)
  /\ UNCHANGED <<pc, cur, scan, box, snap, loaded, lastCheck, mask, resets,
                 emitted, book, index, clock, updates>>

TakeSignal ==
  /\ alert = NoAlert
  /\ signals # <<>>
  /\ delivered' = Append(delivered, Head(signals))
  /\ alert' = AlertText(Head(signals))
  /\ signals' = Tail(signals)
  /\ UNCHANGED <<pc, cur, scan, box, snap, loaded, lastCheck, mask, resets,
                 emitted, book, index, clock, updates>>

\* ntf.Send returned: delivered, refused or timed out, it is all the same.
AlertDone ==
  /\ alert # NoAlert
  /\ alert' = NoAlert
  /\ UNCHANGED <<delivered, engineVars, book, index, clock, updates>>

ConsumerNext == TakeSignal \/ AlertDone
=============================================================================
