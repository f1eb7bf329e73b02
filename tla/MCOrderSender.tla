---------------------------- MODULE MCOrderSender ----------------------------
(***************************************************************************)
(* OrderSender with two goroutines whose calls overlap, over two processes *)
(* and two days of two milliseconds each.  With nothing added to the       *)
(* headers quickfix refuses every order; with the two names of a session   *)
(* added, the orders of one batch are queued or refused in any mixture.    *)
(***************************************************************************)
EXTENDS OrderSender

\* One request that leaves the time in force to SendBatch and one that asks.
SomeBatches == {<<"none", "IOC">>}

SessionNames == {"TargetCompID", "SenderCompID"}
=============================================================================
