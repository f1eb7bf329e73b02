----------------------------- MODULE MCLifecycle -----------------------------
(***************************************************************************)
(* Lifecycle with one option whose sides come and go, in environments      *)
(* that lack the secret, name a strategy, name nothing else.               *)
(***************************************************************************)
EXTENDS Lifecycle

Login == {"DERIBIT_CLIENT_ID", "DERIBIT_CLIENT_SECRET"}

OneLevel == {[px |-> 10, qty |-> 1]}

SomeEnvironments ==
  {{"DERIBIT_CLIENT_ID", "terminal"}, Login \cup {"STRATEGY_NUM", "terminal"},
   Login \cup {"TELEGRAM_BOT_TOKEN"}}

ASSUME LimitsLeaveRoom == RoomForTop
=============================================================================
