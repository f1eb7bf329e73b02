---------------------------- MODULE MCHedgeServer ----------------------------
(***************************************************************************)
(* HedgeServer with a few requests, chosen to race: an older and a newer   *)
(* target, the newer one sent twice, a close without a number, a PnL       *)
(* update, and a request that cannot be read.                              *)
(***************************************************************************)
EXTENDS HedgeServer

Post(endpoint, seq, type, side) ==
  [endpoint |-> endpoint, valid |-> TRUE, seq |-> seq, type |-> type, side |-> side]

MCSent ==
  [long1   |-> Post("target", 1, "SNAPSHOT", 1),
   short2  |-> Post("target", 2, "SNAPSHOT", -1),
   again2  |-> Post("target", 2, "SNAPSHOT", -1),
   close   |-> Post("target", 0, "CLOSE_ALL", 0),
   pnl1    |-> Post("update_mm", 1, "SNAPSHOT", 0),
   garbled |-> [Post("target", 0, "SNAPSHOT", 0) EXCEPT !.valid = FALSE]]

MCRequests == DOMAIN MCSent
=============================================================================
