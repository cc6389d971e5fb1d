------------------------------ MODULE MCServices ------------------------------
(***************************************************************************)
(* Bounds for TLC.                                                         *)
(***************************************************************************)
EXTENDS Services

\* What the requests for accounts ask for: two wallets and two usernames that
\* are free, taken or given up, with and without an avatar.
MCOrders ==
  {[kind |-> "register", wallet |-> "w1", username |-> "n1", change |-> "new"],
   [kind |-> "register", wallet |-> "w2", username |-> "n2", change |-> "keep"],
   [kind |-> "update", wallet |-> "w1", username |-> "n2", change |-> "new"],
   [kind |-> "update", wallet |-> "w1", username |-> NoUsername, change |-> "remove"]}
=============================================================================
