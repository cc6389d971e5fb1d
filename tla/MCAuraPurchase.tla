---------------------------- MODULE MCAuraPurchase ----------------------------
(***************************************************************************)
(* Bounds for TLC.  Both tokens can be bought for one pair of users, which *)
(* they then share, and compete for a batch of one.  The first is also     *)
(* claimed for the reverse pair with the hash of another transaction, and  *)
(* changes hands.                                                          *)
(***************************************************************************)
EXTENDS AuraPurchase, TLC

CONSTANTS u1, u2, t1, t2

MCSales == [t \in {t1, t2} |-> {<<u1, u2>>}]

MCClaims ==
  t1 :> {[buyer |-> u1, subject |-> u2, hash |-> "purchase"],
         [buyer |-> u2, subject |-> u1, hash |-> "other"]}
  @@ t2 :> {[buyer |-> u1, subject |-> u2, hash |-> "purchase"]}
=============================================================================
