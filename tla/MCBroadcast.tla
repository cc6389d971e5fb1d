----------------------------- MODULE MCBroadcast -----------------------------
(***************************************************************************)
(* Bounds for TLC.  Three requests and a cleanup timer give every triple   *)
(* of racing handlers; with a single client id two creations collide on    *)
(* the unique index.  The liveness run has two client ids, so that two     *)
(* drafts wait for a cleanup whose batch holds one.                        *)
(***************************************************************************)
EXTENDS Broadcast, TLC

Symmetry ==
  Permutations(Ids) \union Permutations(Users) \union Permutations(Keys)
    \union Permutations(Contents) \union Permutations(Requests)
=============================================================================
