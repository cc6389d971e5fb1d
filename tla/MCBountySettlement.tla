------------------------- MODULE MCBountySettlement -------------------------
(***************************************************************************)
(* Bounds for TLC.  Bounties do not share state except the worker that     *)
(* picks one, so one bounty shows what the handlers do to each other and   *)
(* two show how they compete for the worker.                               *)
(***************************************************************************)
EXTENDS BountySettlement, TLC

\* Workers, and upsert handlers, are interchangeable.
Symmetry == Permutations(Workers) \union Permutations(Mirrors)
=============================================================================
