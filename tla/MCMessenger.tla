----------------------------- MODULE MCMessenger -----------------------------
(***************************************************************************)
(* Bounds for TLC.  Two conversations of the same sender let one           *)
(* clientMessageId meet itself in another conversation.                    *)
(***************************************************************************)
EXTENDS Messenger, TLC

Symmetry == Permutations(Requests)
=============================================================================
