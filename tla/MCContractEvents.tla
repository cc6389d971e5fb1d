-------------------------- MODULE MCContractEvents --------------------------
(***************************************************************************)
(* Bounds for TLC.  Two streams show every difference between checkpoints, *)
(* two pollers every race of saves, two subjects and pages of two events   *)
(* full pages over one ledger and over several.                            *)
(***************************************************************************)
EXTENDS ContractEvents, TLC

Symmetry == Permutations(Streams) \union Permutations(Pollers) \union Permutations(Subjects)
=============================================================================
