-------------------------- MODULE MCDraftActivation --------------------------
(* A small instance of DraftActivation for TLC.                             *)
EXTENDS DraftActivation, TLC

Symmetry == Permutations(Procs) \union Permutations(Drafts)
==============================================================================
