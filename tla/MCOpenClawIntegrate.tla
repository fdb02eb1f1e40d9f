------------------------ MODULE MCOpenClawIntegrate ------------------------
(* A small instance of OpenClawIntegrate for TLC.                           *)
EXTENDS OpenClawIntegrate, TLC

Symmetry == Permutations(Procs) \union Permutations(Origins)
==============================================================================
