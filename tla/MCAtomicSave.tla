---------------------------- MODULE MCAtomicSave ----------------------------
(* A small instance of AtomicSave for TLC.                                  *)
EXTENDS AtomicSave, TLC

Symmetry == Permutations(Writers) \union Permutations(Records)
            \union Permutations(Inodes)
==============================================================================
