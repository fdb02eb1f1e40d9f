---------------------------- MODULE MCWardRecord ----------------------------
(* A small instance of WardRecord for TLC.                                  *)
(* There is no symmetry: the run checks liveness too.                       *)
EXTENDS WardRecord
==============================================================================
