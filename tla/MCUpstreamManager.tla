-------------------------- MODULE MCUpstreamManager --------------------------
(* A small instance of UpstreamManager for TLC.                             *)
(* There is no symmetry: the run checks liveness too.                       *)
EXTENDS UpstreamManager
==============================================================================
