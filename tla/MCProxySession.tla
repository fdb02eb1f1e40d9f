--------------------------- MODULE MCProxySession ---------------------------
(* A small instance of ProxySession for TLC.                                *)
(* There is no symmetry: the run checks liveness too.                       *)
EXTENDS ProxySession
==============================================================================
