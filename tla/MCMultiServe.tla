---------------------------- MODULE MCMultiServe ----------------------------
(* A small instance of MultiServe for TLC.                                  *)
EXTENDS MultiServe
==============================================================================
