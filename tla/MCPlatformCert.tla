--------------------------- MODULE MCPlatformCert ---------------------------
(* A small instance of PlatformCert for TLC.                                *)
EXTENDS PlatformCert
==============================================================================
