--------------------------- MODULE MC_Connections ---------------------------
(* Two connects of the same account, the health check, an action and a      *)
(* disconnect.                                                              *)
EXTENDS Connections, TLC

CONSTANTS c1, c2, a1, d1, h
=============================================================================
