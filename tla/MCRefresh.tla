----------------------------- MODULE MCRefresh -----------------------------
(* Instance of Refresh for TLC.                                            *)
EXTENDS Refresh

CONSTANTS d1, d2, a1, a2
=============================================================================
