----------------------------- MODULE MCResolveX -----------------------------
(* Instance of ResolveX for TLC.                                           *)
EXTENDS ResolveX

CONSTANTS d1, d2, a1, a2, p1, p2
=============================================================================
