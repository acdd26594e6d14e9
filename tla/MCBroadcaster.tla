--------------------------- MODULE MCBroadcaster ---------------------------
(* Instance of Broadcaster for TLC.                                        *)
EXTENDS Broadcaster, TLC

CONSTANTS p1, p2, a1

Sym == Permutations({p1, p2})
=============================================================================
