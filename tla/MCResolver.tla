----------------------------- MODULE MCResolver -----------------------------
(* Instance of Resolver for TLC.                                           *)
EXTENDS Resolver, TLC

CONSTANTS d1, d2, s1, s2, a1, a2

Sym == Permutations({d1, d2}) \cup Permutations({s1, s2}) \cup Permutations({a1, a2})
=============================================================================
