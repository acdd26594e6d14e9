-------------------------------- MODULE MCApi --------------------------------
(* Instance of Api for TLC.                                                *)
EXTENDS Api, TLC

CONSTANTS d1, d2, d3, a1, a2, c1, c2

\* Sound: no property is a liveness property, and only d1 is Configured.
Sym == UNION {Permutations(S) : S \in {{c1, c2}, {a1, a2}, {d2, d3}}}
=============================================================================
