----------------------------- MODULE RouteTable -----------------------------
(***************************************************************************)
(* What the store promises to the routing side, with no counter and no     *)
(* message: every domain holds a set of addresses, and between two calls   *)
(* the announced set is exactly the union of what the domains hold.        *)
(* Module Store implements it with reference counts and delta messages.    *)
(***************************************************************************)
CONSTANTS Domain,     \* the domain names that may be entered
          Address,    \* the IP addresses a name may resolve to
          Configured  \* the names the process starts with

VARIABLES held,       \* the names entered, each with the addresses it holds
          busy,       \* TRUE while a call owns the store
          announced   \* the addresses announced to the routing side

vars == <<held, busy, announced>>

\* The addresses that should be announced when h is what the domains hold.
Wanted(h) == UNION {h[d] : d \in DOMAIN h}

\* h with domain d holding S.
Holding(h, d, S) == [x \in DOMAIN h \cup {d} |-> IF x = d THEN S ELSE h[x]]

\* h without domain d.
Without(h, d) == [x \in DOMAIN h \ {d} |-> h[x]]

Init == /\ held = [d \in Configured |-> {}]
        /\ busy = FALSE
        /\ announced = {}

\* A call takes the store.
Begin == /\ ~busy
         /\ busy' = TRUE
         /\ UNCHANGED <<held, announced>>

\* One name is entered, re-resolved or dropped.  The call may end with this
\* step only if nothing is left to announce.
Change(d) == /\ held' \in {Without(held, d)}
                            \cup {Holding(held, d, S) : S \in SUBSET Address}
             /\ busy' \in BOOLEAN
             /\ busy' \/ announced = Wanted(held')
             /\ UNCHANGED announced

\* A call ends, and whatever it changed is announced.
Release == /\ busy
           /\ busy' = FALSE
           /\ announced' = Wanted(held)
           /\ UNCHANGED held

Next == \/ Begin
        \/ \E d \in Domain : Change(d)
        \/ Release

Spec == Init /\ [][Next]_vars
=============================================================================
