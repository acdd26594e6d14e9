--------------------------------- MODULE Api ---------------------------------
(***************************************************************************)
(* internal/api/router.go: the requests of clients of the admin interface, *)
(* each in a goroutine of its own, against one another and against the     *)
(* resolver's Publish.  GET changes nothing and is left out.               *)
(***************************************************************************)
EXTENDS Store

CONSTANT Client  \* the clients of the admin interface

VARIABLES at,      \* per client: "free", its method, or "call"
          arg,     \* the names of its request
          holder,  \* the client whose call holds the write lock, if any
          ledger   \* history: per name, what the answers add up to

requests == <<at, arg, holder>>
avars    == <<vars, requests, ledger>>

Method == {"POST", "PUT", "DELETE"}

ApiInit ==
    /\ Init
    /\ at = [c \in Client |-> "free"]
    /\ arg = [c \in Client |-> <<>>]
    /\ holder = {}
    /\ ledger = [d \in Domain |-> IF d \in Configured THEN 1 ELSE 0]

\* Enters and removes names in the ledger.
Account(new, old) ==
    ledger' = [d \in Domain |-> ledger[d] + (IF d \in new THEN 1 ELSE 0)
                                          - (IF d \in old THEN 1 ELSE 0)]

Answer(c) == /\ at' = [at EXCEPT ![c] = "free"]
             /\ arg' = [arg EXCEPT ![c] = <<>>]

Hold(c) == /\ at' = [at EXCEPT ![c] = "call"]
           /\ holder' = {c}
           /\ UNCHANGED arg

-----------------------------------------------------------------------------
(* Requests: arg is the name of the path, then the name in the body.       *)

Ask(c, m, names) ==
    /\ at[c] = "free"
    /\ at' = [at EXCEPT ![c] = m]
    /\ arg' = [arg EXCEPT ![c] = names]
    /\ UNCHANGED <<vars, holder, ledger>>

\* The body cannot be decoded, or its name is not valid: 500 or 400.
Invalid(c) ==
    /\ at[c] \in {"POST", "PUT"}
    /\ Answer(c)
    /\ UNCHANGED <<vars, holder, ledger>>

\* ErrExist or ErrNotFound: 400 or 404.
Refused(c) ==
    /\ pc = "idle"
    /\ \/ at[c] = "POST" /\ arg[c][1] \in Known
       \/ at[c] = "PUT" /\ (arg[c][2] \in Known \/ arg[c][1] \notin Known)
       \/ at[c] = "DELETE" /\ arg[c][1] \notin Known
    /\ Answer(c)
    /\ UNCHANGED <<vars, holder, ledger>>

\* 201.
Post(c) ==
    /\ at[c] = "POST"
    /\ Create(arg[c][1])
    /\ Answer(c)
    /\ Account({arg[c][1]}, {})
    /\ UNCHANGED holder

\* A DELETE or a PUT has the write lock.
CallDelete(c) == at[c] = "DELETE" /\ Delete(arg[c][1])
CallUpdate(c) == at[c] = "PUT" /\ UpdateDrop(arg[c][1], arg[c][2])

\* 202 when the call returns without an error.
Accepted(c) == Account({arg[c][i] : i \in DOMAIN arg[c] \cap {2}}, {arg[c][1]})

Call(c) ==
    /\ CallDelete(c) \/ CallUpdate(c)
    /\ IF pc' = "idle" THEN Answer(c) /\ Accepted(c) /\ UNCHANGED holder
                       ELSE Hold(c) /\ UNCHANGED ledger

\* Mutant: a call that is over has not given up the lock.
ContinueKeepsLock(c) ==
    /\ holder = {c}
    /\ UpdateWrite \/ Broadcast
    /\ IF pc' = "idle"
       THEN Answer(c) /\ UNCHANGED holder /\ Accepted(c)
       ELSE UNCHANGED <<requests, ledger>>

\* The steps of a call that has begun.  An Update that found its new name
\* taken would be answered with 400.
Continue(c) ==
    /\ holder = {c}
    /\ UpdateWrite \/ Broadcast
    /\ IF pc' = "idle"
       THEN /\ Answer(c)
            /\ holder' = {}
            /\ IF todo \cap Known = {} THEN Accepted(c) ELSE UNCHANGED ledger
       ELSE UNCHANGED <<requests, ledger>>

-----------------------------------------------------------------------------
(* The resolver, and the clock.                                            *)

\* What Publish enters is entered in the ledger too.
Resolver ==
    /\ holder = {}
    /\ \/ \E batch \in SUBSET Domain : PublishLock(batch)
       \/ \E d \in todo, rec \in Records, ttl \in TTL : PublishOne(d, rec, ttl)
       \/ PublishDone
       \/ Broadcast
    /\ Account(Known' \ Known, {})
    /\ UNCHANGED requests

Clock == Tick /\ UNCHANGED <<requests, ledger>>

Names == {<<d>> : d \in Domain}
Pairs == Domain \X Domain

ApiNext ==
    \/ \E c \in Client :
        \/ \E m \in {"POST", "DELETE"}, n \in Names : Ask(c, m, n)
        \/ \E n \in Pairs : Ask(c, "PUT", n)
        \/ Invalid(c) \/ Refused(c) \/ Post(c) \/ Call(c) \/ Continue(c)
    \/ Resolver
    \/ Clock

ApiSpec == ApiInit /\ [][ApiNext]_avars

-----------------------------------------------------------------------------
(* Properties.                                                             *)

\* The type of what this module adds to the state of Store.
ApiTypeOK ==
    /\ at \in [Client -> Method \cup {"free", "call"}]
    /\ arg \in [Client -> {<<>>} \cup Names \cup Pairs]
    /\ holder \subseteq Client /\ (pc = "idle" => holder = {})
    /\ ledger \in [Domain -> Int]

\* While no client's call holds the lock the store knows the names that the
\* answers (201, 202, 400, 404) and the resolver account for: a refused request
\* has changed nothing, an accepted one exactly what it says, and of two
\* clients that enter the same name one is refused.
AnswersAreTrue ==
    holder = {} => \A d \in Domain : ledger[d] = IF d \in Known THEN 1 ELSE 0

-----------------------------------------------------------------------------
(* The invariant that every step preserves, with that of Store.            *)

\* What a client asks for, and that the one call under way is the holder's.
Requests ==
    /\ \A c \in Client : at[c] \in {"POST", "DELETE"} => arg[c] \in Names
    /\ \A c \in Client : at[c] = "PUT" => arg[c] \in Pairs
    /\ \A c \in Client : at[c] = "call" <=> c \in holder
    /\ \A c, e \in holder : c = e

InStore(d) == IF d \in Known THEN 1 ELSE 0

\* Where the ledger and the store differ by the names that the call under way
\* has dropped and entered so far.
Balance(old, new) ==
    \A d \in Domain : ledger[d] = InStore(d) + (IF d = old THEN 1 ELSE 0)
                                            - (IF d \in new THEN 1 ELSE 0)

\* A DELETE or a PUT between its first Compute and its answer.
CallUnderWay ==
    \A c \in holder :
        \/ /\ arg[c] \in Names /\ pc = "broadcast"
           /\ Balance(arg[c][1], {})
        \/ /\ arg[c] \in Pairs /\ pc = "update"
           /\ todo = {arg[c][2]} /\ arg[c][2] \notin Known
           /\ Balance(arg[c][1], {})
        \/ /\ arg[c] \in Pairs /\ pc = "broadcast"
           /\ Balance(arg[c][1], {arg[c][2]})

AInv == ApiTypeOK /\ Requests /\ AnswersAreTrue /\ CallUnderWay
=============================================================================
