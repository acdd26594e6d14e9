------------------------------- MODULE Store -------------------------------
(***************************************************************************)
(* internal/storage: the cache of domains, the reference counts of their   *)
(* addresses, and the calls that change both.                              *)
(*                                                                         *)
(* Delete, Update and Publish hold the write lock of ipItems from their    *)
(* first statement to their return, the Broadcast included.  Each          *)
(* domains.Compute and each Broadcast is a step of its own, because        *)
(* readers that take no lock (the iterator returned by List) and the clock *)
(* see the states in between.  Calls refused with ErrExist or ErrNotFound  *)
(* change nothing and are not actions.                                     *)
(*                                                                         *)
(* Time is what is left of it: a record or a domain has a number of ticks  *)
(* to live, and is expired at 0 (time.Until(t) <= 0).                      *)
(***************************************************************************)
EXTENDS Integers, FiniteSets, Functions

CONSTANTS Domain,      \* the domain names that may be entered
          Address,     \* the IP addresses a name may resolve to
          Configured,  \* the names given to New
          RecordLife,  \* ticks a freshly resolved address is valid
          MaxTTL       \* ticks the longest DNS answer is valid

ASSUME StoreAssumption ==
    /\ IsFiniteSet(Domain)
    /\ Configured \subseteq Domain
    /\ RecordLife \in Nat
    /\ MaxTTL \in Nat

VARIABLES domains,   \* otter cache: domain -> [ext, expire]
          list,      \* ipItems.list: address -> count
          pc,        \* where the call that holds the write lock stands
          todo,      \* the domains that call has still to write
          msg,       \* the UpdateMessage that call is building
          announced  \* what the messages handed to Broadcast add up to

vars == <<domains, list, pc, todo, msg, announced>>

-----------------------------------------------------------------------------
(* Data.                                                                   *)

Records == UNION {[S -> 0..RecordLife] : S \in SUBSET Address}
TTL     == 0..MaxTTL
Item    == [ext : Records, expire : TTL]
Message == [ToUpdate : SUBSET Address, ToRemove : SUBSET Address]

NoRecords == [a \in {} |-> 0]
NewItem   == [ext |-> NoRecords, expire |-> 0]
NoMessage == [ToUpdate |-> {}, ToRemove |-> {}]

IsEmpty(m) == m.ToUpdate = {} /\ m.ToRemove = {}

Known == DOMAIN domains

\* The old.ext a Compute is given: nil when the domain is not in the cache.
Ext(d) == IF d \in Known THEN domains[d].ext ELSE NoRecords

Put(d, item) == [x \in Known \cup {d} |-> IF x = d THEN item ELSE domains[x]]

\* Reading a Go map: the zero value for an absent key.
Count(a) == IF a \in DOMAIN list THEN list[a] ELSE 0

\* The message applied to a list of addresses.
updateList(S, m) == (S \ m.ToRemove) \cup m.ToUpdate

\* Result of getIPList.
IPsList == {a \in DOMAIN list : list[a] > 0}

\* Result of ExpiredDomains.
ExpiredDomains == {d \in Known : domains[d].expire <= 0}

-----------------------------------------------------------------------------
(* Releasing the addresses of a domain that leaves (Delete, Update).       *)

\* The addresses no other domain holds.
LastRefs(ext) == {a \in DOMAIN ext : a \in DOMAIN list /\ list[a] <= 1}

Release(ext) ==
    [a \in (DOMAIN list \cup DOMAIN ext) \ LastRefs(ext) |->
        IF a \in DOMAIN ext THEN Count(a) - 1 ELSE Count(a)]

-----------------------------------------------------------------------------
(* Publishing one domain: rec is the resolved record set, old the ext the  *)
(* cache holds.                                                            *)

Fresh(rec) == {a \in DOMAIN rec : rec[a] > 0}

\* Addresses that are new to the domain: they are counted.
Added(rec, old) == Fresh(rec) \ DOMAIN old

\* Old addresses that were not resolved again and are still valid.
Kept(rec, old) == {a \in DOMAIN old \ Fresh(rec) : old[a] > 0}

\* Old addresses that were not resolved again and have expired.
Gone(rec, old) == {a \in DOMAIN old \ Fresh(rec) : old[a] <= 0}

\* Mutant: the counter is compared with >= 1.
SharedOffByOne(S) == {a \in S : a \in DOMAIN list /\ list[a] >= 1}

\* Those of S that another domain holds too.
Shared(S) == {a \in S : a \in DOMAIN list /\ list[a] > 1}

\* Mutant: an address resolved again keeps its old expiry.
RenewKeepsOld(rec, old) ==
    [a \in Fresh(rec) \cup Kept(rec, old) |->
        IF a \in DOMAIN old THEN old[a] ELSE rec[a]]

Renew(rec, old) ==
    [a \in Fresh(rec) \cup Kept(rec, old) |->
        IF a \in Fresh(rec) THEN rec[a] ELSE old[a]]

\* Mutant: an address already held is counted again.
RecountTwice(rec, old) ==
    LET lost == Gone(rec, old) \ Shared(Gone(rec, old))
    IN  [a \in (DOMAIN list \cup Fresh(rec)) \ lost |->
            IF a \in Fresh(rec) THEN Count(a) + 1
            ELSE IF a \in Gone(rec, old) THEN Count(a) - 1 ELSE Count(a)]

Recount(rec, old) ==
    LET lost == Gone(rec, old) \ Shared(Gone(rec, old))
    IN  [a \in (DOMAIN list \cup Added(rec, old)) \ lost |->
            IF a \in Added(rec, old) THEN Count(a) + 1
            ELSE IF a \in Gone(rec, old) THEN Count(a) - 1 ELSE Count(a)]

\* Mutant: an address is announced whenever a domain gains it.
ExtendAll(m, rec, old) ==
    [ToUpdate |-> m.ToUpdate \cup Added(rec, old),
     ToRemove |-> m.ToRemove \cup (Gone(rec, old) \ Shared(Gone(rec, old)))]

\* Mutant: the last domain of a batch overwrites what the others removed.
ExtendOverwrite(m, rec, old) ==
    [ToUpdate |-> m.ToUpdate \cup (Added(rec, old) \ DOMAIN list),
     ToRemove |-> Gone(rec, old) \ Shared(Gone(rec, old))]

Extend(m, rec, old) ==
    [ToUpdate |-> m.ToUpdate \cup (Added(rec, old) \ DOMAIN list),
     ToRemove |-> m.ToRemove \cup (Gone(rec, old) \ Shared(Gone(rec, old)))]

-----------------------------------------------------------------------------
(* The calls.                                                              *)

Init ==
    /\ domains = [d \in Configured |-> NewItem]
    /\ list = [a \in {} |-> 0]
    /\ pc = "idle"
    /\ todo = {}
    /\ msg = NoMessage
    /\ announced = {}

\* The call returns, or goes on to Broadcast, when m is what it has built.
Finish(m) == pc' = IF IsEmpty(m) THEN "idle" ELSE "broadcast"

Create(d) ==
    /\ pc = "idle"
    /\ d \notin Known
    /\ domains' = Put(d, NewItem)
    /\ UNCHANGED <<list, pc, todo, msg, announced>>

Delete(d) ==
    /\ pc = "idle"
    /\ d \in Known
    /\ domains' = Restrict(domains, Known \ {d})
    /\ list' = Release(Ext(d))
    /\ msg' = [NoMessage EXCEPT !.ToRemove = LastRefs(Ext(d))]
    /\ Finish(msg')
    /\ UNCHANGED <<todo, announced>>

\* Mutant: the new name is not looked up before the old one is dropped.
UpdateDropUnchecked(old, new) ==
    /\ pc = "idle"
    /\ old \in Known
    /\ domains' = Restrict(domains, Known \ {old})
    /\ list' = Release(Ext(old))
    /\ msg' = [NoMessage EXCEPT !.ToRemove = LastRefs(Ext(old))]
    /\ pc' = "update"
    /\ todo' = {new}
    /\ UNCHANGED announced

\* Update, up to the Compute that invalidates the old name.
UpdateDrop(old, new) ==
    /\ pc = "idle"
    /\ new \notin Known
    /\ old \in Known
    /\ domains' = Restrict(domains, Known \ {old})
    /\ list' = Release(Ext(old))
    /\ msg' = [NoMessage EXCEPT !.ToRemove = LastRefs(Ext(old))]
    /\ pc' = "update"
    /\ todo' = {new}
    /\ UNCHANGED announced

\* Update, the Compute that writes the new name.  Were the name found, the
\* call would return before its Broadcast.
UpdateWrite ==
    /\ pc = "update"
    /\ \E new \in todo :
        IF new \in Known
        THEN /\ pc' = "idle"
             /\ msg' = NoMessage
             /\ UNCHANGED domains
        ELSE /\ domains' = Put(new, NewItem)
             /\ Finish(msg)
             /\ UNCHANGED msg
    /\ todo' = {}
    /\ UNCHANGED <<list, announced>>

\* Publish takes the lock for a batch with one item per domain.
PublishLock(batch) ==
    /\ pc = "idle"
    /\ pc' = "publish"
    /\ todo' = batch
    /\ UNCHANGED <<domains, list, msg, announced>>

\* One round of Publish's loop.  The batch is a slice made from a map, so
\* its order is arbitrary; a domain that is not in the cache is entered.
PublishOne(d, rec, ttl) ==
    /\ pc = "publish"
    /\ d \in todo
    /\ domains' = Put(d, [ext |-> Renew(rec, Ext(d)), expire |-> ttl])
    /\ list' = Recount(rec, Ext(d))
    /\ msg' = Extend(msg, rec, Ext(d))
    /\ todo' = todo \ {d}
    /\ UNCHANGED <<pc, announced>>

\* Mutant: a batch that only withdraws addresses is not broadcast.
PublishDoneUpdatesOnly ==
    /\ pc = "publish"
    /\ todo = {}
    /\ pc' = IF msg.ToUpdate = {} THEN "idle" ELSE "broadcast"
    /\ UNCHANGED <<domains, list, todo, msg, announced>>

PublishDone ==
    /\ pc = "publish"
    /\ todo = {}
    /\ Finish(msg)
    /\ UNCHANGED <<domains, list, todo, msg, announced>>

\* The message is handed to the broadcaster, and the lock is released.
Broadcast ==
    /\ pc = "broadcast"
    /\ announced' = updateList(announced, msg)
    /\ msg' = NoMessage
    /\ pc' = "idle"
    /\ UNCHANGED <<domains, list, todo>>

\* The clock.
Older(n) == IF n > 0 THEN n - 1 ELSE 0

Tick ==
    /\ domains' = [d \in Known |->
            [ext    |-> [a \in DOMAIN domains[d].ext |-> Older(domains[d].ext[a])],
             expire |-> Older(domains[d].expire)]]
    /\ UNCHANGED <<list, pc, todo, msg, announced>>

Next ==
    \/ \E d \in Domain : Create(d)
    \/ \E d \in Domain : Delete(d)
    \/ \E old, new \in Domain : UpdateDrop(old, new)
    \/ UpdateWrite
    \/ \E batch \in SUBSET Domain : PublishLock(batch)
    \/ \E d \in todo, rec \in Records, ttl \in TTL : PublishOne(d, rec, ttl)
    \/ PublishDone
    \/ Broadcast
    \/ Tick

Spec == Init /\ [][Next]_vars

-----------------------------------------------------------------------------
(* Properties.                                                             *)

\* The type of the state: partial maps over the domains and the addresses,
\* and counters that are never zero or negative while they are in the map.
TypeOK ==
    /\ Known \subseteq Domain
    /\ domains \in [Known -> Item]
    /\ DOMAIN list \subseteq Address
    /\ list \in [DOMAIN list -> Nat \ {0}]
    /\ pc \in {"idle", "update", "publish", "broadcast"}
    /\ todo \in SUBSET Domain
    /\ msg \in Message
    /\ announced \in SUBSET Address

Holders(a) == {d \in Known : a \in DOMAIN domains[d].ext}

\* Every counter of ipItems.list is the number of domains whose ext holds
\* the address, at every step of every call (Publish, Delete, Update).
RefCounts ==
    /\ DOMAIN list = UNION {DOMAIN domains[d].ext : d \in Known}
    /\ \A a \in DOMAIN list : list[a] = Cardinality(Holders(a))

\* What the messages add up to, with the one under construction, is what
\* IPsList would return: no announcement is lost or left over by a batch.
AnnouncedMatches == updateList(announced, msg) = IPsList

\* A message withdraws only what is announced, and announces only what is
\* not, or what it withdraws too (store_test.go expects exact deltas).
MinimalMessage ==
    /\ msg.ToRemove \subseteq announced
    /\ (msg.ToUpdate \ msg.ToRemove) \cap announced = {}

\* A name that Update is about to write is free, so that Update never
\* returns between its two Computes with its withdrawals unsent.
UpdateNeverHalfDone == pc = "update" => todo \cap Known = {}

\* An address first announced by a batch is held by no domain that the
\* batch has still to write, so that the batch cannot withdraw it again.
NewInBatch == \A d \in todo : msg.ToUpdate \cap DOMAIN Ext(d) = {}

\* Between two calls nothing is being built and nothing is left to write.
CallState ==
    /\ pc = "idle" => IsEmpty(msg)
    /\ pc \notin {"update", "publish"} => todo = {}
    /\ pc = "update" => msg.ToUpdate = {}

\* The conjunction that every step preserves.
IInv == /\ TypeOK
        /\ RefCounts
        /\ AnnouncedMatches
        /\ MinimalMessage
        /\ UpdateNeverHalfDone
        /\ NewInBatch
        /\ CallState

\* What each domain holds, without the expiry of its records.
Held == [d \in Known |-> DOMAIN domains[d].ext]

Table == INSTANCE RouteTable WITH held <- Held, busy <- pc # "idle"

\* The store implements the promise of RouteTable: reference counts and
\* delta messages announce the union of what the domains hold.
TableSpec == Table!Spec
=============================================================================
