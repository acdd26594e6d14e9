------------------------------ MODULE ResolveX ------------------------------
(***************************************************************************)
(* What cmd/resolvex wires together: the store hands the messages of its   *)
(* calls to the broadcaster, which tells the BGP peers.  The call that     *)
(* holds the store's write lock is the caller of Broadcast, and keeps the  *)
(* lock until Broadcast returns.                                           *)
(*                                                                         *)
(* The runner's list and its place are called rlist and rpc here.  The     *)
(* store's announced is what has gone into the output channel, or has been *)
(* dropped because the broadcaster was closed.                             *)
(***************************************************************************)
EXTENDS Store, Sequences

CONSTANTS Peer, ActionCap, OutputCap, MaxSession, CanBreak, CanStop

VARIABLES action, output, stopping, rpc, rlist, peer, cur, rest, pub, pending,
          fsm, sess, link, rib, missed

B == INSTANCE Broadcaster WITH pc <- rpc, list <- rlist

ASSUME WiringAssumption == B!BroadcasterAssumption

bvars == <<action, output, stopping, rpc, rlist, peer, cur, rest, pub, pending,
           fsm, sess, link, rib, missed>>
xvars == <<vars, bvars>>

\* main: the broadcaster, then the store with the names of domain.Fetch.
XInit == Init /\ B!Init

-----------------------------------------------------------------------------
(* The call of manager.Broadcast in Delete, Update and Publish.            *)

\* Mutant: a message that finds the channel full is dropped.
HandOverDropsWhenFull ==
    /\ pc = "broadcast" /\ pub = "idle"
    /\ IF B!closed \/ Len(output) = OutputCap
       THEN Broadcast /\ UNCHANGED bvars
       ELSE B!BroadcastCheck(msg) /\ UNCHANGED vars

\* Mutant: Broadcast is left to a goroutine, and the lock is released.
HandOverUnlocked ==
    /\ pc = "broadcast" /\ pub = "idle"
    /\ IF B!closed
       THEN Broadcast /\ UNCHANGED bvars
       ELSE /\ B!BroadcastCheck(msg)
            /\ pc' = "idle" /\ msg' = NoMessage
            /\ UNCHANGED <<domains, list, todo, announced>>

\* Mutant: the closed flag is not looked at.
HandOverUnchecked ==
    /\ pc = "broadcast" /\ pub = "idle"
    /\ pub' = "send" /\ pending' = msg
    /\ UNCHANGED <<vars, action, output, stopping, rpc, rlist, peer, cur,
                   rest, missed, fsm, sess, link, rib>>

\* Mutant: Broadcast waits where it should return.
HandOverWaits ==
    /\ pc = "broadcast" /\ pub = "idle"
    /\ ~B!closed
    /\ B!BroadcastCheck(msg) /\ UNCHANGED vars

\* Broadcast looks at closed, and returns at once if it is set.
HandOver ==
    /\ pc = "broadcast" /\ pub = "idle"
    /\ IF B!closed
       THEN Broadcast /\ UNCHANGED bvars
       ELSE B!BroadcastCheck(msg) /\ UNCHANGED vars

\* Broadcast sends the message, and the call returns and unlocks the store;
\* or the send panics.
Deliver ==
    /\ B!BroadcastSend
    /\ IF pub' = "idle" THEN Broadcast ELSE UNCHANGED vars

-----------------------------------------------------------------------------
(* Everything else is a step of one of the two.                            *)

\* The calls of the store that start, and the clock.
Calls ==
    /\ \/ \E d \in Domain : Create(d) \/ Delete(d)
       \/ \E old, new \in Domain : UpdateDrop(old, new)
       \/ \E batch \in SUBSET Domain : PublishLock(batch)
       \/ Tick
    /\ UNCHANGED bvars

\* The call that holds the lock, up to its Broadcast.
Holder ==
    /\ \/ UpdateWrite
       \/ \E d \in todo, rec \in Records, ttl \in TTL : PublishOne(d, rec, ttl)
       \/ PublishDone
    /\ UNCHANGED bvars

XRunner == B!Runner /\ UNCHANGED vars

Sessions ==
    /\ \/ B!Stop
       \/ \E p \in Peer : \/ B!Establish(p) \/ B!Break(p) \/ B!Close(p)
                          \/ B!CallCheck(p) \/ B!CallSend(p)
    /\ UNCHANGED vars

XNext == HandOver \/ Deliver \/ Calls \/ Holder \/ XRunner \/ Sessions

XSpec == XInit /\ [][XNext]_xvars

\* As in Broadcaster, and a call that holds the lock goes on.
XFairness ==
    /\ WF_xvars(HandOver)
    /\ WF_xvars(Holder)
    /\ SF_xvars(Deliver)
    /\ WF_xvars((\E p \in Peer : B!Write(p)) /\ UNCHANGED vars)
    /\ SF_xvars(B!Shutdown /\ UNCHANGED vars)
    /\ SF_xvars(B!TakeAction /\ UNCHANGED vars)
    /\ SF_xvars(B!TakeOutput /\ UNCHANGED vars)
    /\ \A p \in Peer :
        /\ WF_xvars((B!CallCheck(p) \/ B!Close(p)) /\ UNCHANGED vars)
        /\ SF_xvars(B!CallSend(p) /\ UNCHANGED vars)

XFairSpec == XSpec /\ XFairness

-----------------------------------------------------------------------------
(* Properties.                                                             *)

\* The call that has found the broadcaster open holds the store's lock, and
\* what it sends is its own message.
CallerHoldsLock == pub # "idle" => pc = "broadcast" /\ (pub = "send" => pending = msg)

\* While the broadcaster is open nothing is lost between store and runner:
\* the runner's list and the messages in the channel, applied in order, give
\* what the store has announced.
Pipeline ==
    ~B!closed =>
        \E h \in [0..Len(output) -> SUBSET Address] :
            /\ h[0] = rlist
            /\ \A i \in 1..Len(output) : h[i] = updateList(h[i - 1], output[i])
            /\ h[Len(output)] = announced

\* What the domains hold, by the store's records and not by its counters.
Wanted == UNION {DOMAIN domains[d].ext : d \in Known}

\* End to end: when no call and no message is under way, a registered peer
\* whose session lives has been told exactly the addresses the domains hold,
\* unless the runner skipped it after another peer's failure.
PeersKnowTheDomains ==
    pc = "idle" /\ output = <<>> /\ rpc = "select" =>
        \A p \in DOMAIN peer :
            B!Live(p, peer[p]) /\ p \notin missed => rib[p] = Wanted

\* The broadcaster keeps to its own specification: of the calls of Broadcast,
\* one is under way at a time, and none has nothing to say.
BroadcasterKept == B!Spec

\* No call of the store keeps the write lock for ever, full channel and
\* shutdown included, unless the process panics.
LockReleased == pc # "idle" ~> pc = "idle" \/ pub = "panicked"

\* Where a live peer and the store differ in an address, one of them changes:
\* no announcement and no withdrawal gets stuck on its way.
PeersFollow ==
    \A p \in Peer, a \in Address :
        LET differ == (a \in rib[p]) # (a \in Wanted)
        IN  differ /\ link[p] = "up" ~> \/ ~differ
                                        \/ link[p] # "up"
                                        \/ p \in missed
                                        \/ stopping
=============================================================================
