----------------------------- MODULE BgpSession -----------------------------
(***************************************************************************)
(* internal/bgp: the plugin's callbacks, the goroutine that OnClose        *)
(* starts, and the life of the corebgp server, on top of the broadcaster   *)
(* they call.                                                              *)
(*                                                                         *)
(* corebgp keeps a map of its peers under a lock.  DeletePeer holds the    *)
(* lock until the peer's FSM has stopped, and an FSM that runs a callback  *)
(* stops when the callback has returned: this is why OnClose leaves        *)
(* DeletePeer to a goroutine of its own.                                   *)
(***************************************************************************)
EXTENDS Broadcaster

CONSTANT Talk  \* bound: the messages that Broadcast is called with

ASSUME SessionAssumption == Talk \subseteq Message \ {NoMessage}

VARIABLES srv,         \* the corebgp server: "new", "serving" or "closed"
          registered,  \* the peers in corebgp's map
          deleting,    \* the peer whose DeletePeer waits for its FSM, if any
          returned,    \* per peer, whether OnEstablished has returned
          endOfRIB,    \* per peer, whether that call has written End-of-RIB
          dels,        \* per peer, goroutines of OnClose before DeletePeer
          adds         \* per peer, goroutines in their pause before AddPeer

server   == <<srv, registered, deleting>>
routines == <<dels, adds>>
session  == <<returned, endOfRIB>>
svars    == <<vars, server, routines, session>>

SInit ==
    /\ Init
    /\ srv = "new"
    /\ registered = Peer
    /\ deleting = {}
    /\ returned = [p \in Peer |-> TRUE]
    /\ endOfRIB = [p \in Peer |-> FALSE]
    /\ dels = [p \in Peer |-> 0]
    /\ adds = [p \in Peer |-> 0]

-----------------------------------------------------------------------------
(* The server.                                                             *)

Serve ==
    /\ srv = "new"
    /\ ~stopping
    /\ srv' = "serving"
    /\ UNCHANGED <<vars, registered, deleting, routines, session>>

\* context.AfterFunc(ctx, srv.Close)
CloseServer ==
    /\ stopping
    /\ srv # "closed"
    /\ srv' = "closed"
    /\ UNCHANGED <<vars, registered, deleting, routines, session>>

-----------------------------------------------------------------------------
(* The callbacks of a session.                                             *)

\* OnEstablished is called, with a writer for the new session.
OnEstablished(p) ==
    /\ srv = "serving"
    /\ p \in registered \ deleting
    /\ Establish(p)
    /\ returned' = [returned EXCEPT ![p] = FALSE]
    /\ endOfRIB' = [endOfRIB EXCEPT ![p] = FALSE]
    /\ UNCHANGED <<server, routines>>

\* The second that OnEstablished waits after its AddPeer is over.  A failed
\* write only changes the handler that it returns.
EndOfPause(p) ==
    /\ fsm[p] = "up"
    /\ ~returned[p]
    /\ returned' = [returned EXCEPT ![p] = TRUE]
    /\ endOfRIB' = [endOfRIB EXCEPT ![p] = link[p] = "up"]
    /\ UNCHANGED <<vars, server, routines>>

\* Mutant: DeletePeer is called in the callback, not in a goroutine.
OnCloseInline(p) ==
    /\ returned[p]
    /\ fsm[p] = "up" /\ link[p] = "broken"
    /\ deleting = {}
    /\ deleting' = {p}
    /\ UNCHANGED <<vars, srv, registered, routines, session>>

\* The FSM runs one callback at a time.
OnClose(p) ==
    /\ returned[p]
    /\ Close(p)
    /\ UNCHANGED <<server, routines, session>>

\* Mutant: OnEstablished leaves a goroutine behind as well.
EveryCallbackReturns(p) ==
    /\ dels' = IF fsm'[p] \in {"up", "down"} THEN [dels EXCEPT ![p] = @ + 1] ELSE dels
    /\ UNCHANGED <<server, adds, session>>

\* OnClose returns when its DelPeer has, and leaves the goroutine behind:
\* one, as Clients names a peer once.
OnCloseReturns(p) ==
    /\ dels' = IF fsm'[p] = "down" THEN [dels EXCEPT ![p] = @ + 1] ELSE dels
    /\ UNCHANGED <<server, adds, session>>

SCallCheck(p) == CallCheck(p) /\ OnCloseReturns(p)
SCallSend(p)  == CallSend(p) /\ OnCloseReturns(p)

-----------------------------------------------------------------------------
(* The goroutine of OnClose.                                               *)

\* DeletePeer takes the lock.  An established session is ended; a peer that
\* is not in the map is an error, which is only logged.
DeletePeer(p) ==
    /\ deleting = {}
    /\ dels[p] > 0
    /\ dels' = [dels EXCEPT ![p] = @ - 1]
    /\ IF p \in registered
       THEN /\ deleting' = {p}
            /\ IF link[p] = "up" THEN Break(p) ELSE UNCHANGED vars
            /\ UNCHANGED adds
       ELSE /\ adds' = [adds EXCEPT ![p] = @ + 1]
            /\ UNCHANGED <<vars, deleting>>
    /\ UNCHANGED <<srv, registered, session>>

\* Mutant: the goroutine ends with its DeletePeer.
PeerDeletedNoAdd(p) ==
    /\ p \in deleting
    /\ fsm[p] = "down"
    /\ deleting' = {}
    /\ registered' = registered \ {p}
    /\ UNCHANGED <<vars, srv, routines, session>>

\* The FSM has stopped: DeletePeer returns, and the goroutine sleeps.
PeerDeleted(p) ==
    /\ p \in deleting
    /\ fsm[p] = "down"
    /\ deleting' = {}
    /\ registered' = registered \ {p}
    /\ adds' = [adds EXCEPT ![p] = @ + 1]
    /\ UNCHANGED <<vars, srv, dels, session>>

\* AddPeer, after the pause.  A peer that is in the map already is an error,
\* which is only logged.
ReAddPeer(p) ==
    /\ deleting = {}
    /\ adds[p] > 0
    /\ adds' = [adds EXCEPT ![p] = @ - 1]
    /\ registered' = registered \cup {p}
    /\ UNCHANGED <<vars, srv, deleting, dels, session>>

-----------------------------------------------------------------------------
\* The steps of the broadcaster and of the network.
SRunner    == Runner /\ UNCHANGED <<server, routines, session>>
SStop      == Stop /\ UNCHANGED <<server, routines, session>>
SBreak(p)  == Break(p) /\ UNCHANGED <<server, routines, session>>
SBroadcast ==
    /\ (\E m \in Talk : BroadcastCheck(m)) \/ BroadcastSend
    /\ UNCHANGED <<server, routines, session>>

Goroutine(p) == DeletePeer(p) \/ PeerDeleted(p) \/ ReAddPeer(p)

SNext ==
    \/ Serve \/ CloseServer
    \/ SRunner \/ SStop \/ SBroadcast
    \/ \E p \in Peer : \/ OnEstablished(p) \/ EndOfPause(p) \/ OnClose(p)
                       \/ SCallCheck(p) \/ SCallSend(p) \/ SBreak(p)
                       \/ Goroutine(p)

SessionSpec == SInit /\ [][SNext]_svars

\* As in Broadcaster; and every pause ends, every callback and every
\* goroutine goes on, and a goroutine that waits for corebgp's lock gets it.
SFairness ==
    /\ WF_svars((\E p \in Peer : Write(p)) /\ SRunner)
    /\ SF_svars(Shutdown /\ SRunner)
    /\ SF_svars(TakeAction /\ SRunner)
    /\ SF_svars(TakeOutput /\ SRunner)
    /\ SF_svars(BroadcastSend /\ SBroadcast)
    /\ \A p \in Peer :
        /\ WF_svars(SCallCheck(p) \/ OnClose(p) \/ EndOfPause(p) \/ PeerDeleted(p))
        /\ SF_svars(SCallSend(p))
        /\ SF_svars(DeletePeer(p))
        /\ SF_svars(ReAddPeer(p))

FairSessionSpec == SessionSpec /\ SFairness

-----------------------------------------------------------------------------
(* Properties.                                                             *)

\* The type of what this module adds to the state of Broadcaster; a session
\* leaves one goroutine at most.
SessionTypeOK ==
    /\ srv \in {"new", "serving", "closed"}
    /\ registered \subseteq Peer
    /\ deleting \subseteq registered /\ Cardinality(deleting) <= 1
    /\ returned \in [Peer -> BOOLEAN]
    /\ endOfRIB \in [Peer -> BOOLEAN]
    /\ dels \in [Peer -> Nat]
    /\ adds \in [Peer -> Nat]
    /\ \A p \in Peer : dels[p] + adds[p] <= sess[p]

\* However many goroutines OnClose has started for a client, and whichever
\* of their calls fail, a client that is out of corebgp's map will be added.
ClientNotLost == \A p \in Peer \ registered : adds[p] > 0

\* A client comes back into the map, unless the process panics meanwhile.
ClientReturns ==
    \A p \in Peer : p \notin registered ~> p \in registered \/ ~NoSendOnClosed

\* DeletePeer, which holds corebgp's lock, never waits for ever on an FSM
\* whose callback waits for room in the action channel.
DeletePeerReturns ==
    \A p \in Peer : p \in deleting ~> p \notin deleting \/ ~NoSendOnClosed
=============================================================================
