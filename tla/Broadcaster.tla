---------------------------- MODULE Broadcaster ----------------------------
(***************************************************************************)
(* internal/broadcast: the runner goroutine with its two bounded channels, *)
(* and the callers of Broadcast, AddPeer and DelPeer.                      *)
(*                                                                         *)
(* Broadcast has one caller at a time, the call that holds the store's     *)
(* write lock.  AddPeer and DelPeer are called by the BGP plugin, in turn, *)
(* when a peer's session is established and when it is closed.  Every call *)
(* loads closed first and sends afterwards: two steps.                     *)
(*                                                                         *)
(* A PeerWriter is represented by the number of the session it was made    *)
(* for.  It fails once that session is broken or over.                     *)
(***************************************************************************)
EXTENDS Integers, Sequences, FiniteSets, Functions

CONSTANTS Peer,        \* the configured BGP clients
          Address,     \* the IP addresses that may be announced
          ActionCap,   \* capacity of the action channel (10 in New)
          OutputCap,   \* capacity of the output channel (10 in New)
          MaxSession,  \* bound: sessions established with each peer
          CanBreak,    \* whether sessions may break
          CanStop      \* whether the service may be stopped

ASSUME BroadcasterAssumption ==
    /\ ActionCap \in Nat \ {0}
    /\ OutputCap \in Nat \ {0}
    /\ MaxSession \in Nat
    /\ CanBreak \in BOOLEAN
    /\ CanStop \in BOOLEAN

VARIABLES action,   \* channel of updatePeer records
          output,   \* channel of UpdateMessages
          stopping, \* the runner's context is done
          pc,       \* where the runner stands
          list,     \* the runner's list of announced addresses
          peer,     \* the runner's map: peer -> writer
          cur,      \* the message being written to the peers
          rest,     \* the peers it has still to be written to
          pub,      \* the caller of Broadcast
          pending,  \* the message it sends
          fsm,      \* per peer, the plugin's callbacks
          sess,     \* per peer, the number of its last session
          link,     \* per peer, the state of that session
          rib,      \* per peer, the addresses it has been told of
          missed    \* history: live peers that a message was not written to

runner == <<pc, list, peer, cur, rest, missed>>
caller == <<pub, pending>>
vars == <<action, output, stopping, runner, caller, fsm, sess, link, rib>>

-----------------------------------------------------------------------------
Message   == [ToUpdate : SUBSET Address, ToRemove : SUBSET Address]
NoMessage == [ToUpdate |-> {}, ToRemove |-> {}]

Add(p, w) == [Action |-> "addPeer", Peer |-> p, writer |-> w]
Rem(p)    == [Action |-> "remPeer", Peer |-> p, writer |-> 0]

updateList(S, m) == (S \ m.ToRemove) \cup m.ToUpdate

\* closed is stored before the channels are closed, one after the other.
closed       == pc \in {"closeAction", "closeOutput", "done"}
actionClosed == pc \in {"closeOutput", "done"}
outputClosed == pc = "done"

\* The session a writer was made for can be written to.
Live(p, w) == w = sess[p] /\ link[p] = "up"

Init ==
    /\ action = <<>> /\ output = <<>>
    /\ stopping = FALSE
    /\ pc = "select"
    /\ list = {}
    /\ peer = [p \in {} |-> 0]
    /\ cur = NoMessage /\ rest = {}
    /\ pub = "idle" /\ pending = NoMessage
    /\ fsm = [p \in Peer |-> "down"]
    /\ sess = [p \in Peer |-> 0]
    /\ link = [p \in Peer |-> "down"]
    /\ rib = [p \in Peer |-> {}]
    /\ missed = {}

-----------------------------------------------------------------------------
(* Broadcast.                                                              *)

BroadcastCheck(m) ==
    /\ pub = "idle"
    /\ ~closed
    /\ pub' = "send" /\ pending' = m
    /\ UNCHANGED <<action, output, stopping, runner, fsm, sess, link, rib>>

\* Sending on a closed channel panics, also for a sender that was waiting.
BroadcastSend ==
    /\ pub = "send"
    /\ \/ /\ outputClosed
          /\ pub' = "panicked"
          /\ UNCHANGED output
       \/ /\ ~outputClosed /\ Len(output) < OutputCap
          /\ pub' = "idle"
          /\ output' = Append(output, pending)
    /\ pending' = NoMessage
    /\ UNCHANGED <<action, stopping, runner, fsm, sess, link, rib>>

-----------------------------------------------------------------------------
(* The sessions of the peers, and AddPeer and DelPeer.                     *)

\* A session comes up: OnEstablished is called.  The End-of-RIB it writes a
\* second after its AddPeer carries no route and is left out.
Establish(p) ==
    /\ fsm[p] = "down"
    /\ sess[p] < MaxSession
    /\ fsm' = [fsm EXCEPT ![p] = "add"]
    /\ sess' = [sess EXCEPT ![p] = @ + 1]
    /\ link' = [link EXCEPT ![p] = "up"]
    /\ rib' = [rib EXCEPT ![p] = {}]
    /\ missed' = missed \ {p}
    /\ UNCHANGED <<action, output, stopping, pc, list, peer, cur, rest, caller>>

\* The connection is lost.  The callbacks learn of it later.
Break(p) ==
    /\ CanBreak
    /\ link[p] = "up"
    /\ link' = [link EXCEPT ![p] = "broken"]
    /\ missed' = missed \ {p}
    /\ UNCHANGED <<action, output, stopping, pc, list, peer, cur, rest, caller,
                   fsm, sess, rib>>

\* OnClose is called.  Its goroutine, which deletes the peer from corebgp and
\* adds it again, is what lets the next session come up after "down".
Close(p) ==
    /\ fsm[p] = "up"
    /\ link[p] = "broken"
    /\ fsm' = [fsm EXCEPT ![p] = "del"]
    /\ UNCHANGED <<action, output, stopping, runner, caller, sess, link, rib>>

\* AddPeer and DelPeer return at once when the server is closed.
CallCheck(p) ==
    /\ \/ /\ fsm[p] = "add"
          /\ fsm' = [fsm EXCEPT ![p] = IF closed THEN "up" ELSE "sendAdd"]
       \/ /\ fsm[p] = "del"
          /\ fsm' = [fsm EXCEPT ![p] = IF closed THEN "down" ELSE "sendDel"]
    /\ UNCHANGED <<action, output, stopping, runner, caller, sess, link, rib>>

\* Mutant: what does not fit into the channel is dropped.
CallSendNonBlocking(p) ==
    /\ fsm[p] \in {"sendAdd", "sendDel"}
    /\ ~actionClosed
    /\ action' = IF Len(action) = ActionCap THEN action
                 ELSE Append(action, IF fsm[p] = "sendAdd" THEN Add(p, sess[p]) ELSE Rem(p))
    /\ fsm' = [fsm EXCEPT ![p] = IF @ = "sendAdd" THEN "up" ELSE "down"]
    /\ UNCHANGED <<output, stopping, runner, caller, sess, link, rib>>

\* Mutant: a new peer overtakes the removals that are waiting.
CallSendUnordered(p) ==
    /\ fsm[p] \in {"sendAdd", "sendDel"}
    /\ ~actionClosed /\ Len(action) < ActionCap
    /\ action' = IF fsm[p] = "sendAdd" THEN <<Add(p, sess[p])>> \o action
                                       ELSE Append(action, Rem(p))
    /\ fsm' = [fsm EXCEPT ![p] = IF @ = "sendAdd" THEN "up" ELSE "down"]
    /\ UNCHANGED <<output, stopping, runner, caller, sess, link, rib>>

CallSend(p) ==
    /\ fsm[p] \in {"sendAdd", "sendDel"}
    /\ \/ /\ actionClosed
          /\ fsm' = [fsm EXCEPT ![p] = "panicked"]
          /\ UNCHANGED action
       \/ /\ ~actionClosed /\ Len(action) < ActionCap
          /\ IF fsm[p] = "sendAdd"
             THEN /\ action' = Append(action, Add(p, sess[p]))
                  /\ fsm' = [fsm EXCEPT ![p] = "up"]
             ELSE /\ action' = Append(action, Rem(p))
                  /\ fsm' = [fsm EXCEPT ![p] = "down"]
    /\ UNCHANGED <<output, stopping, runner, caller, sess, link, rib>>

-----------------------------------------------------------------------------
(* The runner: one action per case of its select.                          *)

Stop ==
    /\ CanStop
    /\ ~stopping
    /\ stopping' = TRUE
    /\ UNCHANGED <<action, output, runner, caller, fsm, sess, link, rib>>

\* Mutant: the runner waits for its peers to leave.
ShutdownWaits ==
    /\ \/ pc = "select" /\ stopping /\ DOMAIN peer = {} /\ pc' = "closeAction"
       \/ pc = "closeAction" /\ pc' = "closeOutput"
       \/ pc = "closeOutput" /\ pc' = "done"
    /\ UNCHANGED <<action, output, stopping, list, peer, cur, rest, missed,
                   caller, fsm, sess, link, rib>>

\* case <-ctx.Done(): closed.Store(true), close(action), close(output).
Shutdown ==
    /\ \/ pc = "select" /\ stopping /\ pc' = "closeAction"
       \/ pc = "closeAction" /\ pc' = "closeOutput"
       \/ pc = "closeOutput" /\ pc' = "done"
    /\ UNCHANGED <<action, output, stopping, list, peer, cur, rest, missed,
                   caller, fsm, sess, link, rib>>

\* Mutant: a new peer is entered without its initial table.
AddPeerNoTable(p, w) ==
    /\ peer' = [q \in DOMAIN peer \cup {p} |-> IF q = p THEN w ELSE peer[q]]
    /\ UNCHANGED rib

\* case addPeer: only a peer that is not in the map is sent the list, and a
\* failed write is only logged.
AddPeer(p, w) ==
    /\ peer' = [q \in DOMAIN peer \cup {p} |-> IF q = p THEN w ELSE peer[q]]
    /\ rib' = IF p \notin DOMAIN peer /\ Live(p, w)
              THEN [rib EXCEPT ![p] = updateList(@, [NoMessage EXCEPT !.ToUpdate = list])]
              ELSE rib

\* Mutant: the writer is forgotten, but the peer stays in the map.
RemPeerNil(p) ==
    /\ peer' = [q \in DOMAIN peer |-> IF q = p THEN 0 ELSE peer[q]]
    /\ UNCHANGED rib

RemPeer(p) ==
    /\ peer' = Restrict(peer, DOMAIN peer \ {p})
    /\ UNCHANGED rib

TakeAction ==
    /\ pc = "select"
    /\ action # <<>>
    /\ LET m == Head(action)
       IN  IF m.Action = "addPeer" THEN AddPeer(m.Peer, m.writer) ELSE RemPeer(m.Peer)
    /\ action' = Tail(action)
    /\ UNCHANGED <<output, stopping, pc, list, cur, rest, missed, caller,
                   fsm, sess, link>>

\* case msg := <-output.  An empty message is ignored.
TakeOutput ==
    /\ pc = "select"
    /\ output # <<>>
    /\ output' = Tail(output)
    /\ LET m == Head(output)
       IN  IF m = NoMessage \/ DOMAIN peer = {}
           THEN /\ list' = updateList(list, m)
                /\ UNCHANGED <<pc, cur, rest>>
           ELSE /\ list' = updateList(list, m)
                /\ pc' = "write" /\ cur' = m /\ rest' = DOMAIN peer
    /\ UNCHANGED <<action, stopping, peer, missed, caller, fsm, sess, link, rib>>

\* The loop over the peers, in the arbitrary order of a map.  The first
\* writer that fails ends it: continue loop.
Write(p) ==
    /\ pc = "write"
    /\ p \in rest
    /\ IF Live(p, peer[p])
       THEN /\ rib' = [rib EXCEPT ![p] = updateList(@, cur)]
            /\ rest' = rest \ {p}
            /\ UNCHANGED missed
       ELSE /\ rest' = {}
            /\ missed' = missed \cup {q \in rest : Live(q, peer[q])}
            /\ UNCHANGED rib
    /\ IF rest' = {} THEN pc' = "select" /\ cur' = NoMessage
                     ELSE UNCHANGED <<pc, cur>>
    /\ UNCHANGED <<action, output, stopping, list, peer, caller, fsm, sess, link>>

Runner == Shutdown \/ TakeAction \/ TakeOutput \/ \E p \in Peer : Write(p)

Next ==
    \/ Runner
    \/ Stop
    \/ \E m \in Message \ {NoMessage} : BroadcastCheck(m)
    \/ BroadcastSend
    \/ \E p \in Peer : \/ Establish(p) \/ Break(p) \/ Close(p)
                       \/ CallCheck(p) \/ CallSend(p)

Spec == Init /\ [][Next]_vars

\* The goroutines run; select picks among its ready cases at random, so no
\* case that is ready again and again is passed over for ever; a channel
\* serves its waiting senders in turn.
Fairness ==
    /\ WF_vars(\E p \in Peer : Write(p))
    /\ SF_vars(Shutdown)
    /\ SF_vars(TakeAction)
    /\ SF_vars(TakeOutput)
    /\ SF_vars(BroadcastSend)
    /\ \A p \in Peer : WF_vars(CallCheck(p) \/ Close(p)) /\ SF_vars(CallSend(p))

FairSpec == Spec /\ Fairness

-----------------------------------------------------------------------------
(* Properties.                                                             *)

\* The type of the state.
TypeOK ==
    /\ action \in Seq([Action : {"addPeer", "remPeer"}, Peer : Peer,
                       writer : 0..MaxSession])
    /\ output \in Seq(Message)
    /\ Len(action) <= ActionCap /\ Len(output) <= OutputCap
    /\ stopping \in BOOLEAN
    /\ pc \in {"select", "write", "closeAction", "closeOutput", "done"}
    /\ list \subseteq Address
    /\ DOMAIN peer \subseteq Peer
    /\ peer \in [DOMAIN peer -> 1..MaxSession]
    /\ cur \in Message /\ rest \subseteq DOMAIN peer
    /\ pub \in {"idle", "send", "panicked"} /\ pending \in Message
    /\ fsm \in [Peer -> {"down", "add", "sendAdd", "up", "del", "sendDel", "panicked"}]
    /\ sess \in [Peer -> 0..MaxSession]
    /\ link \in [Peer -> {"down", "up", "broken"}]
    /\ rib \in [Peer -> SUBSET Address]
    /\ missed \subseteq Peer

\* A peer of the map whose session is alive knows exactly the runner's list,
\* unless its turn has still to come or a message was not written to it
\* because another peer's writer failed (server.go, "continue loop").
InSync ==
    \A p \in DOMAIN peer :
        Live(p, peer[p]) /\ p \notin rest \cup missed => rib[p] = list

\* Every message is sent to every peer (README.md, Broadcaster: "send
\* updates to peer"): between two messages every live peer knows the list.
LivePeersInSync ==
    pc = "select" =>
        \A p \in DOMAIN peer : Live(p, peer[p]) => rib[p] = list

\* An AddPeer never finds its peer in the map when it is taken, so the
\* branch that replaces a writer and sends no table is never the one that
\* serves a new session: the DelPeer of the old session is ahead of it.
NoBlindReplace ==
    action # <<>> /\ Head(action).Action = "addPeer"
        => Head(action).Peer \notin DOMAIN peer

\* While the service runs, the session of a peer that is up and whose
\* AddPeer has been taken is the one in the map: no late DelPeer of an
\* earlier session has dropped its writer.
LateDeleteDropsNothing ==
    \A p \in Peer :
        /\ fsm[p] = "up" /\ link[p] = "up" /\ ~closed
        /\ \A i \in DOMAIN action : action[i] # Add(p, sess[p])
        => p \in DOMAIN peer /\ peer[p] = sess[p]

\* Broadcast, AddPeer and DelPeer never send on a closed channel (manager.go:
\* they act "if the server is not closed").
NoSendOnClosed == pub # "panicked" /\ \A p \in Peer : fsm[p] # "panicked"

\* Every session that stays up is entered in the map, unless the service is
\* stopped meanwhile.
SessionRegistered ==
    \A p \in Peer :
        fsm[p] = "add" ~>
            \/ p \in DOMAIN peer /\ peer[p] = sess[p]
            \/ link[p] # "up"
            \/ stopping

\* Once its context is done the runner closes both channels and returns.
ShutdownCompletes == stopping ~> pc = "done"
=============================================================================
