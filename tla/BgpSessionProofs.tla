-------------------------- MODULE BgpSessionProofs --------------------------
(***************************************************************************)
(* BgpSession never loses a client, nor the writer of a live session, for  *)
(* any set of clients and any number of sessions.                          *)
(***************************************************************************)
EXTENDS BgpSession, BroadcasterProofs, FiniteSetTheorems

\* Every step of the sessions is one of the broadcaster or its callers, or
\* is not visible to them.
LEMMA SStepMaps == [SNext]_svars => [Next]_vars
<1> SUFFICES ASSUME [SNext]_svars PROVE [Next]_vars
  OBVIOUS
<1>1. CASE Serve \/ CloseServer
  BY <1>1 DEF Serve, CloseServer
<1>2. CASE SRunner
  BY <1>2 DEF SRunner, Next
<1>3. CASE SStop
  BY <1>3 DEF SStop, Next
<1>4. CASE SBroadcast
  BY <1>4, SessionAssumption DEF SBroadcast, Next
<1>5. ASSUME NEW p \in Peer, OnEstablished(p) PROVE Next
  BY <1>5 DEF OnEstablished, Next
<1>6. ASSUME NEW p \in Peer, EndOfPause(p) PROVE UNCHANGED vars
  BY <1>6 DEF EndOfPause
<1>7. ASSUME NEW p \in Peer, OnClose(p) PROVE Next
  BY <1>7 DEF OnClose, Next
<1>8. ASSUME NEW p \in Peer, SCallCheck(p) \/ SCallSend(p) PROVE Next
  BY <1>8 DEF SCallCheck, SCallSend, Next
<1>9. ASSUME NEW p \in Peer, SBreak(p) PROVE Next
  BY <1>9 DEF SBreak, Next
<1>10. ASSUME NEW p \in Peer, Goroutine(p) PROVE [Next]_vars
  BY <1>10 DEF Goroutine, DeletePeer, PeerDeleted, ReAddPeer, Next
<1>11. CASE UNCHANGED svars
  BY <1>11 DEF svars
<1>12. QED
  BY <1>1, <1>2, <1>3, <1>4, <1>5, <1>6, <1>7, <1>8, <1>9, <1>10, <1>11 DEF SNext

\* However often the goroutines of OnClose delete a peer of corebgp and add it
\* again, and whether its session is up then or not: a live session that has
\* been entered keeps its writer, no late DelPeer of another one drops it.
THEOREM RestartsKeepWriters == SessionSpec => []LateDeleteDropsNothing
<1>1. SInit => Init
  BY DEF SInit
<1>2. SessionSpec => Spec
  BY <1>1, SStepMaps, PTL DEF SessionSpec, Spec
<1>3. QED  BY <1>2, LateDeleteIsHarmless, PTL

-----------------------------------------------------------------------------
(* No client is lost.                                                      *)

RoutinesOK == /\ dels \in [Peer -> Nat]
              /\ adds \in [Peer -> Nat]
              /\ ClientNotLost

\* A client leaves corebgp's map only with a goroutine behind it that will
\* add it, and that goroutine does not end without doing so.
LEMMA RoutinesStep == RoutinesOK /\ [SNext]_svars => RoutinesOK'
<1> SUFFICES ASSUME RoutinesOK, [SNext]_svars PROVE RoutinesOK'
  OBVIOUS
<1> USE DEF RoutinesOK, ClientNotLost
<1>1. CASE Serve \/ CloseServer
  BY <1>1 DEF Serve, CloseServer, routines
<1>2. CASE SRunner \/ SStop \/ SBroadcast
  BY <1>2 DEF SRunner, SStop, SBroadcast, server, routines
<1>3. ASSUME NEW p \in Peer, OnEstablished(p) \/ EndOfPause(p) \/ OnClose(p) \/ SBreak(p)
      PROVE  RoutinesOK'
  BY <1>3 DEF OnEstablished, EndOfPause, OnClose, SBreak, server, routines
<1>4. ASSUME NEW p \in Peer, SCallCheck(p) \/ SCallSend(p) PROVE RoutinesOK'
  BY <1>4 DEF SCallCheck, SCallSend, OnCloseReturns, server
<1>5. ASSUME NEW p \in Peer, DeletePeer(p) PROVE RoutinesOK'
  BY <1>5 DEF DeletePeer
<1>6. ASSUME NEW p \in Peer, PeerDeleted(p) PROVE RoutinesOK'
  BY <1>6 DEF PeerDeleted
<1>7. ASSUME NEW p \in Peer, ReAddPeer(p) PROVE RoutinesOK'
  BY <1>7 DEF ReAddPeer
<1>8. CASE UNCHANGED svars
  BY <1>8 DEF svars, server, routines
<1>9. QED
  BY <1>1, <1>2, <1>3, <1>4, <1>5, <1>6, <1>7, <1>8 DEF SNext, Goroutine

\* A client that is out of corebgp's map has a goroutine of OnClose that
\* will add it, whatever its sessions and the other goroutines do.
THEOREM ClientsNotLost == SessionSpec => []ClientNotLost
<1>1. SInit => RoutinesOK
  BY DEF SInit, RoutinesOK, ClientNotLost
<1>2. RoutinesOK => ClientNotLost
  BY DEF RoutinesOK
<1>3. QED
  BY <1>1, <1>2, RoutinesStep, PTL DEF SessionSpec

-----------------------------------------------------------------------------
(* A session leaves one goroutine behind.                                  *)

Callback == {"down", "add", "sendAdd", "up", "del", "sendDel", "panicked"}

Stopping(p)   == IF p \in deleting THEN 1 ELSE 0
InCallback(p) == IF fsm[p] = "down" THEN 0 ELSE 1

\* The sessions of a client are enough for the callbacks and the goroutines
\* that are under way for it.
Accounted ==
    \A p \in Peer : dels[p] + adds[p] + Stopping(p) + InCallback(p) <= sess[p]

ServerOK == /\ srv \in {"new", "serving", "closed"}
            /\ registered \subseteq Peer
            /\ deleting \subseteq registered /\ \A p, q \in deleting : p = q
            /\ returned \in [Peer -> BOOLEAN]
            /\ endOfRIB \in [Peer -> BOOLEAN]

CountsOK == /\ dels \in [Peer -> Nat]
            /\ adds \in [Peer -> Nat]
            /\ fsm \in [Peer -> Callback]
            /\ sess \in [Peer -> Nat]
            /\ Accounted

LEMMA CountsInit == SInit => ServerOK /\ CountsOK
BY DEF SInit, Init, ServerOK, CountsOK, Callback, Accounted, Stopping, InCallback

\* The steps that touch neither the callbacks nor the goroutines.
LEMMA CountsElsewhere ==
    ASSUME CountsOK, UNCHANGED <<fsm, sess, dels, adds, deleting>>
    PROVE  CountsOK'
BY DEF CountsOK, Callback, Accounted, Stopping, InCallback

LEMMA CountsStep == CountsOK /\ ServerOK /\ [SNext]_svars => CountsOK'
<1> SUFFICES ASSUME CountsOK, ServerOK, [SNext]_svars PROVE CountsOK'
  OBVIOUS
<1>1. CASE Serve \/ CloseServer \/ SStop \/ SBroadcast \/ UNCHANGED svars
  BY <1>1, CountsElsewhere
     DEF Serve, CloseServer, SStop, Stop, SBroadcast, BroadcastCheck, BroadcastSend,
         svars, vars, server, routines
<1>2. CASE SRunner
  <2>1. UNCHANGED <<fsm, sess>>
    BY <1>2 DEF SRunner, Runner, Shutdown, TakeAction, TakeOutput, Write, AddPeer, RemPeer
  <2>2. QED  BY <1>2, <2>1, CountsElsewhere DEF SRunner, server, routines
<1>3. ASSUME NEW p \in Peer, OnEstablished(p) PROVE CountsOK'
  BY <1>3 DEF OnEstablished, Establish, server, routines, CountsOK, Callback, Accounted, Stopping, InCallback
<1>4. ASSUME NEW p \in Peer, EndOfPause(p) \/ SBreak(p) PROVE CountsOK'
  BY <1>4, CountsElsewhere DEF EndOfPause, SBreak, Break, vars, server, routines
<1>5. ASSUME NEW p \in Peer, OnClose(p) PROVE CountsOK'
  BY <1>5 DEF OnClose, Close, server, routines, CountsOK, Callback, Accounted, Stopping, InCallback
<1>6. ASSUME NEW p \in Peer, SCallCheck(p) \/ SCallSend(p) PROVE CountsOK'
  <2>1. UNCHANGED <<sess, adds, deleting>> /\ OnCloseReturns(p)
    BY <1>6 DEF SCallCheck, SCallSend, CallCheck, CallSend, OnCloseReturns, server
  <2>2. /\ fsm[p] # "down"
        /\ \/ fsm' = [fsm EXCEPT ![p] = "up"]
           \/ fsm' = [fsm EXCEPT ![p] = "sendAdd"]
           \/ fsm' = [fsm EXCEPT ![p] = "sendDel"]
           \/ fsm' = [fsm EXCEPT ![p] = "down"]
           \/ fsm' = [fsm EXCEPT ![p] = "panicked"]
    <3>1. CASE CallCheck(p)
      BY <3>1 DEF CallCheck
    <3>2. CASE CallSend(p)
      BY <3>2 DEF CallSend
    <3>3. QED  BY <1>6, <3>1, <3>2 DEF SCallCheck, SCallSend
  <2>3. PICK s \in Callback : fsm' = [fsm EXCEPT ![p] = s]
    BY <2>2 DEF Callback
  <2>4. CASE s = "down"
    BY <2>1, <2>2, <2>3, <2>4 DEF OnCloseReturns, CountsOK, Callback, Accounted, Stopping, InCallback
  <2>5. CASE s # "down"
    BY <2>1, <2>2, <2>3, <2>5 DEF OnCloseReturns, CountsOK, Callback, Accounted, Stopping, InCallback
  <2>6. QED  BY <2>4, <2>5
<1>7. ASSUME NEW p \in Peer, DeletePeer(p) PROVE CountsOK'
  <2>1. UNCHANGED <<fsm, sess>>
    BY <1>7 DEF DeletePeer, Break, vars
  <2>2. QED  BY <1>7, <2>1 DEF DeletePeer, CountsOK, Callback, Accounted, Stopping, InCallback
<1>8. ASSUME NEW p \in Peer, PeerDeleted(p) PROVE CountsOK'
  <2>1. deleting = {p}
    BY <1>8 DEF PeerDeleted, ServerOK
  <2>2. QED  BY <1>8, <2>1 DEF PeerDeleted, vars, CountsOK, Callback, Accounted, Stopping, InCallback
<1>9. ASSUME NEW p \in Peer, ReAddPeer(p) PROVE CountsOK'
  BY <1>9 DEF ReAddPeer, vars, CountsOK, Callback, Accounted, Stopping, InCallback
<1>10. QED
  BY <1>1, <1>2, <1>3, <1>4, <1>5, <1>6, <1>7, <1>8, <1>9 DEF SNext, Goroutine

LEMMA ServerStep == ServerOK /\ [SNext]_svars => ServerOK'
<1> SUFFICES ASSUME ServerOK, [SNext]_svars PROVE ServerOK'
  OBVIOUS
<1> USE DEF ServerOK
<1>1. CASE Serve \/ CloseServer
  BY <1>1 DEF Serve, CloseServer, session
<1>2. CASE SRunner \/ SStop \/ SBroadcast \/ UNCHANGED svars
  BY <1>2 DEF SRunner, SStop, SBroadcast, svars, server, session
<1>3. ASSUME NEW p \in Peer, OnEstablished(p) \/ EndOfPause(p) PROVE ServerOK'
  BY <1>3 DEF OnEstablished, EndOfPause, server
<1>4. ASSUME NEW p \in Peer, OnClose(p) \/ SBreak(p) PROVE ServerOK'
  BY <1>4 DEF OnClose, SBreak, server, session
<1>5. ASSUME NEW p \in Peer, SCallCheck(p) \/ SCallSend(p) PROVE ServerOK'
  BY <1>5 DEF SCallCheck, SCallSend, OnCloseReturns, server, session
<1>6. ASSUME NEW p \in Peer, Goroutine(p) PROVE ServerOK'
  BY <1>6 DEF Goroutine, DeletePeer, PeerDeleted, ReAddPeer, session
<1>7. QED
  BY <1>1, <1>2, <1>3, <1>4, <1>5, <1>6 DEF SNext

\* The state keeps its type, and however its callbacks and goroutines
\* overlap, a client never has more goroutines than it has had sessions.
THEOREM SessionTypeCorrect == SessionSpec => []SessionTypeOK
<1>1. SInit => ServerOK /\ CountsOK
  BY CountsInit
<1>2. ServerOK /\ CountsOK /\ [SNext]_svars => ServerOK' /\ CountsOK'
  BY ServerStep, CountsStep
<1>3. ServerOK /\ CountsOK => SessionTypeOK
  <2> SUFFICES ASSUME ServerOK, CountsOK PROVE SessionTypeOK
    OBVIOUS
  <2>1. Cardinality(deleting) <= 1
    <3>1. CASE deleting = {}
      BY <3>1, FS_EmptySet
    <3>2. ASSUME NEW p \in deleting PROVE Cardinality(deleting) <= 1
      <4>1. deleting = {p}
        BY <3>2 DEF ServerOK
      <4>2. QED  BY <4>1, FS_Singleton
    <3>3. QED  BY <3>1, <3>2
  <2>2. \A p \in Peer : dels[p] + adds[p] <= sess[p]
    BY DEF CountsOK, Callback, Accounted, Stopping, InCallback
  <2>3. QED  BY <2>1, <2>2 DEF ServerOK, CountsOK, SessionTypeOK
<1>4. QED  BY <1>1, <1>2, <1>3, PTL DEF SessionSpec
=============================================================================
