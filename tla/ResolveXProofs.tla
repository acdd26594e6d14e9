--------------------------- MODULE ResolveXProofs ---------------------------
(***************************************************************************)
(* What holds of the store and the broadcaster wired together, for any     *)
(* domains, addresses, peers and capacities.  The invariants of            *)
(* StoreProofs and BroadcasterProofs carry over.                           *)
(***************************************************************************)
EXTENDS ResolveX, StoreProofs

BP == INSTANCE BroadcasterProofs WITH pc <- rpc, list <- rlist

-----------------------------------------------------------------------------
(* Each step is a step of the store, or leaves it alone.                   *)

\* The broadcaster of the wiring is the one that BroadcasterProofs is about.
LEMMA SameSteps == B!Next => BP!Next
<1> SUFFICES ASSUME B!Next PROVE BP!Next
  OBVIOUS
<1>3. CASE B!Runner
  <2>1. B!Shutdown => BP!Shutdown
    BY DEF B!Shutdown, BP!Shutdown, B!caller, BP!caller
  <2>2. B!TakeAction => BP!TakeAction
    BY DEF B!TakeAction, BP!TakeAction, B!AddPeer, BP!AddPeer, B!RemPeer, BP!RemPeer,
           B!Restrict, BP!Restrict, B!Live, BP!Live, B!updateList, BP!updateList,
           B!NoMessage, BP!NoMessage, B!caller, BP!caller
  <2>3. B!TakeOutput => BP!TakeOutput
    BY DEF B!TakeOutput, BP!TakeOutput, B!updateList, BP!updateList,
           B!NoMessage, BP!NoMessage, B!caller, BP!caller
  <2>4. ASSUME NEW p \in Peer PROVE B!Write(p) => BP!Write(p)
    BY DEF B!Write, BP!Write, B!Live, BP!Live, B!updateList, BP!updateList,
           B!NoMessage, BP!NoMessage, B!caller, BP!caller
  <2>5. QED  BY <1>3, <2>1, <2>2, <2>3, <2>4 DEF B!Runner, BP!Runner, BP!Next
<1>4. CASE B!Stop \/ B!BroadcastSend \/ \E m \in B!Message \ {B!NoMessage} : B!BroadcastCheck(m)
  <2>1. B!Stop => BP!Stop
    BY DEF B!Stop, BP!Stop, B!runner, BP!runner, B!caller, BP!caller
  <2>2. B!BroadcastSend => BP!BroadcastSend
    BY DEF B!BroadcastSend, BP!BroadcastSend, B!outputClosed, BP!outputClosed,
           B!NoMessage, BP!NoMessage, B!runner, BP!runner
  <2>3. ASSUME NEW m PROVE B!BroadcastCheck(m) => BP!BroadcastCheck(m)
    BY DEF B!BroadcastCheck, BP!BroadcastCheck, B!closed, BP!closed, B!runner, BP!runner
  <2>4. B!Message = BP!Message /\ B!NoMessage = BP!NoMessage
    BY DEF B!Message, BP!Message, B!NoMessage, BP!NoMessage
  <2>5. QED  BY <1>4, <2>1, <2>2, <2>3, <2>4 DEF BP!Next
<1>5. ASSUME NEW p \in Peer, \/ B!Establish(p) \/ B!Break(p) \/ B!Close(p)
                             \/ B!CallCheck(p) \/ B!CallSend(p)
      PROVE  BP!Next
  <2>1. /\ B!Establish(p) => BP!Establish(p)
        /\ B!Break(p) => BP!Break(p)
        /\ B!Close(p) => BP!Close(p)
    BY DEF B!Establish, BP!Establish, B!Break, BP!Break, B!Close, BP!Close,
           B!runner, BP!runner, B!caller, BP!caller
  <2>2. B!CallCheck(p) => BP!CallCheck(p)
    BY DEF B!CallCheck, BP!CallCheck, B!closed, BP!closed, B!runner, BP!runner,
           B!caller, BP!caller
  <2>3. B!CallSend(p) => BP!CallSend(p)
    BY DEF B!CallSend, BP!CallSend, B!Add, BP!Add, B!Rem, BP!Rem,
           B!actionClosed, BP!actionClosed, B!runner, BP!runner, B!caller, BP!caller
  <2>4. QED  BY <1>5, <2>1, <2>2, <2>3 DEF BP!Next
<1>6. QED  BY <1>3, <1>4, <1>5 DEF B!Next

LEMMA SameSpecification == B!Spec => BP!Spec
<1>1. B!Init => BP!Init
  BY DEF B!Init, BP!Init, B!NoMessage, BP!NoMessage
<1>2. UNCHANGED B!vars => UNCHANGED BP!vars
  BY DEF B!vars, BP!vars, B!runner, BP!runner, B!caller, BP!caller
<1>3. [B!Next]_(B!vars) => [BP!Next]_(BP!vars)
  BY <1>2, SameSteps
<1>4. QED  BY <1>1, <1>3, PTL DEF B!Spec, BP!Spec

\* What is no call of the store does not touch it.
LEMMA StoreSteps == [XNext]_xvars => [Next]_vars
<1> SUFFICES ASSUME [XNext]_xvars PROVE [Next]_vars
  OBVIOUS
<1>1. CASE HandOver \/ Deliver
  BY <1>1 DEF HandOver, Deliver, Next
<1>2. CASE Calls
  BY <1>2 DEF Calls, Next
<1>3. CASE Holder
  BY <1>3 DEF Holder, Next
<1>4. CASE XRunner \/ Sessions
  BY <1>4 DEF XRunner, Sessions
<1>5. CASE UNCHANGED xvars
  BY <1>5 DEF xvars
<1>6. QED  BY <1>1, <1>2, <1>3, <1>4, <1>5 DEF XNext

-----------------------------------------------------------------------------
(* The caller of Broadcast.                                                *)

\* A call that has reached its Broadcast has something to say.
SomethingToSay == pc = "broadcast" => ~IsEmpty(msg)

\* What the channel adds to the runner's list, message by message.
Lists(h) == /\ h[0] = rlist
            /\ \A i \in 1..Len(output) : h[i] = updateList(h[i - 1], output[i])

XInv == SomethingToSay /\ CallerHoldsLock /\ Pipeline

LEMMA SameMessages ==
    /\ B!Message = Message /\ B!NoMessage = NoMessage
    /\ \A S, m : B!updateList(S, m) = updateList(S, m)
BY DEF B!Message, Message, B!NoMessage, NoMessage, B!updateList, updateList

LEMMA BroadcasterStep ==
    ASSUME IInv, XInv, [XNext]_xvars
    PROVE  [B!Next]_(B!vars)
<1>1. CASE HandOver
  <2>1. CASE B!closed
    BY <1>1, <2>1 DEF HandOver, bvars, B!vars, B!runner, B!caller
  <2>2. CASE ~B!closed
    <3>1. B!BroadcastCheck(msg) /\ pc = "broadcast"
      BY <1>1, <2>2 DEF HandOver
    <3>2. msg \in B!Message \ {B!NoMessage}
      BY <3>1, SameMessages DEF IInv, TypeOK, XInv, SomethingToSay, IsEmpty, NoMessage
    <3>3. QED  BY <3>1, <3>2 DEF B!Next
  <2>3. QED  BY <2>1, <2>2
<1>2. CASE Deliver
  BY <1>2 DEF Deliver, B!Next
<1>3. CASE Calls \/ Holder \/ UNCHANGED xvars
  BY <1>3 DEF Calls, Holder, xvars, bvars, B!vars, B!runner, B!caller
<1>4. CASE XRunner \/ Sessions
  BY <1>4 DEF XRunner, Sessions, B!Next
<1>5. QED  BY <1>1, <1>2, <1>3, <1>4 DEF XNext

\* The store alone: it comes to its Broadcast with a message.
LEMMA SayStep == SomethingToSay /\ [Next]_vars => SomethingToSay'
BY DEF SomethingToSay, Next, vars, Create, Delete, UpdateDrop, UpdateWrite, PublishLock,
       PublishOne, PublishDone, Broadcast, Tick, Finish

\* What the other steps do to the caller and to the pipeline.
LEMMA CallsStep ==
    ASSUME XInv, Calls \/ Holder \/ UNCHANGED xvars
    PROVE  CallerHoldsLock' /\ Pipeline'
<1>1. UNCHANGED bvars /\ UNCHANGED announced
  BY DEF Calls, Holder, xvars, vars, Create, Delete, UpdateDrop, PublishLock, Tick,
         UpdateWrite, PublishOne, PublishDone
<1>2. pub # "idle" => UNCHANGED <<pc, msg>>
  BY DEF XInv, CallerHoldsLock, Calls, Holder, xvars, vars, Create, Delete, UpdateDrop,
         PublishLock, Tick, UpdateWrite, PublishOne, PublishDone
<1>3. CallerHoldsLock'
  BY <1>1, <1>2 DEF XInv, CallerHoldsLock, bvars
<1>4. Pipeline'
  BY <1>1 DEF XInv, Pipeline, bvars, B!closed
<1>5. QED  BY <1>3, <1>4

\* A message leaves the channel for the runner's list.
LEMMA TakenPipeline ==
    ASSUME TypeOK, XInv, output \in Seq(Message), rlist \subseteq Address,
           B!TakeOutput, UNCHANGED announced
    PROVE  Pipeline'
<1>1. /\ output # <<>> /\ Len(output) \in Nat \ {0} /\ ~B!closed
      /\ output' = Tail(output) /\ rlist' = updateList(rlist, output[1])
  BY SameMessages DEF B!TakeOutput, B!closed
<1>2. PICK h \in [0..Len(output) -> SUBSET Address] :
          Lists(h) /\ h[Len(output)] = announced
  BY <1>1 DEF XInv, Pipeline, Lists
<1> DEFINE n == Len(output)
<1>3. PICK g \in [0..n - 1 -> SUBSET Address] : \A i \in 0..n - 1 : g[i] = h[i + 1]
  <2> DEFINE G == [i \in 0..n - 1 |-> h[i + 1]]
  <2>1. G \in [0..n - 1 -> SUBSET Address] /\ \A i \in 0..n - 1 : G[i] = h[i + 1]
    BY <1>1
  <2> HIDE DEF G
  <2>2. QED  BY <2>1
<1>4. Len(output') = n - 1 /\ \A i \in 1..(n - 1) : output'[i] = output[i + 1]
  BY <1>1
<1>5. g[0] = rlist'
  <2>1. h[1] = updateList(h[0], output[1]) /\ g[0] = h[1]
    BY <1>1, <1>2, <1>3 DEF Lists
  <2>2. QED  BY <1>1, <1>2, <2>1 DEF Lists
<1>6. ASSUME NEW i \in 1..(n - 1)
      PROVE  g[i] = updateList(g[i - 1], output'[i])
  <2>1. i + 1 \in 1..n /\ (i + 1) - 1 = i /\ i \in 0..n - 1 /\ i - 1 \in 0..n - 1 /\ (i - 1) + 1 = i
    BY <1>1
  <2>2. h[i + 1] = updateList(h[i], output[i + 1])
    BY <1>2, <2>1 DEF Lists
  <2>3. QED  BY <1>3, <1>4, <2>1, <2>2
<1>7. g[n - 1] = announced'
  BY <1>1, <1>2, <1>3
<1>8. QED  BY <1>3, <1>4, <1>5, <1>6, <1>7 DEF Pipeline, updateList

\* The caller's message enters the channel as it enters announced.
LEMMA SentPipeline ==
    ASSUME TypeOK, TypeOK', XInv, output \in Seq(Message),
           output' = Append(output, msg), announced' = updateList(announced, msg),
           UNCHANGED rlist, B!closed' = B!closed
    PROVE  Pipeline'
<1>1. CASE B!closed
  BY <1>1 DEF Pipeline
<1>2. CASE ~B!closed
  <2> DEFINE n == Len(output)
  <2>1. PICK h \in [0..n -> SUBSET Address] : Lists(h) /\ h[n] = announced
    BY <1>2 DEF XInv, Pipeline, Lists
  <2>2. n \in Nat /\ announced' \in SUBSET Address /\ msg \in Message
    BY DEF TypeOK
  <2>3. PICK g \in [0..n + 1 -> SUBSET Address] :
            g[n + 1] = announced' /\ \A i \in 0..n : g[i] = h[i]
    <3> DEFINE G == [i \in 0..n + 1 |-> IF i = n + 1 THEN announced' ELSE h[i]]
    <3>1. G \in [0..n + 1 -> SUBSET Address] /\ G[n + 1] = announced'
      BY <2>2
    <3>2. \A i \in 0..n : G[i] = h[i]
      BY <2>2
    <3> HIDE DEF G
    <3>3. QED  BY <3>1, <3>2
  <2>4. /\ Len(output') = n + 1 /\ output'[n + 1] = msg
        /\ \A i \in 1..n : output'[i] = output[i]
    BY <2>2
  <2>5. g[0] = rlist'
    BY <2>1, <2>2, <2>3 DEF Lists
  <2>6. ASSUME NEW i \in 1..(n + 1)
        PROVE  g[i] = updateList(g[i - 1], output'[i])
    <3>1. CASE i = n + 1
      <4>1. i - 1 = n /\ g[n] = announced
        BY <2>1, <2>2, <2>3, <3>1
      <4>2. QED  BY <2>3, <2>4, <3>1, <4>1
    <3>2. CASE i # n + 1
      <4>1. i \in 1..n /\ i \in 0..n /\ i - 1 \in 0..n
        BY <2>2, <3>2
      <4>2. QED  BY <2>1, <2>3, <2>4, <4>1 DEF Lists
    <3>3. QED  BY <3>1, <3>2
  <2>7. QED  BY <2>3, <2>4, <2>5, <2>6 DEF Pipeline, updateList
<1>3. QED  BY <1>1, <1>2

LEMMA XStep ==
    ASSUME IInv, IInv', BP!BInv, XInv, [XNext]_xvars
    PROVE  XInv'
<1>1. SomethingToSay'
  BY StoreSteps, SayStep DEF XInv
<1>2. output \in Seq(Message) /\ rlist \subseteq Address /\ TypeOK /\ TypeOK'
  <2>1. BP!Message = Message
    BY DEF BP!Message, Message
  <2>2. QED  BY <2>1 DEF BP!BInv, BP!TypeOK, IInv
<1>3. CASE HandOver
  <2>1. CASE B!closed
    <3>1. UNCHANGED bvars /\ pub = "idle"
      BY <1>3, <2>1 DEF HandOver
    <3>2. QED  BY <1>1, <2>1, <3>1 DEF XInv, CallerHoldsLock, Pipeline, bvars, B!closed
  <2>2. CASE ~B!closed
    <3>1. /\ UNCHANGED <<vars, output, rlist, rpc>> /\ pc = "broadcast"
          /\ pub' = "send" /\ pending' = msg
      BY <1>3, <2>2 DEF HandOver, B!BroadcastCheck, B!runner
    <3>2. QED  BY <1>1, <3>1 DEF XInv, CallerHoldsLock, Pipeline, vars, B!closed
  <2>3. QED  BY <2>1, <2>2
<1>4. CASE Deliver
  <2>1. /\ pub = "send" /\ pc = "broadcast" /\ pending = msg
        /\ UNCHANGED <<rlist, rpc>> /\ B!closed' = B!closed
    BY <1>4 DEF Deliver, B!BroadcastSend, XInv, CallerHoldsLock, B!runner, B!closed
  <2>2. CASE pub' = "idle"
    <3>1. Broadcast /\ output' = Append(output, msg)
      BY <1>4, <2>1, <2>2 DEF Deliver, B!BroadcastSend
    <3>2. Pipeline'
      BY <1>2, <2>1, <3>1, SentPipeline DEF Broadcast
    <3>3. QED  BY <1>1, <2>2, <3>2 DEF XInv, CallerHoldsLock
  <2>3. CASE pub' # "idle"
    <3>1. pub' = "panicked" /\ UNCHANGED <<vars, output>>
      BY <1>4, <2>3 DEF Deliver, B!BroadcastSend
    <3>2. QED  BY <1>1, <2>1, <3>1 DEF XInv, CallerHoldsLock, Pipeline, vars
  <2>4. QED  BY <2>2, <2>3
<1>5. CASE Calls \/ Holder \/ UNCHANGED xvars
  BY <1>1, <1>5, CallsStep DEF XInv
<1>6. CASE XRunner
  <2>1. UNCHANGED <<vars, pub, pending>>
    BY <1>6 DEF XRunner, B!Runner, B!Shutdown, B!TakeAction, B!TakeOutput, B!Write, B!caller
  <2>2. CallerHoldsLock'
    BY <2>1 DEF XInv, CallerHoldsLock, vars
  <2>3. CASE B!TakeOutput
    BY <1>1, <1>2, <2>1, <2>2, <2>3, TakenPipeline DEF XInv, vars
  <2>4. CASE B!Shutdown \/ B!TakeAction \/ \E p \in Peer : B!Write(p)
    <3>1. UNCHANGED <<output, rlist>> /\ (B!closed => B!closed')
      BY <2>4 DEF B!Shutdown, B!TakeAction, B!Write, B!closed
    <3>2. QED  BY <1>1, <2>1, <2>2, <3>1 DEF XInv, Pipeline, vars
  <2>5. QED  BY <1>6, <2>3, <2>4 DEF XRunner, B!Runner
<1>7. CASE Sessions
  <2>1. UNCHANGED <<vars, output, rlist, rpc, pub, pending>>
    BY <1>7 DEF Sessions, B!Stop, B!Establish, B!Break, B!Close, B!CallCheck, B!CallSend,
                B!runner, B!caller
  <2>2. QED  BY <1>1, <2>1 DEF XInv, CallerHoldsLock, Pipeline, vars, B!closed
<1>8. QED  BY <1>3, <1>4, <1>5, <1>6, <1>7 DEF XNext

LEMMA XInitInv == XInit => XInv
<1> SUFFICES ASSUME XInit PROVE XInv
  OBVIOUS
<1>1. SomethingToSay /\ CallerHoldsLock
  BY DEF XInit, Init, B!Init, SomethingToSay, CallerHoldsLock
<1>2. output = <<>> /\ rlist = {} /\ announced = {} /\ Len(output) = 0
  BY DEF XInit, Init, B!Init
<1>3. Pipeline
  <2> DEFINE h == [i \in 0..0 |-> {}]
  <2>1. h \in [0..Len(output) -> SUBSET Address] /\ h[0] = {}
    BY <1>2
  <2> HIDE DEF h
  <2>2. QED  BY <1>2, <2>1 DEF Pipeline
<1>4. QED  BY <1>1, <1>3 DEF XInv

\* The invariants of the two, and of what is between them.
JInv == IInv /\ BP!BInv /\ XInv

LEMMA JInitInv == XInit => JInv
<1> SUFFICES ASSUME XInit PROVE JInv
  OBVIOUS
<1>1. IInv
  BY InitInv DEF XInit
<1>2. BP!Init
  BY DEF XInit, B!Init, BP!Init, B!NoMessage, BP!NoMessage
<1>3. BP!BInv
  BY <1>2, WiringAssumption, BP!InitBInv DEF B!BroadcasterAssumption
<1>4. QED  BY <1>1, <1>3, XInitInv DEF JInv

LEMMA JStep == JInv /\ [XNext]_xvars => JInv'
<1> SUFFICES ASSUME JInv, [XNext]_xvars PROVE JInv'
  OBVIOUS
<1>1. IInv'
  BY StoreSteps, StepInv DEF JInv
<1>2. [B!Next]_(B!vars)
  BY BroadcasterStep DEF JInv
<1>3. UNCHANGED B!vars => UNCHANGED BP!vars
  BY DEF B!vars, BP!vars, B!runner, BP!runner, B!caller, BP!caller
<1>4. BP!BInv'
  BY <1>2, <1>3, SameSteps, WiringAssumption, BP!NextBInv
     DEF JInv, B!BroadcasterAssumption
<1>5. XInv'
  BY <1>1, XStep DEF JInv
<1>6. QED  BY <1>1, <1>4, <1>5 DEF JInv

LEMMA JInvariance == XSpec => []JInv
BY JInitInv, JStep, PTL DEF XSpec

-----------------------------------------------------------------------------
(* The theorems.                                                           *)

\* The broadcaster, wired to the store, keeps to its own specification: the
\* lock of the store makes the calls of Broadcast come one at a time.
THEOREM WiringKeepsBroadcaster == XSpec => BroadcasterKept
<1>1. XInit => B!Init
  BY DEF XInit
<1>2. JInv /\ [XNext]_xvars => [B!Next]_(B!vars)
  BY BroadcasterStep DEF JInv
<1>3. QED  BY <1>1, <1>2, JInvariance, PTL DEF XSpec, BroadcasterKept, B!Spec

\* Whoever has found the broadcaster open holds the store's write lock.
THEOREM LockSpansBroadcast == XSpec => []CallerHoldsLock
BY JInvariance, PTL DEF JInv, XInv

\* Nothing is lost between the store and the runner while the broadcaster is
\* open, whatever the capacity of the channel.
THEOREM NothingLostBetween == XSpec => []Pipeline
BY JInvariance, PTL DEF JInv, XInv

LEMMA QuietMeansTold == JInv => PeersKnowTheDomains
<1> SUFFICES ASSUME JInv, pc = "idle", output = <<>>, rpc = "select",
                    NEW p \in DOMAIN peer, B!Live(p, peer[p]), p \notin missed
             PROVE  rib[p] = Wanted
  BY DEF PeersKnowTheDomains
<1>1. ~B!closed /\ Len(output) = 0
  BY DEF B!closed
<1>2. PICK h \in [0..0 -> SUBSET Address] : h[0] = rlist /\ h[0] = announced
  BY <1>1 DEF JInv, XInv, Pipeline
<1>3. announced = DOMAIN list
  <2>1. msg = NoMessage
    BY DEF JInv, IInv, CallState, IsEmpty, TypeOK, Message, NoMessage
  <2>2. updateList(announced, NoMessage) = announced
    BY DEF updateList, NoMessage
  <2>3. QED  BY <2>1, <2>2, IPsListIsDomain DEF JInv, IInv, AnnouncedMatches
<1>4. DOMAIN list = Wanted
  BY DEF JInv, IInv, RefCounts, Wanted
<1>5. rib[p] = rlist
  <2>1. rest = {}
    BY DEF JInv, BP!BInv, BP!Told
  <2>2. BP!Live(p, peer[p])
    BY DEF B!Live, BP!Live
  <2>3. QED  BY <2>1, <2>2 DEF JInv, BP!BInv, BP!InSync
<1>6. QED  BY <1>2, <1>3, <1>4, <1>5

\* End to end: with no call and no message under way, a registered peer whose
\* session lives and that no failed writer made the runner skip has been told
\* exactly the addresses that the store's domains hold.
THEOREM PeersAreTold == XSpec => []PeersKnowTheDomains
BY JInvariance, QuietMeansTold, PTL
=============================================================================
