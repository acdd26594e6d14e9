------------------------- MODULE BroadcasterProofs -------------------------
(***************************************************************************)
(* What holds of Broadcaster for any peers, addresses, channel capacities  *)
(* and number of sessions.                                                 *)
(*                                                                         *)
(* The argument is about the queue of AddPeer and DelPeer calls.  For each *)
(* peer there is a history of writers: the one in the map, then the one    *)
(* that is in the map after each waiting call.  In that history additions  *)
(* and removals alternate, and its end agrees with the plugin's callbacks. *)
(***************************************************************************)
EXTENDS Broadcaster, TLAPS

\* The writer that the runner has for p; no session has number 0.
Writer(p) == IF p \in DOMAIN peer THEN peer[p] ELSE 0

\* The call m turns the writer v of p into w.  A removal is of a session
\* that is over.
Turns(p, m, v, w) ==
    \/ m.Peer # p /\ w = v
    \/ m.Peer = p /\ m.Action = "addPeer" /\ v = 0 /\ w = m.writer /\ w # 0
    \/ m.Peer = p /\ m.Action = "remPeer" /\ v # 0 /\ ~Live(p, v) /\ w = 0

\* What the callbacks of p expect of the writer w at the end of the queue.
Expects(p, w) ==
    /\ fsm[p] = "sendAdd" => w = 0
    /\ fsm[p] = "sendDel" => w = sess[p]
    /\ ~closed => /\ fsm[p] \in {"down", "add"} => w = 0
                  /\ fsm[p] \in {"up", "del"} => w = sess[p]

\* The writer at the end was there from h on, or its AddPeer is in the queue.
From(p, W, h) ==
    LET n == Len(action) IN
    W[n] # 0 => W[h] = W[n] \/ \E j \in (h + 1)..n : action[j] = Add(p, W[n])

History(p, W) ==
    /\ W \in [0..Len(action) -> 0..sess[p]]
    /\ W[0] = Writer(p)
    /\ \A i \in 1..Len(action) : Turns(p, action[i], W[i - 1], W[i])
    /\ Expects(p, W[Len(action)])
    /\ \A h \in 0..Len(action) : From(p, W, h)

Histories ==
    \A p \in Peer : \E W \in [0..Len(action) -> 0..sess[p]] : History(p, W)

\* A callback runs for a session, and the session is over when it is closed.
Sessions ==
    \A p \in Peer : /\ fsm[p] # "down" => sess[p] # 0
                    /\ fsm[p] \in {"down", "del", "sendDel"} => link[p] # "up"

\* A session that is not registered has been told nothing, and one whose turn
\* is to come lacks only the current message.
Told ==
    /\ pc # "write" => rest = {}
    /\ \A p \in Peer :
           /\ link[p] = "up" /\ Writer(p) # sess[p] => rib[p] = {}
           /\ p \in rest \ missed /\ Live(p, Writer(p)) => updateList(rib[p], cur) = list

BInv == TypeOK /\ Histories /\ Sessions /\ Told /\ InSync

-----------------------------------------------------------------------------
(* The histories.                                                          *)

ActionType == [Action : {"addPeer", "remPeer"}, Peer : Peer, writer : 0..MaxSession]

\* A history stays one while the queue and the map stay as they are.
LEMMA QuietHistory ==
    ASSUME TypeOK, NEW p \in Peer, NEW W, History(p, W),
           UNCHANGED <<action, peer>>,
           sess'[p] \in Nat, sess'[p] >= sess[p],
           \A k \in 1..sess[p] : Live(p, k)' => Live(p, k),
           Expects(p, W[Len(action)])'
    PROVE  W \in [0..Len(action)' -> 0..sess'[p]] /\ History(p, W)'
<1> DEFINE n == Len(action)
<1>1. n \in Nat /\ sess[p] \in Nat
  BY DEF TypeOK
<1>2. W \in [0..n -> 0..sess'[p]]
  BY <1>1 DEF History
<1>3. W[0] = Writer(p)'
  BY DEF History, Writer
<1>4. ASSUME NEW i \in 1..n
      PROVE  Turns(p, action[i], W[i - 1], W[i])'
  <2>1. i - 1 \in 0..n /\ W[i - 1] \in 0..sess[p] /\ Turns(p, action[i], W[i - 1], W[i])
    BY <1>1, <1>4 DEF History
  <2>2. QED  BY <2>1 DEF Turns
<1>5. \A h \in 0..n : From(p, W, h)'
  BY DEF History, From, Add
<1>6. QED  BY <1>2, <1>3, <1>4, <1>5 DEF History

\* A call sent to the queue extends the history.
LEMMA SentHistory ==
    ASSUME TypeOK, NEW p \in Peer, NEW W, History(p, W),
           NEW m \in ActionType, action' = Append(action, m),
           UNCHANGED <<peer, sess, link>>,
           NEW w \in 0..sess[p], Turns(p, m, W[Len(action)], w),
           m.Action = "addPeer" /\ m.Peer = p => m = Add(p, w),
           Expects(p, w)'
    PROVE  \E V \in [0..Len(action)' -> 0..sess'[p]] : History(p, V)'
<1> DEFINE n == Len(action)
<1>1. /\ n \in Nat /\ action \in Seq(ActionType) /\ sess[p] \in Nat
      /\ W \in [0..n -> 0..sess[p]]
  BY DEF TypeOK, History, ActionType
<1>2. /\ Len(action') = n + 1 /\ action'[n + 1] = m
      /\ \A i \in 1..n : action'[i] = action[i]
  BY <1>1
<1>3. PICK V \in [0..n + 1 -> 0..sess[p]] : V[n + 1] = w /\ \A i \in 0..n : V[i] = W[i]
  <2> DEFINE U == [i \in 0..n + 1 |-> IF i = n + 1 THEN w ELSE W[i]]
  <2>1. U \in [0..n + 1 -> 0..sess[p]] /\ U[n + 1] = w
    BY <1>1
  <2>2. \A i \in 0..n : U[i] = W[i]
    BY <1>1
  <2> HIDE DEF U
  <2>3. QED  BY <2>1, <2>2
<1>4. V[0] = Writer(p)'
  BY <1>1, <1>3 DEF History, Writer
<1>5. ASSUME NEW i \in 1..(n + 1)
      PROVE  Turns(p, action[i], V[i - 1], V[i])'
  <2>1. CASE i = n + 1
    BY <1>1, <1>2, <1>3, <2>1 DEF Turns, Live
  <2>2. CASE i # n + 1
    <3>1. i \in 1..n /\ i \in 0..n /\ i - 1 \in 0..n
      BY <1>1, <1>5, <2>2
    <3>2. Turns(p, action[i], W[i - 1], W[i])
      BY <3>1 DEF History
    <3>3. QED  BY <1>2, <1>3, <3>1, <3>2 DEF Turns, Live
  <2>3. QED  BY <2>1, <2>2
<1>6. ASSUME NEW h \in 0..(n + 1)
      PROVE  From(p, V, h)'
  <2>1. SUFFICES ASSUME w # 0
                 PROVE  V[h] = w \/ \E j \in (h + 1)..(n + 1) : action'[j] = Add(p, w)
    BY <1>2, <1>3 DEF From, Add
  <2>2. CASE h = n + 1
    BY <1>3, <2>2
  <2>3. CASE h # n + 1 /\ m.Peer # p
    <3>1. h \in 0..n /\ w = W[n]
      BY <1>1, <1>6, <2>3 DEF Turns
    <3>2. From(p, W, h)
      BY <3>1 DEF History
    <3>3. W[h] = w \/ \E j \in (h + 1)..n : action[j] = Add(p, w)
      BY <2>1, <3>1, <3>2 DEF From
    <3>4. QED  BY <1>1, <1>2, <1>3, <3>1, <3>3
  <2>4. CASE h # n + 1 /\ m.Peer = p
    <3>1. m = Add(p, w)
      BY <2>1, <2>4 DEF Turns
    <3>2. n + 1 \in (h + 1)..(n + 1)
      BY <1>1, <1>6, <2>4
    <3>3. QED  BY <1>2, <3>1, <3>2
  <2>5. QED  BY <2>2, <2>3, <2>4
<1>7. Len(action)' = n + 1 /\ V[Len(action)]' = w
  BY <1>2, <1>3
<1>8. V \in [0..Len(action)' -> 0..sess'[p]] /\ History(p, V)'
  BY <1>2, <1>3, <1>4, <1>5, <1>6, <1>7 DEF History
<1>9. QED  BY <1>8

\* Taking the head of the queue makes its writer the one in the map.
LEMMA TakenHistory ==
    ASSUME TypeOK, NEW p \in Peer, NEW W, History(p, W),
           action # <<>>, action' = Tail(action),
           UNCHANGED <<sess, link, fsm, pc>>, Writer(p)' = W[1]
    PROVE  \E V \in [0..Len(action)' -> 0..sess'[p]] : History(p, V)'
<1> DEFINE n == Len(action)
<1>1. /\ n \in Nat \ {0} /\ action \in Seq(ActionType) /\ sess[p] \in Nat
      /\ W \in [0..n -> 0..sess[p]]
  BY DEF TypeOK, History, ActionType
<1>2. Len(action') = n - 1 /\ \A i \in 1..(n - 1) : action'[i] = action[i + 1]
  BY <1>1
<1>3. PICK V \in [0..n - 1 -> 0..sess[p]] : \A i \in 0..n - 1 : V[i] = W[i + 1]
  <2>1. [i \in 0..n - 1 |-> W[i + 1]] \in [0..n - 1 -> 0..sess[p]]
    BY <1>1
  <2>2. QED  BY <1>1, <2>1
<1>4. V[0] = Writer(p)' /\ V[n - 1] = W[n]
  BY <1>1, <1>3
<1>5. ASSUME NEW i \in 1..(n - 1)
      PROVE  Turns(p, action[i], V[i - 1], V[i])'
  <2>1. i + 1 \in 1..n /\ (i + 1) - 1 = i /\ i \in 0..n - 1 /\ i - 1 \in 0..n - 1 /\ (i - 1) + 1 = i
    BY <1>1, <1>5
  <2>2. Turns(p, action[i + 1], W[i], W[i + 1])
    BY <2>1 DEF History
  <2>3. V[i - 1] = W[i] /\ V[i] = W[i + 1]
    BY <1>3, <2>1
  <2>4. QED  BY <1>2, <1>5, <2>2, <2>3 DEF Turns, Live
<1>6. ASSUME NEW h \in 0..(n - 1)
      PROVE  From(p, V, h)'
  <2>1. SUFFICES ASSUME W[n] # 0
                 PROVE  V[h] = W[n] \/ \E j \in (h + 1)..(n - 1) : action'[j] = Add(p, W[n])
    BY <1>2, <1>4 DEF From, Add
  <2>2. h + 1 \in 0..n /\ From(p, W, h + 1)
    BY <1>1, <1>6 DEF History
  <2>3. CASE W[h + 1] = W[n]
    BY <1>3, <1>6, <2>3
  <2>4. CASE \E j \in (h + 2)..n : action[j] = Add(p, W[n])
    <3>1. PICK j \in (h + 2)..n : action[j] = Add(p, W[n])
      BY <2>4
    <3>2. j - 1 \in (h + 1)..(n - 1) /\ j - 1 \in 1..(n - 1) /\ (j - 1) + 1 = j
      BY <1>1, <1>6, <3>1
    <3>3. action'[j - 1] = action[j]
      BY <1>2, <3>2
    <3>4. QED  BY <3>1, <3>2, <3>3
  <2>5. QED  BY <1>1, <2>1, <2>2, <2>3, <2>4 DEF From
<1>7. Expects(p, W[n])
  BY DEF History
<1>8. Len(action)' = n - 1 /\ V[Len(action)]' = W[n] /\ Expects(p, V[Len(action)])'
  BY <1>2, <1>4, <1>7 DEF Expects, closed
<1>9. V \in [0..Len(action)' -> 0..sess'[p]] /\ History(p, V)'
  BY <1>2, <1>3, <1>4, <1>5, <1>6, <1>8 DEF History
<1>10. QED  BY <1>9
-----------------------------------------------------------------------------
(* The type of the state.                                                  *)

LEMMA MessageType ==
    /\ NoMessage \in Message
    /\ \A S \in SUBSET Address : [NoMessage EXCEPT !.ToUpdate = S] \in Message
    /\ \A S \in SUBSET Address, m \in Message : updateList(S, m) \subseteq Address
BY DEF NoMessage, Message, updateList

LEMMA Queue ==
    ASSUME NEW S, NEW q \in Seq(S), NEW cap \in Nat, Len(q) <= cap
    PROVE  /\ \A m \in S : Len(q) < cap => Append(q, m) \in Seq(S) /\ Len(Append(q, m)) <= cap
           /\ q # <<>> => Head(q) \in S /\ Tail(q) \in Seq(S) /\ Len(Tail(q)) <= cap
<1>1. ASSUME NEW m \in S, Len(q) < cap
      PROVE  Append(q, m) \in Seq(S) /\ Len(Append(q, m)) <= cap
  <2>1. Len(Append(q, m)) = Len(q) + 1 /\ Len(q) \in Nat
    OBVIOUS
  <2>2. QED  BY <1>1, <2>1
<1>2. ASSUME q # <<>>
      PROVE  Head(q) \in S /\ Tail(q) \in Seq(S) /\ Len(Tail(q)) <= cap
  <2>1. Len(Tail(q)) = Len(q) - 1 /\ Len(q) \in Nat
    BY <1>2
  <2>2. QED  BY <1>2, <2>1
<1>3. QED  BY <1>1, <1>2

LEMMA TypeInit == Init => TypeOK
<1> SUFFICES ASSUME Init PROVE TypeOK
  OBVIOUS
<1> USE DEF Init
<1>1. action \in Seq(ActionType) /\ output \in Seq(Message) /\ Len(action) = 0 /\ Len(output) = 0
  OBVIOUS
<1>2. DOMAIN peer = {} /\ peer \in [DOMAIN peer -> 1..MaxSession]
  OBVIOUS
<1>3. sess \in [Peer -> 0..MaxSession]
  BY BroadcasterAssumption
<1>4. Len(action) <= ActionCap /\ Len(output) <= OutputCap
  BY <1>1, BroadcasterAssumption
<1>5. /\ list \subseteq Address /\ rest \subseteq DOMAIN peer /\ rib \in [Peer -> SUBSET Address]
      /\ fsm \in [Peer -> {"down", "add", "sendAdd", "up", "del", "sendDel", "panicked"}]
      /\ link \in [Peer -> {"down", "up", "broken"}]
  OBVIOUS
<1>6. QED  BY <1>1, <1>2, <1>3, <1>4, <1>5, MessageType DEF TypeOK, ActionType

LEMMA TypeBroadcast ==
    ASSUME TypeOK, (\E m \in Message : BroadcastCheck(m)) \/ BroadcastSend
    PROVE  TypeOK'
<1>1. CASE \E m \in Message : BroadcastCheck(m)
  BY <1>1 DEF TypeOK, BroadcastCheck, runner
<1>2. CASE BroadcastSend
  <2>1. output' \in Seq(Message) /\ Len(output') <= OutputCap
    <3>1. /\ output \in Seq(Message) /\ Len(output) <= OutputCap /\ pending \in Message
          /\ OutputCap \in Nat
      BY BroadcasterAssumption DEF TypeOK
    <3>2. Len(output) < OutputCap => /\ Append(output, pending) \in Seq(Message)
                                     /\ Len(Append(output, pending)) <= OutputCap
      BY <3>1, Queue
    <3>3. QED  BY <1>2, <3>1, <3>2 DEF BroadcastSend
  <2>2. QED  BY <1>2, <2>1, MessageType DEF TypeOK, BroadcastSend, runner
<1>3. QED  BY <1>1, <1>2

LEMMA TypeSession ==
    ASSUME TypeOK, NEW p \in Peer,
           Establish(p) \/ Break(p) \/ Close(p) \/ CallCheck(p) \/ Stop \/ Shutdown
    PROVE  TypeOK'
<1>1. CASE Establish(p)
  <2>1. sess' \in [Peer -> 0..MaxSession]
    BY <1>1, BroadcasterAssumption DEF TypeOK, Establish
  <2>2. QED  BY <1>1, <2>1 DEF TypeOK, Establish, caller
<1>2. CASE Break(p) \/ Close(p)
  BY <1>2 DEF TypeOK, Break, Close, runner, caller
<1>3. CASE CallCheck(p)
  BY <1>3 DEF TypeOK, CallCheck, runner, caller
<1>4. CASE Stop \/ Shutdown
  BY <1>4 DEF TypeOK, Stop, Shutdown, runner, caller
<1>5. QED  BY <1>1, <1>2, <1>3, <1>4

LEMMA TypeCallSend ==
    ASSUME TypeOK, NEW p \in Peer, CallSend(p)
    PROVE  TypeOK'
<1>1. Add(p, sess[p]) \in ActionType /\ Rem(p) \in ActionType
  BY BroadcasterAssumption DEF TypeOK, Add, Rem, ActionType
<1>2. action' \in Seq(ActionType) /\ Len(action') <= ActionCap
  <2>1. action \in Seq(ActionType) /\ Len(action) <= ActionCap /\ ActionCap \in Nat
    BY BroadcasterAssumption DEF TypeOK, ActionType
  <2>2. ASSUME NEW m \in ActionType, Len(action) < ActionCap
        PROVE  Append(action, m) \in Seq(ActionType) /\ Len(Append(action, m)) <= ActionCap
    BY <2>1, <2>2, Queue
  <2>3. QED  BY <1>1, <2>1, <2>2 DEF CallSend
<1>3. fsm' \in [Peer -> {"down", "add", "sendAdd", "up", "del", "sendDel", "panicked"}]
  BY DEF TypeOK, CallSend
<1>4. QED  BY <1>2, <1>3 DEF TypeOK, CallSend, runner, caller, ActionType

\* An AddPeer that waits carries the number of a session.
LEMMA TypeTakeAction ==
    ASSUME TypeOK, rest = {}, TakeAction,
           Head(action).Action = "addPeer" => Head(action).writer # 0
    PROVE  TypeOK'
<1> DEFINE m == Head(action)
<1>1. /\ m \in ActionType /\ action' \in Seq(ActionType) /\ Len(action') <= ActionCap
  BY Queue, BroadcasterAssumption DEF TypeOK, TakeAction, ActionType
<1>2. /\ DOMAIN peer' \subseteq Peer /\ peer' \in [DOMAIN peer' -> 1..MaxSession]
      /\ rib' \in [Peer -> SUBSET Address]
  <2>1. CASE m.Action = "addPeer"
    <3>1. m.writer \in 1..MaxSession /\ m.Peer \in Peer
      BY <1>1, <2>1, BroadcasterAssumption DEF ActionType
    <3>2. AddPeer(m.Peer, m.writer)
      BY <2>1 DEF TakeAction
    <3>3. DOMAIN peer' \subseteq Peer /\ peer' \in [DOMAIN peer' -> 1..MaxSession]
      BY <3>1, <3>2 DEF AddPeer, TypeOK
    <3>4. rib' \in [Peer -> SUBSET Address]
      BY <3>1, <3>2, MessageType DEF AddPeer, TypeOK
    <3>5. QED  BY <3>3, <3>4
  <2>2. CASE m.Action # "addPeer"
    BY <2>2 DEF TakeAction, RemPeer, Restrict, TypeOK
  <2>3. QED  BY <2>1, <2>2
<1>3. QED  BY <1>1, <1>2 DEF TypeOK, TakeAction, caller, ActionType

LEMMA TypeWrite ==
    ASSUME TypeOK, TakeOutput \/ \E p \in Peer : Write(p)
    PROVE  TypeOK'
<1>1. CASE TakeOutput
  <2>1. Head(output) \in Message /\ output' \in Seq(Message) /\ Len(output') <= OutputCap
    BY <1>1, Queue, BroadcasterAssumption DEF TypeOK, TakeOutput
  <2>2. /\ list' \subseteq Address /\ pc' \in {"select", "write"}
        /\ cur' \in Message /\ rest' \subseteq DOMAIN peer
    BY <1>1, <2>1, MessageType DEF TypeOK, TakeOutput
  <2>3. QED  BY <1>1, <2>1, <2>2 DEF TypeOK, TakeOutput, caller
<1>2. ASSUME NEW p \in Peer, Write(p) PROVE TypeOK'
  <2>1. rib' \in [Peer -> SUBSET Address] /\ cur' \in Message
    <3>1. updateList(rib[p], cur) \in SUBSET Address
      BY MessageType DEF TypeOK
    <3>2. QED  BY <1>2, <3>1, MessageType DEF TypeOK, Write
  <2>2. rest' \subseteq DOMAIN peer /\ missed' \subseteq Peer /\ pc' \in {"select", "write"}
    BY <1>2 DEF TypeOK, Write
  <2>3. QED  BY <1>2, <2>1, <2>2 DEF TypeOK, Write, caller
<1>3. QED  BY <1>1, <1>2

-----------------------------------------------------------------------------
(* The steps that leave the queue, the map and the sessions alone.         *)

LEMMA QuietSteps ==
    ASSUME TypeOK, Histories, Sessions, UNCHANGED <<action, peer, fsm, sess, link>>,
           closed => closed'
    PROVE  Histories' /\ Sessions'
<1>1. ASSUME NEW p \in Peer
      PROVE  \E W \in [0..Len(action)' -> 0..sess'[p]] : History(p, W)'
  <2>1. PICK W \in [0..Len(action) -> 0..sess[p]] : History(p, W)
    BY DEF Histories
  <2>2. Expects(p, W[Len(action)])' /\ \A k \in 1..sess[p] : Live(p, k)' => Live(p, k)
    BY <2>1 DEF History, Expects, Live
  <2>3. sess'[p] \in Nat /\ sess'[p] >= sess[p]
    BY DEF TypeOK
  <2>4. QED  BY <2>1, <2>2, <2>3, QuietHistory
<1>2. QED  BY <1>1 DEF Histories, Sessions

LEMMA BroadcastStep ==
    ASSUME BInv, (\E m \in Message : BroadcastCheck(m)) \/ BroadcastSend \/ Stop \/ Shutdown
    PROVE  BInv'
<1>1. TypeOK'
  <2>1. CASE (\E m \in Message : BroadcastCheck(m)) \/ BroadcastSend
    BY <2>1, TypeBroadcast DEF BInv
  <2>2. CASE Stop
    BY <2>2 DEF BInv, TypeOK, Stop, runner, caller
  <2>3. CASE Shutdown
    BY <2>3 DEF BInv, TypeOK, Shutdown, caller
  <2>4. QED  BY <2>1, <2>2, <2>3
<1>2. /\ UNCHANGED <<action, peer, fsm, sess, link, rib, list, cur, rest, missed>>
      /\ closed => closed'
      /\ pc' = "write" => pc = "write"
  BY DEF BroadcastCheck, BroadcastSend, Stop, Shutdown, runner, closed
<1>3. Histories' /\ Sessions'
  BY <1>2, QuietSteps DEF BInv
<1>4. Told' /\ InSync'
  <2>1. pc = "write" /\ pc' # "write" => FALSE
    BY DEF BroadcastCheck, BroadcastSend, Stop, Shutdown, runner
  <2>2. QED  BY <1>2, <2>1 DEF BInv, Told, InSync, Live, Writer
<1>5. QED  BY <1>1, <1>3, <1>4 DEF BInv

-----------------------------------------------------------------------------
(* The runner.                                                             *)

\* The writers of the map know the list when the runner waits in its select.
LEMMA TakeOutputStep ==
    ASSUME BInv, TakeOutput
    PROVE  BInv'
<1> USE DEF BInv
<1>1. TypeOK'
  BY TypeWrite
<1>2. Histories' /\ Sessions'
  BY QuietSteps DEF TakeOutput, closed
<1>3. /\ UNCHANGED <<peer, sess, link, rib, missed>> /\ rest = {}
      /\ pc' # "write" => rest' = {}
  BY DEF TakeOutput, Told
<1>4. \A p \in DOMAIN peer : Live(p, peer[p]) /\ p \notin missed => rib[p] = list
  BY <1>3 DEF InSync
<1>5. CASE pc' = "write"
  <2>1. rest' = DOMAIN peer /\ list' = updateList(list, cur')
    BY <1>3, <1>5 DEF TakeOutput
  <2>2. Told'
    BY <1>3, <1>4, <1>5, <2>1 DEF Told, Live, Writer
  <2>3. InSync'
    BY <1>3, <2>1 DEF InSync
  <2>4. QED  BY <1>1, <1>2, <2>2, <2>3
<1>6. CASE pc' # "write"
  <2>1. DOMAIN peer = {} \/ list' = list
    <3>1. updateList(list, NoMessage) = list
      BY DEF updateList, NoMessage
    <3>2. QED  BY <1>6, <3>1 DEF TakeOutput
  <2>2. Told'
    BY <1>3, <1>6 DEF Told, Live, Writer
  <2>3. InSync'
    BY <1>3, <1>4, <2>1 DEF InSync, Live
  <2>4. QED  BY <1>1, <1>2, <2>2, <2>3
<1>7. QED  BY <1>5, <1>6

LEMMA WriteStep ==
    ASSUME BInv, NEW p \in Peer, Write(p)
    PROVE  BInv'
<1> USE DEF BInv
<1>1. TypeOK'
  BY TypeWrite
<1>2. Histories' /\ Sessions'
  BY QuietSteps DEF Write, closed
<1>3. /\ pc = "write" /\ p \in rest /\ p \in DOMAIN peer /\ Writer(p) = peer[p]
      /\ UNCHANGED <<peer, sess, link, list>>
      /\ pc' # "write" => rest' = {}
      /\ rest' # {} => cur' = cur
  BY DEF Write, TypeOK, Writer
<1>4. CASE Live(p, peer[p])
  <2>1. rib' = [rib EXCEPT ![p] = updateList(@, cur)] /\ rest' = rest \ {p} /\ missed' = missed
    BY <1>4 DEF Write
  <2>2. rib'[p] = updateList(rib[p], cur) /\ \A q \in Peer \ {p} : rib'[q] = rib[q]
    BY <2>1 DEF TypeOK
  <2>3. Writer(p) = sess[p]
    BY <1>3, <1>4 DEF Live
  <2>4. Told'
    BY <1>3, <2>1, <2>2, <2>3 DEF Told, Live, Writer
  <2>5. p \notin missed => rib'[p] = list
    BY <1>3, <1>4, <2>2 DEF Told
  <2>6. InSync'
    BY <1>3, <2>1, <2>2, <2>5 DEF InSync, Live, TypeOK
  <2>7. QED  BY <1>1, <1>2, <2>4, <2>6
<1>5. CASE ~Live(p, peer[p])
  <2>1. /\ rest' = {} /\ rib' = rib
        /\ missed' = missed \cup {q \in rest : Live(q, peer[q])}
    BY <1>5 DEF Write
  <2>2. Told'
    BY <1>3, <2>1 DEF Told, Live, Writer
  <2>3. InSync'
    BY <1>3, <2>1 DEF InSync, Live, TypeOK
  <2>4. QED  BY <1>1, <1>2, <2>2, <2>3
<1>6. QED  BY <1>4, <1>5

\* The peer of the call at the head of the queue.
LEMMA TakeActionStep ==
    ASSUME BInv, TakeAction
    PROVE  BInv'
<1> USE DEF BInv
<1> DEFINE m == Head(action)
<1>1. /\ rest = {} /\ action # <<>> /\ action' = Tail(action) /\ pc = "select"
      /\ UNCHANGED <<pc, list, cur, rest, missed, fsm, sess, link>>
  BY DEF TakeAction, Told
<1>2. /\ m = action[1] /\ Len(action) \in Nat \ {0} /\ m \in ActionType
      /\ m.Action \in {"addPeer", "remPeer"}
  <2>1. action \in Seq(ActionType) /\ Len(action) \in Nat \ {0}
    BY <1>1 DEF TypeOK, ActionType
  <2>2. m = action[1] /\ m \in ActionType
    BY <1>1, <2>1
  <2>3. QED  BY <2>1, <2>2 DEF ActionType
<1>3. ASSUME NEW q \in Peer
      PROVE  \E v \in 0..sess[q] : Turns(q, m, Writer(q), v)
  <2>1. PICK W \in [0..Len(action) -> 0..sess[q]] : History(q, W)
    BY DEF Histories
  <2>2. 1 \in 1..Len(action) /\ 1 \in 0..Len(action) /\ 1 - 1 = 0
    BY <1>2
  <2>3. Turns(q, m, W[0], W[1]) /\ W[0] = Writer(q) /\ W[1] \in 0..sess[q]
    BY <1>2, <2>1, <2>2 DEF History
  <2>4. QED  BY <2>3
<1>4. ASSUME NEW q \in Peer, NEW v, Turns(q, m, Writer(q), v)
      PROVE  Writer(q)' = v
  <2>1. CASE m.Action = "addPeer"
    <3>1. AddPeer(m.Peer, m.writer)
      BY <2>1 DEF TakeAction
    <3>2. QED  BY <1>4, <2>1, <3>1 DEF AddPeer, Writer, Turns
  <2>2. CASE m.Action = "remPeer"
    <3>1. RemPeer(m.Peer)
      BY <2>2 DEF TakeAction
    <3>2. QED  BY <1>4, <2>2, <3>1 DEF RemPeer, Restrict, Writer, Turns
  <2>3. QED  BY <1>2, <2>1, <2>2
<1>5. TypeOK'
  <2>1. ASSUME m.Action = "addPeer" PROVE m.writer # 0
    <3>1. m.Peer \in Peer
      BY <1>2 DEF ActionType
    <3>2. QED  BY <1>3, <2>1, <3>1 DEF Turns
  <2>2. QED  BY <1>1, <2>1, TypeTakeAction
<1>6. Histories'
  <2>1. ASSUME NEW q \in Peer
        PROVE  \E V \in [0..Len(action)' -> 0..sess'[q]] : History(q, V)'
    <3>1. PICK W \in [0..Len(action) -> 0..sess[q]] : History(q, W)
      BY DEF Histories
    <3>2. 1 \in 1..Len(action) /\ 1 - 1 = 0
      BY <1>2
    <3>3. Turns(q, m, Writer(q), W[1])
      BY <1>2, <3>1, <3>2 DEF History
    <3>4. Writer(q)' = W[1]
      BY <1>4, <3>3
    <3>5. QED  BY <1>1, <3>1, <3>4, TakenHistory
  <2>2. QED  BY <2>1 DEF Histories
<1>7. Sessions'
  BY <1>1 DEF Sessions
<1>8. ASSUME NEW q \in Peer, m.Peer = q, m.Action = "addPeer"
      PROVE  /\ Writer(q) = 0 /\ q \notin DOMAIN peer /\ sess[q] # 0
             /\ link[q] = "up" => rib[q] = {}
             /\ Live(q, m.writer) => rib'[q] = list
             /\ ~Live(q, m.writer) => rib' = rib
             /\ Writer(q)' = m.writer /\ q \in DOMAIN peer' /\ peer'[q] = m.writer
  <2>1. PICK v \in 0..sess[q] : Turns(q, m, Writer(q), v)
    BY <1>3
  <2>2. /\ Writer(q) = 0 /\ v = m.writer /\ v # 0 /\ Writer(q)' = m.writer
    BY <1>4, <1>8, <2>1 DEF Turns
  <2>3. q \notin DOMAIN peer
    BY <2>2 DEF Writer, TypeOK
  <2>4. sess[q] # 0
    BY <2>1, <2>2 DEF TypeOK
  <2>5. link[q] = "up" => rib[q] = {}
    BY <2>2, <2>4 DEF Told
  <2>6. AddPeer(q, m.writer)
    BY <1>8 DEF TakeAction
  <2>7. Live(q, m.writer) => rib'[q] = list
    <3>1. SUFFICES ASSUME Live(q, m.writer) PROVE rib'[q] = list
      OBVIOUS
    <3>2. rib[q] = {}
      BY <2>5, <3>1 DEF Live
    <3>3. updateList({}, [NoMessage EXCEPT !.ToUpdate = list]) = list
      BY DEF updateList, NoMessage
    <3>4. QED  BY <2>3, <2>6, <3>1, <3>2, <3>3 DEF AddPeer, TypeOK
  <2>8. QED  BY <2>2, <2>3, <2>4, <2>5, <2>6, <2>7 DEF AddPeer
<1>9. ASSUME NEW q \in Peer, m.Peer # q \/ m.Action = "remPeer"
      PROVE  rib'[q] = rib[q]
  BY <1>2, <1>9 DEF TakeAction, AddPeer, RemPeer, TypeOK
<1>10. ASSUME NEW q \in Peer, m.Peer # q
       PROVE  Writer(q)' = Writer(q) /\ (q \in DOMAIN peer' <=> q \in DOMAIN peer)
  BY <1>2, <1>10 DEF TakeAction, AddPeer, RemPeer, Restrict, Writer
<1>11. ASSUME NEW q \in Peer, m.Peer = q, m.Action = "remPeer"
       PROVE  q \notin DOMAIN peer' /\ (link[q] = "up" => rib[q] = {})
  <2>1. PICK v \in 0..sess[q] : Turns(q, m, Writer(q), v)
    BY <1>3
  <2>2. ~Live(q, Writer(q))
    BY <1>11, <2>1 DEF Turns
  <2>3. link[q] = "up" => rib[q] = {}
    BY <2>2 DEF Told, Live
  <2>4. QED  BY <1>11, <2>3 DEF TakeAction, RemPeer, Restrict
<1>12. Told'
  <2>1. ASSUME NEW q \in Peer, link[q] = "up", Writer(q)' # sess[q]
        PROVE  rib'[q] = {}
    <3>1. CASE m.Peer # q
      BY <1>9, <1>10, <2>1, <3>1 DEF Told
    <3>2. CASE m.Peer = q /\ m.Action = "addPeer"
      BY <1>8, <2>1, <3>2 DEF Live
    <3>3. CASE m.Peer = q /\ m.Action = "remPeer"
      BY <1>9, <1>11, <2>1, <3>3
    <3>4. QED  BY <1>2, <3>1, <3>2, <3>3
  <2>2. QED  BY <1>1, <2>1 DEF Told
<1>13. InSync'
  <2>1. ASSUME NEW q \in DOMAIN peer', Live(q, peer'[q]), q \notin missed
        PROVE  rib'[q] = list
    <3>1. q \in Peer
      BY <1>5 DEF TypeOK
    <3>2. CASE m.Peer # q
      <4>1. q \in DOMAIN peer /\ peer'[q] = peer[q]
        BY <1>10, <2>1, <3>1, <3>2 DEF Writer
      <4>2. QED  BY <1>1, <1>9, <2>1, <3>1, <3>2, <4>1 DEF InSync
    <3>3. CASE m.Peer = q
      BY <1>2, <1>8, <1>11, <2>1, <3>1, <3>3
    <3>4. QED  BY <3>2, <3>3
  <2>2. QED  BY <1>1, <2>1 DEF InSync, Live
<1>14. QED  BY <1>5, <1>6, <1>7, <1>12, <1>13

-----------------------------------------------------------------------------
(* The sessions.                                                           *)

\* What the runner knows of a peer does not change, and the peer's session
\* does not come to life for a writer that is registered.
LEMMA SessionTold ==
    ASSUME BInv, TypeOK', UNCHANGED <<pc, list, peer, cur, rest>>,
           \A q \in Peer : \/ /\ link'[q] = link[q] /\ sess'[q] = sess[q] /\ rib'[q] = rib[q]
                              /\ q \in missed' <=> q \in missed
                           \/ link'[q] # "up"
                           \/ rib'[q] = {} /\ sess'[q] > sess[q]
    PROVE  Told' /\ InSync'
<1> USE DEF BInv
<1>1. \A q \in Peer : Writer(q)' = Writer(q) /\ Writer(q) \in 0..sess[q]
  <2>1. SUFFICES ASSUME NEW q \in Peer PROVE Writer(q)' = Writer(q) /\ Writer(q) \in 0..sess[q]
    OBVIOUS
  <2>2. PICK W \in [0..Len(action) -> 0..sess[q]] : History(q, W)
    BY DEF Histories
  <2>3. 0 \in 0..Len(action)
    BY DEF TypeOK
  <2>4. QED  BY <2>2, <2>3 DEF History, Writer
<1>2. \A q \in Peer : sess'[q] > sess[q] => ~Live(q, Writer(q))'
  BY <1>1 DEF Live, TypeOK
<1>3. Told'
  BY <1>1, <1>2 DEF Told, Live
<1>4. InSync'
  <2>1. ASSUME NEW q \in DOMAIN peer', Live(q, peer[q])', q \notin rest \cup missed'
        PROVE  rib'[q] = list
    <3>1. q \in Peer /\ Writer(q)' = peer'[q]
      BY DEF TypeOK, Writer
    <3>2. link'[q] = link[q] /\ sess'[q] = sess[q] /\ rib'[q] = rib[q] /\ q \notin missed
      BY <1>2, <2>1, <3>1 DEF Live
    <3>3. QED  BY <2>1, <3>2 DEF InSync, Live
  <2>2. QED  BY <2>1 DEF InSync
<1>5. QED  BY <1>3, <1>4

LEMMA SessionStep ==
    ASSUME BInv, NEW p \in Peer, Establish(p) \/ Break(p) \/ Close(p) \/ CallCheck(p)
    PROVE  BInv'
<1> USE DEF BInv
<1>1. TypeOK'
  BY TypeSession
<1>2. UNCHANGED <<action, pc, list, peer, cur, rest>> /\ closed' = closed
  BY DEF Establish, Break, Close, CallCheck, runner, closed
<1>3. ASSUME NEW q \in Peer \ {p}
      PROVE  /\ link'[q] = link[q] /\ sess'[q] = sess[q] /\ rib'[q] = rib[q]
             /\ fsm'[q] = fsm[q] /\ (q \in missed' <=> q \in missed)
  BY DEF TypeOK, Establish, Break, Close, CallCheck, runner
<1>4. \/ /\ link'[p] = link[p] /\ sess'[p] = sess[p] /\ rib'[p] = rib[p]
         /\ p \in missed' <=> p \in missed
      \/ link'[p] # "up" /\ sess'[p] = sess[p]
      \/ /\ rib'[p] = {} /\ sess'[p] = sess[p] + 1
         /\ fsm[p] = "down" /\ fsm'[p] = "add"
  BY DEF TypeOK, Establish, Break, Close, CallCheck, runner
<1>5. /\ sess[p] \in Nat /\ sess'[p] \in Nat /\ sess'[p] >= sess[p]
      /\ \A k \in 1..sess[p] : Live(p, k)' => Live(p, k)
  BY <1>4 DEF TypeOK, Live
<1>6. Told' /\ InSync'
  BY <1>1, <1>2, <1>3, <1>4, <1>5, SessionTold
<1>7. ASSUME NEW w \in 0..sess[p], Expects(p, w)
      PROVE  Expects(p, w)'
  <2>1. CASE Establish(p) \/ Break(p) \/ Close(p)
    BY <1>2, <1>7, <2>1 DEF Expects, Establish, Break, Close, TypeOK
  <2>2. CASE CallCheck(p)
    BY <1>2, <1>7, <2>2 DEF Expects, CallCheck, TypeOK
  <2>3. QED  BY <2>1, <2>2
<1>8. Histories'
  <2>1. ASSUME NEW q \in Peer
        PROVE  \E W \in [0..Len(action)' -> 0..sess'[q]] : History(q, W)'
    <3>1. PICK W \in [0..Len(action) -> 0..sess[q]] : History(q, W)
      BY DEF Histories
    <3>2. W[Len(action)] \in 0..sess[q] /\ Expects(q, W[Len(action)])
      BY <3>1 DEF History, TypeOK
    <3>3. CASE q = p
      BY <1>2, <1>5, <1>7, <3>1, <3>2, <3>3, QuietHistory
    <3>4. CASE q # p
      <4>1. Expects(q, W[Len(action)])' /\ \A k \in 1..sess[q] : Live(q, k)' => Live(q, k)
        BY <1>2, <1>3, <3>2, <3>4 DEF Expects, Live
      <4>2. sess'[q] \in Nat /\ sess'[q] >= sess[q]
        BY <1>3, <3>4 DEF TypeOK
      <4>3. QED  BY <1>2, <3>1, <4>1, <4>2, QuietHistory
    <3>5. QED  BY <3>3, <3>4
  <2>2. QED  BY <2>1 DEF Histories
<1>9. Sessions'
  <2>1. ASSUME NEW q \in Peer \ {p}
        PROVE  /\ fsm'[q] # "down" => sess'[q] # 0
               /\ fsm'[q] \in {"down", "del", "sendDel"} => link'[q] # "up"
    BY <1>3 DEF Sessions
  <2>2. /\ fsm'[p] # "down" => sess'[p] # 0
        /\ fsm'[p] \in {"down", "del", "sendDel"} => link'[p] # "up"
    BY DEF Sessions, TypeOK, Establish, Break, Close, CallCheck
  <2>3. QED  BY <2>1, <2>2 DEF Sessions
<1>10. QED  BY <1>1, <1>6, <1>8, <1>9

LEMMA CallSendStep ==
    ASSUME BInv, NEW p \in Peer, CallSend(p)
    PROVE  BInv'
<1> USE DEF BInv
<1>1. TypeOK'
  BY TypeCallSend
<1>2. /\ UNCHANGED <<pc, list, peer, cur, rest, missed, sess, link, rib>>
      /\ closed' = closed /\ (actionClosed => closed)
  BY DEF CallSend, runner, closed, actionClosed
<1>3. Told' /\ InSync'
  BY <1>2 DEF Told, InSync, Live, Writer
<1>4. \A q \in Peer \ {p} : fsm'[q] = fsm[q]
  BY DEF CallSend, TypeOK
<1>5. Sessions'
  <2>1. /\ fsm'[p] # "down" => sess'[p] # 0
        /\ fsm'[p] \in {"down", "del", "sendDel"} => link'[p] # "up"
    BY <1>2 DEF CallSend, Sessions, TypeOK
  <2>2. QED  BY <1>2, <1>4, <2>1 DEF Sessions
<1>6. ASSUME NEW q \in Peer
      PROVE  \E V \in [0..Len(action)' -> 0..sess'[q]] : History(q, V)'
  <2>1. PICK W \in [0..Len(action) -> 0..sess[q]] : History(q, W)
    BY DEF Histories
  <2>2. /\ W[Len(action)] \in 0..sess[q] /\ Expects(q, W[Len(action)])
        /\ sess[q] \in Nat /\ sess[p] \in Nat
    <3>1. Len(action) \in Nat /\ sess[q] \in Nat /\ sess[p] \in Nat
      BY DEF TypeOK
    <3>2. Len(action) \in 0..Len(action)
      BY <3>1
    <3>3. QED  BY <2>1, <3>1, <3>2 DEF History
  <2>3. CASE actionClosed
    <3>1. action' = action /\ fsm' = [fsm EXCEPT ![p] = "panicked"]
      BY <2>3 DEF CallSend
    <3>2. Expects(q, W[Len(action)])'
      BY <1>2, <2>2, <2>3, <3>1 DEF Expects, TypeOK
    <3>3. \A k \in 1..sess[q] : Live(q, k)' => Live(q, k)
      BY <1>2 DEF Live
    <3>4. QED  BY <1>2, <2>1, <2>2, <3>1, <3>2, <3>3, QuietHistory
  <2>4. CASE ~actionClosed /\ fsm[p] = "sendAdd"
    <3>1. action' = Append(action, Add(p, sess[p])) /\ fsm'[p] = "up"
      BY <2>4 DEF CallSend, TypeOK
    <3>2. /\ Add(p, sess[p]) \in ActionType /\ Add(p, sess[p]).Peer = p
          /\ Add(p, sess[p]).Action = "addPeer" /\ Add(p, sess[p]).writer = sess[p]
      BY BroadcasterAssumption DEF Add, ActionType, TypeOK
    <3>3. CASE q = p
      <4>1. W[Len(action)] = 0 /\ sess[p] # 0
        BY <2>2, <2>4, <3>3 DEF Expects, Sessions
      <4>2. PICK w \in 0..sess[p] : w = sess[p]
        BY <2>2
      <4>3. Turns(p, Add(p, w), W[Len(action)], w)
        BY <3>2, <4>1, <4>2 DEF Turns
      <4>4. Expects(p, w)'
        BY <1>2, <3>1, <4>2 DEF Expects
      <4>5. QED  BY <1>2, <2>1, <3>1, <3>2, <3>3, <4>2, <4>3, <4>4, SentHistory
    <3>4. CASE q # p
      <4>1. PICK w \in 0..sess[q] : w = W[Len(action)]
        BY <2>2
      <4>2. Turns(q, Add(p, sess[p]), W[Len(action)], w)
        BY <3>2, <3>4, <4>1 DEF Turns
      <4>3. Expects(q, w)'
        BY <1>2, <1>4, <2>2, <3>4, <4>1 DEF Expects
      <4>4. QED  BY <1>2, <2>1, <3>1, <3>2, <3>4, <4>2, <4>3, SentHistory
    <3>5. QED  BY <3>3, <3>4
  <2>5. CASE ~actionClosed /\ fsm[p] = "sendDel"
    <3>1. action' = Append(action, Rem(p)) /\ fsm'[p] = "down"
      BY <2>5 DEF CallSend, TypeOK
    <3>2. Rem(p) \in ActionType /\ Rem(p).Peer = p /\ Rem(p).Action = "remPeer"
      BY BroadcasterAssumption DEF Rem, ActionType
    <3>3. CASE q = p
      <4>1. W[Len(action)] = sess[p] /\ sess[p] # 0 /\ link[p] # "up"
        BY <2>2, <2>5, <3>3 DEF Expects, Sessions
      <4>2. Turns(p, Rem(p), W[Len(action)], 0)
        BY <3>2, <4>1 DEF Turns, Live
      <4>3. Expects(p, 0)'
        BY <1>2, <3>1 DEF Expects
      <4>4. 0 \in 0..sess[p]
        BY <2>2
      <4>5. QED  BY <1>2, <2>1, <3>1, <3>2, <3>3, <4>2, <4>3, <4>4, SentHistory
    <3>4. CASE q # p
      <4>1. PICK w \in 0..sess[q] : w = W[Len(action)]
        BY <2>2
      <4>2. Turns(q, Rem(p), W[Len(action)], w)
        BY <3>2, <3>4, <4>1 DEF Turns
      <4>3. Expects(q, w)'
        BY <1>2, <1>4, <2>2, <3>4, <4>1 DEF Expects
      <4>4. QED  BY <1>2, <2>1, <3>1, <3>2, <3>4, <4>2, <4>3, SentHistory
    <3>5. QED  BY <3>3, <3>4
  <2>6. QED  BY <2>3, <2>4, <2>5 DEF CallSend
<1>7. QED  BY <1>1, <1>3, <1>5, <1>6 DEF Histories

-----------------------------------------------------------------------------
LEMMA InitBInv == Init => BInv
<1> SUFFICES ASSUME Init PROVE BInv
  OBVIOUS
<1>1. TypeOK
  BY TypeInit
<1>2. Histories
  <2>1. ASSUME NEW p \in Peer
        PROVE  \E W \in [0..Len(action) -> 0..sess[p]] : History(p, W)
    <3> DEFINE W == [i \in 0..0 |-> 0]
    <3>1. Len(action) = 0 /\ sess[p] = 0 /\ Writer(p) = 0 /\ fsm[p] = "down" /\ ~closed
      BY DEF Init, Writer, closed
    <3>2. W \in [0..Len(action) -> 0..sess[p]] /\ W[0] = 0
      BY <3>1
    <3> HIDE DEF W
    <3>3. Expects(p, W[Len(action)])
      BY <3>1, <3>2 DEF Expects
    <3>4. \A h \in 0..Len(action) : From(p, W, h)
      BY <3>1, <3>2 DEF From
    <3>5. History(p, W)
      BY <3>1, <3>2, <3>3, <3>4 DEF History
    <3>6. QED  BY <3>2, <3>5
  <2>2. QED  BY <2>1 DEF Histories
<1>3. Sessions /\ Told /\ InSync
  BY DEF Init, Sessions, Told, InSync, Live
<1>4. QED  BY <1>1, <1>2, <1>3 DEF BInv

LEMMA NextBInv == BInv /\ [Next]_vars => BInv'
<1> SUFFICES ASSUME BInv, [Next]_vars PROVE BInv'
  OBVIOUS
<1>1. CASE Runner
  <2>1. CASE Shutdown
    BY <2>1, BroadcastStep
  <2>2. CASE TakeAction
    BY <2>2, TakeActionStep
  <2>3. CASE TakeOutput
    BY <2>3, TakeOutputStep
  <2>4. CASE \E p \in Peer : Write(p)
    BY <2>4, WriteStep
  <2>5. QED  BY <1>1, <2>1, <2>2, <2>3, <2>4 DEF Runner
<1>2. CASE Stop \/ BroadcastSend \/ \E m \in Message \ {NoMessage} : BroadcastCheck(m)
  BY <1>2, BroadcastStep
<1>3. ASSUME NEW p \in Peer, Establish(p) \/ Break(p) \/ Close(p) \/ CallCheck(p)
      PROVE  BInv'
  BY <1>3, SessionStep
<1>4. ASSUME NEW p \in Peer, CallSend(p) PROVE BInv'
  BY <1>4, CallSendStep
<1>5. CASE UNCHANGED vars
  <2>1. UNCHANGED <<action, output, stopping, pc, list, peer, cur, rest, missed, pub,
                    pending, fsm, sess, link, rib>>
    BY <1>5 DEF vars, runner, caller
  <2>2. TypeOK' /\ Told' /\ InSync'
    BY <2>1 DEF BInv, TypeOK, Told, InSync, Live, Writer
  <2>3. Histories' /\ Sessions'
    BY <2>1, QuietSteps DEF BInv, closed
  <2>4. QED  BY <2>2, <2>3 DEF BInv
<1>6. QED  BY <1>1, <1>2, <1>3, <1>4, <1>5 DEF Next

LEMMA BInvariance == Spec => []BInv
BY InitBInv, NextBInv, PTL DEF Spec

-----------------------------------------------------------------------------
(* The theorems.                                                           *)

\* The state has its type: a channel holds no more than its capacity, and
\* every writer in the map is of a session.
THEOREM BroadcasterTypeCorrect == Spec => []TypeOK
BY BInvariance, PTL DEF BInv

\* The runner has told every peer of its map whose session is alive exactly
\* its list, but for the message being written and the messages of which a
\* failed writer deprived it (server.go, run).
THEOREM PeersInSync == Spec => []InSync
BY BInvariance, PTL DEF BInv

LEMMA HeadIsNew == BInv => NoBlindReplace
<1> SUFFICES ASSUME BInv, action # <<>>, Head(action).Action = "addPeer"
             PROVE  Head(action).Peer \notin DOMAIN peer
  BY DEF NoBlindReplace
<1> USE DEF BInv
<1> DEFINE p == Head(action).Peer
<1>1. action \in Seq(ActionType) /\ Len(action) \in Nat \ {0}
  BY DEF TypeOK, ActionType
<1>2. Head(action) = action[1] /\ p \in Peer
  <2>1. Head(action) = action[1] /\ action[1] \in ActionType
    BY <1>1
  <2>2. QED  BY <2>1 DEF ActionType
<1>3. PICK W \in [0..Len(action) -> 0..sess[p]] : History(p, W)
  BY <1>2 DEF Histories
<1>4. 1 \in 1..Len(action) /\ 1 - 1 = 0
  BY <1>1
<1>5. Turns(p, Head(action), W[0], W[1]) /\ W[0] = Writer(p)
  BY <1>2, <1>3, <1>4 DEF History
<1>6. Writer(p) = 0
  BY <1>5 DEF Turns
<1>7. QED  BY <1>6 DEF Writer, TypeOK

\* An AddPeer that the runner takes is of a peer that is not in its map: the
\* branch that replaces a writer without sending it the table is never taken.
THEOREM EveryNewPeerGetsTheTable == Spec => []NoBlindReplace
BY BInvariance, HeadIsNew, PTL

LEMMA UpIsRegistered == BInv => LateDeleteDropsNothing
<1> SUFFICES ASSUME BInv, NEW p \in Peer, fsm[p] = "up", ~closed,
                    \A i \in DOMAIN action : action[i] # Add(p, sess[p])
             PROVE  p \in DOMAIN peer /\ peer[p] = sess[p]
  BY DEF LateDeleteDropsNothing
<1> USE DEF BInv
<1> DEFINE n == Len(action)
<1>1. n \in Nat /\ DOMAIN action = 1..n /\ sess[p] \in Nat
  BY DEF TypeOK
<1>2. PICK W \in [0..n -> 0..sess[p]] : History(p, W)
  BY DEF Histories
<1>3. W[n] = sess[p] /\ sess[p] # 0
  BY <1>2 DEF History, Expects, Sessions
<1>4. 0 \in 0..n /\ From(p, W, 0) /\ W[0] = Writer(p)
  BY <1>1, <1>2 DEF History
<1>5. W[0] = sess[p]
  BY <1>1, <1>3, <1>4 DEF From
<1>6. QED  BY <1>3, <1>4, <1>5 DEF Writer

\* A DelPeer of an earlier session, however late the runner takes it, never
\* drops the writer of the session that is up.
THEOREM LateDeleteIsHarmless == Spec => []LateDeleteDropsNothing
BY BInvariance, UpIsRegistered, PTL

-----------------------------------------------------------------------------
(* How far the two promises that the code breaks do hold.                  *)

\* No session has been lost: each peer has had at most one, and it stands.
NoneLost == \A p \in Peer : link[p] # "broken" /\ sess[p] <= 1

\* A peer that never had a session has no link, and no message was kept from
\* a live peer before a session was lost.
LossInv ==
    /\ \A p \in Peer : sess[p] = 0 <=> link[p] = "down"
    /\ NoneLost => missed = {}

\* While no session has been lost, a peer of the map can be written to.
LEMMA RegisteredIsLive ==
    ASSUME BInv, LossInv, NoneLost, NEW p \in DOMAIN peer
    PROVE  Live(p, peer[p])
<1>1. p \in Peer /\ peer[p] \in 1..MaxSession /\ sess[p] \in 0..MaxSession
  BY DEF BInv, TypeOK
<1>2. PICK W \in [0..Len(action) -> 0..sess[p]] : History(p, W)
  BY <1>1 DEF BInv, Histories
<1>3. Len(action) \in Nat
  BY DEF BInv, TypeOK
<1>4. peer[p] = W[0] /\ W[0] \in 0..sess[p]
  BY <1>2, <1>3 DEF History, Writer
<1>5. peer[p] = 1 /\ sess[p] = 1
  BY <1>1, <1>4, BroadcasterAssumption DEF NoneLost
<1>6. link[p] = "up"
  BY <1>1, <1>5 DEF BInv, TypeOK, LossInv, NoneLost
<1>7. QED  BY <1>5, <1>6 DEF Live

\* A session that is lost leaves its mark: a broken link or a higher number.
LEMMA LossStep == BInv /\ LossInv /\ [Next]_vars => LossInv'
<1> SUFFICES ASSUME BInv, LossInv, [Next]_vars PROVE LossInv'
  OBVIOUS
<1>1. sess \in [Peer -> 0..MaxSession] /\ link \in [Peer -> {"down", "up", "broken"}]
      /\ MaxSession \in Nat
  BY BroadcasterAssumption DEF BInv, TypeOK
<1>2. ASSUME UNCHANGED <<sess, link, missed>> PROVE LossInv'
  BY <1>2 DEF LossInv, NoneLost
<1>3. ASSUME NEW p \in Peer, Establish(p) PROVE LossInv'
  <2>1. /\ sess' = [sess EXCEPT ![p] = sess[p] + 1]
        /\ link' = [link EXCEPT ![p] = "up"]
        /\ missed' = missed \ {p}
    BY <1>3 DEF Establish
  <2>2. fsm[p] = "down" /\ link[p] # "up"
    BY <1>3 DEF Establish, BInv, Sessions
  <2>3. \A q \in Peer : sess'[q] = 0 <=> link'[q] = "down"
    BY <1>1, <2>1 DEF LossInv
  <2>4. ASSUME NoneLost' PROVE NoneLost
    <3>1. sess[p] + 1 <= 1 /\ sess[p] \in Nat
      BY <1>1, <2>1, <2>4 DEF NoneLost
    <3>2. sess[p] = 0 /\ link[p] = "down"
      BY <3>1 DEF LossInv
    <3>3. QED  BY <1>1, <2>1, <2>4, <3>2 DEF NoneLost
  <2>5. NoneLost' => missed' = {}
    BY <2>1, <2>4 DEF LossInv
  <2>6. QED  BY <2>3, <2>5 DEF LossInv
<1>4. ASSUME NEW p \in Peer, Break(p) PROVE LossInv'
  <2>1. link[p] = "up" /\ link' = [link EXCEPT ![p] = "broken"] /\ sess' = sess
    BY <1>4 DEF Break
  <2>2. \A q \in Peer : sess'[q] = 0 <=> link'[q] = "down"
    BY <1>1, <2>1 DEF LossInv
  <2>3. ~NoneLost'
    BY <1>1, <2>1 DEF NoneLost
  <2>4. QED  BY <2>2, <2>3 DEF LossInv
<1>5. ASSUME NEW p \in Peer, Write(p) PROVE LossInv'
  <2>1. p \in rest /\ p \in DOMAIN peer /\ UNCHANGED <<sess, link>>
    BY <1>5 DEF Write, BInv, TypeOK
  <2>2. ASSUME NoneLost PROVE UNCHANGED missed
    BY <1>5, <2>1, <2>2, RegisteredIsLive DEF Write
  <2>3. QED  BY <2>1, <2>2 DEF LossInv, NoneLost
<1>6. CASE Shutdown \/ TakeAction \/ TakeOutput \/ Stop \/ BroadcastSend \/ UNCHANGED vars
  BY <1>2, <1>6 DEF Shutdown, TakeAction, TakeOutput, Stop, BroadcastSend, vars, runner
<1>7. ASSUME NEW m \in Message, BroadcastCheck(m) PROVE LossInv'
  BY <1>2, <1>7 DEF BroadcastCheck, runner
<1>8. ASSUME NEW p \in Peer, Close(p) \/ CallCheck(p) \/ CallSend(p) PROVE LossInv'
  BY <1>2, <1>8 DEF Close, CallCheck, CallSend, runner
<1>9. QED  BY <1>3, <1>4, <1>5, <1>6, <1>7, <1>8 DEF Next, Runner

\* No peer has had a session at the start.
LEMMA LossInit == Init => LossInv
BY DEF Init, LossInv

\* With nothing missed, InSync leaves no exception between two messages.
LEMMA NoneLostInSync == BInv /\ LossInv => (NoneLost => LivePeersInSync)
<1> SUFFICES ASSUME BInv, LossInv, NoneLost, pc = "select",
                    NEW p \in DOMAIN peer, Live(p, peer[p])
             PROVE  rib[p] = list
  BY DEF LivePeersInSync
<1>1. rest = {} /\ missed = {}
  BY DEF BInv, Told, LossInv
<1>2. QED  BY <1>1 DEF BInv, InSync

\* The loop that one failed writer ends (server.go, "continue loop") is the
\* only way in which a peer comes to miss a message: until the first session
\* is lost every live peer of the map knows the runner's list between two
\* messages, whatever the order of the calls and with shutdown.
THEOREM InSyncUntilFirstLoss == Spec => [](NoneLost => LivePeersInSync)
<1>1. Spec => []LossInv
  BY BInvariance, LossInit, LossStep, PTL DEF Spec
<1>2. QED  BY <1>1, BInvariance, NoneLostInSync, PTL

\* A send panics only once the channel it sends on is closed, and the runner
\* closes its channels only when its context is done.
PanicInv ==
    /\ closed => stopping
    /\ pub = "panicked" => outputClosed
    /\ \A p \in Peer : fsm[p] = "panicked" => actionClosed

\* A send that panics finds its channel closed, and nothing opens it again.
LEMMA PanicStep == BInv /\ PanicInv /\ [Next]_vars => PanicInv'
<1> SUFFICES ASSUME BInv, PanicInv, [Next]_vars PROVE PanicInv'
  OBVIOUS
<1> USE DEF PanicInv, closed, actionClosed, outputClosed
<1>1. fsm \in [Peer -> {"down", "add", "sendAdd", "up", "del", "sendDel", "panicked"}]
  BY DEF BInv, TypeOK
<1>2. CASE UNCHANGED <<pc, pub, fsm, stopping>>
  BY <1>2
<1>3. CASE Shutdown \/ Stop
  BY <1>3 DEF Shutdown, Stop, runner, caller
<1>4. CASE TakeOutput
  BY <1>4 DEF TakeOutput, caller
<1>5. ASSUME NEW p \in Peer, Write(p) PROVE PanicInv'
  BY <1>5 DEF Write, caller
<1>6. ASSUME (\E m \in Message : BroadcastCheck(m)) \/ BroadcastSend PROVE PanicInv'
  BY <1>6 DEF BroadcastCheck, BroadcastSend, runner
<1>7. ASSUME NEW p \in Peer, Establish(p) \/ Close(p) \/ CallCheck(p) \/ CallSend(p)
      PROVE  PanicInv'
  BY <1>1, <1>7 DEF Establish, Close, CallCheck, CallSend, runner, caller
<1>8. CASE TakeAction \/ UNCHANGED vars \/ \E p \in Peer : Break(p)
  BY <1>2, <1>8 DEF TakeAction, Break, vars, runner, caller
<1>9. QED  BY <1>3, <1>4, <1>5, <1>6, <1>7, <1>8 DEF Next, Runner

\* At the start no channel is closed and no call is under way.
LEMMA PanicInit == Init => PanicInv
BY DEF Init, PanicInv, closed, actionClosed, outputClosed

\* The panic of Broadcast, AddPeer and DelPeer needs the shutdown: in a
\* service that is not being stopped no call of theirs sends on a closed
\* channel, whatever they looked at before.
THEOREM PanicNeedsShutdown == Spec => [](NoSendOnClosed \/ (stopping /\ actionClosed))
<1>1. Spec => []PanicInv
  BY BInvariance, PanicInit, PanicStep, PTL DEF Spec
<1>2. PanicInv => NoSendOnClosed \/ (stopping /\ actionClosed)
  BY DEF PanicInv, NoSendOnClosed, closed, actionClosed, outputClosed
<1>3. QED  BY <1>1, <1>2, PTL
=============================================================================
