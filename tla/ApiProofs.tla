------------------------------ MODULE ApiProofs ------------------------------
(***************************************************************************)
(* What holds of Api for any clients, domains and addresses.  The theorems *)
(* of StoreProofs apply, because the requests use the store by its calls.  *)
(***************************************************************************)
EXTENDS Api, StoreProofs

-----------------------------------------------------------------------------
(* Each step is a step of the store, or leaves it alone.                   *)

LEMMA ApiStoreSteps ==
    ASSUME ApiTypeOK, Requests, [ApiNext]_avars
    PROVE  [Next]_vars
<1>1. ASSUME NEW c \in Client, NEW m, NEW n, Ask(c, m, n)
      PROVE  UNCHANGED vars
  BY <1>1 DEF Ask
<1>2. ASSUME NEW c \in Client, Invalid(c) \/ Refused(c)
      PROVE  UNCHANGED vars
  BY <1>2 DEF Invalid, Refused
<1>3. ASSUME NEW c \in Client, Post(c)
      PROVE  Next
  <2>1. arg[c][1] \in Domain
    BY <1>3 DEF Post, Requests, Names
  <2>2. QED  BY <1>3, <2>1 DEF Post, Next
<1>4. ASSUME NEW c \in Client, Call(c)
      PROVE  Next
  <2>1. CASE CallDelete(c)
    <3>1. arg[c][1] \in Domain
      BY <2>1 DEF CallDelete, Requests, Names
    <3>2. QED  BY <2>1, <3>1 DEF CallDelete, Next
  <2>2. CASE CallUpdate(c)
    <3>1. arg[c][1] \in Domain /\ arg[c][2] \in Domain
      BY <2>2 DEF CallUpdate, Requests, Pairs
    <3>2. QED  BY <2>2, <3>1 DEF CallUpdate, Next
  <2>3. QED  BY <1>4, <2>1, <2>2 DEF Call
<1>5. ASSUME NEW c \in Client, Continue(c)
      PROVE  Next
  BY <1>5 DEF Continue, Next
<1>6. CASE Resolver
  BY <1>6 DEF Resolver, Next
<1>7. CASE Clock
  BY <1>7 DEF Clock, Next
<1>8. CASE UNCHANGED avars
  BY <1>8 DEF avars
<1>9. QED  BY <1>1, <1>2, <1>3, <1>4, <1>5, <1>6, <1>7, <1>8 DEF ApiNext
-----------------------------------------------------------------------------
(* The invariant.                                                          *)

LEMMA Lengths ==
    /\ \A s \in Names : s[1] \in Domain /\ DOMAIN s \cap {2} = {}
    /\ \A s \in Pairs : s[1] \in Domain /\ s[2] \in Domain /\ DOMAIN s \cap {2} = {2}
    /\ Names \cap Pairs = {}
<1>1. \A d : DOMAIN <<d>> = {1}
  OBVIOUS
<1>2. \A d, e : DOMAIN <<d, e>> = {1, 2}
  OBVIOUS
<1>3. \A s \in Names : s[1] \in Domain /\ DOMAIN s = {1}
  BY <1>1 DEF Names
<1>4. \A s \in Pairs : s[1] \in Domain /\ s[2] \in Domain /\ DOMAIN s = {1, 2}
  BY <1>2 DEF Pairs
<1>5. {1} # {1, 2} /\ {1} \cap {2} = {} /\ {1, 2} \cap {2} = {2}
  OBVIOUS
<1>6. QED  BY <1>3, <1>4, <1>5

\* What an answer of 202 enters in the ledger.
LEMMA AcceptedNames ==
    ASSUME NEW c \in Client, Accepted(c), ledger \in [Domain -> Int]
    PROVE  /\ arg[c] \in Names => ledger' = [d \in Domain |-> ledger[d] - (IF d = arg[c][1] THEN 1 ELSE 0)]
           /\ arg[c] \in Pairs => ledger' = [d \in Domain |-> ledger[d] + (IF d = arg[c][2] THEN 1 ELSE 0)
                                                              - (IF d = arg[c][1] THEN 1 ELSE 0)]
<1>1. CASE arg[c] \in Names
  <2>1. {arg[c][i] : i \in DOMAIN arg[c] \cap {2}} = {}
    BY <1>1, Lengths
  <2>2. arg[c] \notin Pairs
    BY <1>1, Lengths
  <2>3. ledger' = [d \in Domain |-> ledger[d] + (IF d \in {} THEN 1 ELSE 0)
                                              - (IF d \in {arg[c][1]} THEN 1 ELSE 0)]
    BY <2>1 DEF Accepted, Account
  <2>4. \A d \in Domain : ledger[d] + (IF d \in {} THEN 1 ELSE 0)
                                    - (IF d \in {arg[c][1]} THEN 1 ELSE 0)
                          = ledger[d] - (IF d = arg[c][1] THEN 1 ELSE 0)
    OBVIOUS
  <2>5. QED  BY <2>2, <2>3, <2>4
<1>2. CASE arg[c] \in Pairs
  <2>1. {arg[c][i] : i \in DOMAIN arg[c] \cap {2}} = {arg[c][2]}
    BY <1>2, Lengths
  <2>2. arg[c] \notin Names
    BY <1>2, Lengths
  <2>3. QED  BY <2>1, <2>2 DEF Accepted, Account
<1>3. QED  BY <1>1, <1>2

LEMMA ApiInitInv == ApiInit => AInv
<1> SUFFICES ASSUME ApiInit PROVE AInv
  OBVIOUS
<1>1. /\ Known = Configured /\ pc = "idle" /\ holder = {}
  BY DEF ApiInit, Init, Known
<1>2. ApiTypeOK
  BY <1>1 DEF ApiInit, ApiTypeOK, Method
<1>3. Requests /\ CallUnderWay
  BY <1>1 DEF ApiInit, Requests, CallUnderWay
<1>4. AnswersAreTrue
  BY <1>1 DEF ApiInit, AnswersAreTrue
<1>5. QED  BY <1>2, <1>3, <1>4 DEF AInv

\* A step that leaves the store, the holder and the ledger alone.
LEMMA Elsewhere ==
    ASSUME AInv, UNCHANGED <<holder, ledger>>, Known' = Known, pc' = pc, todo' = todo,
           \A c \in holder : at'[c] = at[c] /\ arg'[c] = arg[c]
    PROVE  AnswersAreTrue' /\ CallUnderWay'
<1>1. AnswersAreTrue'
  BY DEF AInv, AnswersAreTrue
<1>2. \A old, new : Balance(old, new) => Balance(old, new)'
  BY DEF Balance, InStore
<1>3. CallUnderWay'
  BY <1>2 DEF AInv, CallUnderWay
<1>4. QED  BY <1>1, <1>3

\* A DELETE or a PUT takes the lock: it has dropped its old name, and for a
\* DELETE without a message it is over.
LEMMA CallInv ==
    ASSUME AInv, IInv, NEW c \in Client, Call(c)
    PROVE  AInv'
<1> DEFINE old == arg[c][1]
<1> USE DEF AInv
<1>1. /\ pc = "idle" /\ holder = {} /\ old \in Known /\ Known' = Known \ {old}
      /\ \/ arg[c] \in Names /\ pc' \in {"idle", "broadcast"}
         \/ arg[c] \in Pairs /\ pc' = "update" /\ todo' = {arg[c][2]} /\ arg[c][2] \notin Known
  <2>1. CASE CallDelete(c)
    BY <2>1 DEF CallDelete, Delete, Finish, Restrict, Requests, ApiTypeOK, Known
  <2>2. CASE CallUpdate(c)
    BY <2>2 DEF CallUpdate, UpdateDrop, Restrict, Requests, ApiTypeOK, Known
  <2>3. QED  BY <2>1, <2>2 DEF Call
<1>2. /\ \A d \in Domain : ledger[d] = InStore(d)
      /\ \A d \in Domain : ledger[d] = InStore(d)' + (IF d = old THEN 1 ELSE 0)
      /\ \A d \in Domain : InStore(d)' \in Int
  BY <1>1 DEF AnswersAreTrue, InStore
<1>3. CASE pc' = "idle"
  <2>1. Answer(c) /\ Accepted(c) /\ holder' = {} /\ arg[c] \in Names
    BY <1>1, <1>3 DEF Call
  <2>2. ledger' = [d \in Domain |-> ledger[d] - (IF d = old THEN 1 ELSE 0)]
    BY <2>1, AcceptedNames DEF ApiTypeOK
  <2>3. ApiTypeOK'
    BY <2>1, <2>2, <1>3 DEF Answer, ApiTypeOK
  <2>4. Requests'
    BY <2>1, <1>1 DEF Answer, Requests, ApiTypeOK
  <2>5. AnswersAreTrue'
    BY <1>2, <2>1, <2>2 DEF AnswersAreTrue, InStore
  <2>6. QED  BY <2>1, <2>3, <2>4, <2>5 DEF CallUnderWay
<1>4. CASE pc' # "idle"
  <2>1. Hold(c) /\ ledger' = ledger
    BY <1>4 DEF Call
  <2>2. ApiTypeOK'
    BY <2>1, <1>4 DEF Hold, ApiTypeOK
  <2>3. Requests'
    BY <2>1, <1>1 DEF Hold, Requests, ApiTypeOK
  <2>4. AnswersAreTrue'
    BY <2>1 DEF Hold, AnswersAreTrue
  <2>5. Balance(old, {})'
    BY <1>1, <1>2, <2>1 DEF Hold, Balance
  <2>6. CallUnderWay'
    BY <1>1, <1>4, <2>1, <2>5 DEF Hold, CallUnderWay
  <2>7. QED  BY <2>2, <2>3, <2>4, <2>6
<1>5. QED  BY <1>3, <1>4

\* The rest of a call: Update enters its new name, Broadcast returns, and
\* the client is answered when the lock is released.
LEMMA ContinueInv ==
    ASSUME AInv, IInv, NEW c \in Client, Continue(c)
    PROVE  AInv'
<1> DEFINE old == arg[c][1]
           new == arg[c][2]
           Old(d) == IF d = old THEN 1 ELSE 0
           New(d) == IF d = new THEN 1 ELSE 0
<1> USE DEF AInv
<1>1. /\ holder = {c} /\ todo \cap Known = {}
      /\ \/ pc = "update" /\ UpdateWrite
         \/ pc = "broadcast" /\ Broadcast
  <2>1. holder = {c} /\ ((pc = "update" /\ UpdateWrite) \/ (pc = "broadcast" /\ Broadcast))
    BY DEF Continue, UpdateWrite, Broadcast
  <2>2. QED  BY <2>1 DEF IInv, UpdateNeverHalfDone, CallState
<1>2. ledger \in [Domain -> Int] /\ \A d : InStore(d) \in Int /\ InStore(d)' \in Int
  BY DEF ApiTypeOK, InStore
<1>3. \/ /\ arg[c] \in Names /\ pc' = "idle"
         /\ \A d \in Domain : ledger[d] = InStore(d)' + Old(d)
      \/ /\ arg[c] \in Pairs /\ pc' \in {"idle", "broadcast"}
         /\ \A d \in Domain : ledger[d] = InStore(d)' + Old(d) - New(d)
  <2>1. CASE pc = "broadcast" /\ Broadcast
    <3>1. pc' = "idle" /\ \A d : InStore(d)' = InStore(d)
      BY <2>1 DEF Broadcast, InStore, Known
    <3>2. \/ arg[c] \in Names /\ Balance(old, {})
          \/ arg[c] \in Pairs /\ Balance(old, {new})
      BY <1>1, <2>1 DEF CallUnderWay
    <3>3. QED  BY <1>2, <3>1, <3>2 DEF Balance
  <2>2. CASE pc = "update" /\ UpdateWrite
    <3>1. arg[c] \in Pairs /\ todo = {new} /\ new \notin Known /\ Balance(old, {})
      BY <1>1, <2>2 DEF CallUnderWay
    <3>2. Known' = Known \cup {new} /\ pc' \in {"idle", "broadcast"}
      BY <2>2, <3>1 DEF UpdateWrite, Put, Finish, Known
    <3>3. \A d : InStore(d)' = InStore(d) + New(d)
      BY <3>1, <3>2 DEF InStore
    <3>4. QED  BY <1>2, <3>1, <3>2, <3>3 DEF Balance
  <2>3. QED  BY <1>1, <2>1, <2>2
<1>4. CASE pc' = "idle"
  <2>1. Answer(c) /\ Accepted(c) /\ holder' = {}
    BY <1>1, <1>4 DEF Continue
  <2>2. /\ \A d \in Domain : ledger'[d] = InStore(d)'
        /\ ledger' \in [Domain -> Int]
    <3>1. CASE arg[c] \in Names
      BY <1>2, <1>3, <2>1, <3>1, AcceptedNames, Lengths
    <3>2. CASE arg[c] \in Pairs
      BY <1>2, <1>3, <2>1, <3>2, AcceptedNames, Lengths
    <3>3. QED  BY <1>3, <3>1, <3>2
  <2>3. ApiTypeOK'
    BY <2>1, <2>2 DEF Answer, ApiTypeOK
  <2>4. Requests'
    BY <1>1, <2>1 DEF Answer, Requests, ApiTypeOK
  <2>5. AnswersAreTrue'
    BY <2>2 DEF AnswersAreTrue, InStore
  <2>6. QED  BY <2>1, <2>3, <2>4, <2>5 DEF CallUnderWay
<1>5. CASE pc' # "idle"
  <2>1. UNCHANGED <<requests, ledger>>
    BY <1>1, <1>5 DEF Continue
  <2>2. ApiTypeOK' /\ Requests'
    BY <1>5, <2>1 DEF ApiTypeOK, Requests, requests
  <2>3. AnswersAreTrue'
    BY <1>1, <2>1 DEF AnswersAreTrue, requests
  <2>4. arg[c] \in Pairs /\ pc' = "broadcast" /\ Balance(old, {new})'
    BY <1>3, <1>5, <2>1 DEF Balance, requests
  <2>5. CallUnderWay'
    BY <1>1, <2>1, <2>4 DEF CallUnderWay, requests
  <2>6. QED  BY <2>2, <2>3, <2>5
<1>6. QED  BY <1>4, <1>5

LEMMA ApiStepInv == AInv /\ IInv /\ [ApiNext]_avars => AInv'
<1> SUFFICES ASSUME AInv, IInv, [ApiNext]_avars PROVE AInv'
  OBVIOUS
<1> USE DEF AInv
<1>1. ASSUME NEW c \in Client, NEW m \in Method, NEW n,
             m \in {"POST", "DELETE"} => n \in Names, m = "PUT" => n \in Pairs, Ask(c, m, n)
      PROVE  AInv'
  <2>1. c \notin holder
    BY <1>1 DEF Ask, Requests
  <2>2. n \in Names \cup Pairs
    BY <1>1 DEF Method
  <2>3. ApiTypeOK'
    BY <1>1, <2>2 DEF Ask, ApiTypeOK, vars
  <2>4. Requests'
    BY <1>1, <2>1, <2>2 DEF Ask, Requests, ApiTypeOK, Method
  <2>5. AnswersAreTrue' /\ CallUnderWay'
    BY <1>1, <2>1, Elsewhere DEF Ask, ApiTypeOK, vars, Known
  <2>6. QED  BY <2>3, <2>4, <2>5
<1>2. ASSUME NEW c \in Client, Invalid(c) \/ Refused(c)
      PROVE  AInv'
  <2>1. c \notin holder /\ Answer(c) /\ UNCHANGED <<vars, holder, ledger>>
    BY <1>2 DEF Invalid, Refused, Requests
  <2>2. ApiTypeOK'
    BY <2>1 DEF Answer, ApiTypeOK, vars
  <2>3. Requests'
    BY <2>1 DEF Answer, Requests, ApiTypeOK
  <2>4. AnswersAreTrue' /\ CallUnderWay'
    BY <2>1, Elsewhere DEF Answer, ApiTypeOK, vars, Known
  <2>5. QED  BY <2>2, <2>3, <2>4
<1>3. ASSUME NEW c \in Client, Post(c)
      PROVE  AInv'
  <2> DEFINE new == arg[c][1]
  <2>1. /\ pc = "idle" /\ pc' = "idle" /\ holder = {} /\ holder' = {}
        /\ new \notin Known /\ Known' = Known \cup {new} /\ Answer(c)
    BY <1>3 DEF Post, Create, Put, ApiTypeOK, Known
  <2>2. ledger' = [d \in Domain |-> ledger[d] + (IF d \in {new} THEN 1 ELSE 0)
                                              - (IF d \in {} THEN 1 ELSE 0)]
    BY <1>3 DEF Post, Account
  <2>3. ApiTypeOK'
    BY <2>1, <2>2 DEF Answer, ApiTypeOK
  <2>4. Requests'
    BY <2>1 DEF Answer, Requests, ApiTypeOK
  <2>5. AnswersAreTrue'
    BY <2>1, <2>2 DEF AnswersAreTrue, ApiTypeOK
  <2>6. CallUnderWay'
    BY <2>1 DEF CallUnderWay
  <2>7. QED  BY <2>3, <2>4, <2>5, <2>6
<1>4. ASSUME NEW c \in Client, Call(c)
      PROVE  AInv'
  BY <1>4, CallInv
<1>5. ASSUME NEW c \in Client, Continue(c)
      PROVE  AInv'
  BY <1>5, ContinueInv
<1>6. CASE Resolver
  <2>1. holder = {} /\ holder' = {} /\ UNCHANGED requests
    BY <1>6 DEF Resolver, requests
  <2>2. ledger' = [d \in Domain |-> ledger[d] + (IF d \in Known' \ Known THEN 1 ELSE 0)
                                              - (IF d \in {} THEN 1 ELSE 0)]
    BY <1>6 DEF Resolver, Account
  <2>3. Known \subseteq Known'
    BY <1>6 DEF Resolver, PublishLock, PublishOne, PublishDone, Broadcast, Put, Known
  <2>4. ApiTypeOK'
    BY <2>1, <2>2 DEF ApiTypeOK, requests
  <2>5. Requests'
    BY <2>1 DEF Requests, requests
  <2>6. AnswersAreTrue'
    BY <2>1, <2>2, <2>3 DEF AnswersAreTrue, ApiTypeOK
  <2>7. CallUnderWay'
    BY <2>1 DEF CallUnderWay
  <2>8. QED  BY <2>4, <2>5, <2>6, <2>7
<1>7. CASE Clock \/ UNCHANGED avars
  <2>1. Known' = Known /\ UNCHANGED <<pc, todo, requests, ledger>>
    BY <1>7 DEF Clock, Tick, avars, vars, Known
  <2>2. ApiTypeOK' /\ Requests'
    BY <2>1 DEF ApiTypeOK, Requests, requests
  <2>3. AnswersAreTrue' /\ CallUnderWay'
    BY <2>1, Elsewhere DEF requests
  <2>4. QED  BY <2>2, <2>3
<1>8. QED
  <2>1. \A m \in {"POST", "DELETE"} : m \in Method /\ m # "PUT"
    BY DEF Method
  <2>2. "PUT" \in Method /\ "PUT" \notin {"POST", "DELETE"}
    BY DEF Method
  <2>3. QED  BY <1>1, <1>2, <1>3, <1>4, <1>5, <1>6, <1>7, <2>1, <2>2 DEF ApiNext

-----------------------------------------------------------------------------
(* The theorems.                                                           *)

\* The requests of the clients use the store by its calls: what StoreProofs
\* proves of the store holds while they are answered.
THEOREM ApiKeepsStore == ApiSpec => Spec
<1>1. ApiInit => Init /\ AInv
  BY ApiInitInv DEF ApiInit
<1>2. AInv /\ [ApiNext]_avars => [Next]_vars
  BY ApiStoreSteps DEF AInv
<1>3. IInv /\ [Next]_vars => IInv'
  BY StepInv
<1>4. Init => IInv
  BY InitInv
<1>5. AInv /\ IInv /\ [ApiNext]_avars => AInv' /\ IInv'
  BY ApiStepInv, <1>2, <1>3
<1>6. QED  BY <1>1, <1>2, <1>4, <1>5, PTL DEF ApiSpec, Spec

LEMMA ApiInvariance == ApiSpec => []AInv
<1>1. ApiInit => AInv
  BY ApiInitInv
<1>2. AInv /\ IInv /\ [ApiNext]_avars => AInv'
  BY ApiStepInv
<1>3. QED  BY <1>1, <1>2, ApiKeepsStore, Invariance, PTL DEF ApiSpec

\* What Api adds to the state keeps its type; while no call holds the lock
\* nobody is its holder.
THEOREM ApiTypeCorrect == ApiSpec => []ApiTypeOK
<1>1. AInv => ApiTypeOK
  BY DEF AInv
<1>2. QED  BY <1>1, ApiInvariance, PTL

\* The answers to any number of clients tell what has happened to the store.
THEOREM AnswersHold == ApiSpec => []AnswersAreTrue
<1>1. AInv => AnswersAreTrue
  BY DEF AInv
<1>2. QED  BY <1>1, ApiInvariance, PTL
=============================================================================
