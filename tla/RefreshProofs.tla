--------------------------- MODULE RefreshProofs ---------------------------
(***************************************************************************)
(* What a round of the resolver may bring back, for any domains, addresses *)
(* and lifetimes.                                                          *)
(***************************************************************************)
EXTENDS Refresh, TLAPS

\* The domains a round asks about were in the store when it began, so that
\* they are there now or have left since; its Publish writes no others.
RoundInv ==
    /\ phase # "sleep" => asked \subseteq Known \cup left
    /\ pc = "publish" => phase = "publish" /\ todo \subseteq asked

-----------------------------------------------------------------------------
(* What the calls of the store do to the names it knows.                   *)

LEMMA PutKnown ==
    ASSUME NEW d, NEW item, domains' = Put(d, item)
    PROVE  Known' = Known \cup {d}
BY DEF Known, Put

LEMMA OneKnown ==
    ASSUME RPublishOne
    PROVE  Known \subseteq Known' /\ Known' \subseteq Known \cup todo
<1>1. PICK d \in todo, rec \in Resolved, ttl \in TTL : PublishOne(d, rec, ttl)
  BY DEF RPublishOne
<1>2. domains' = Put(d, [ext |-> Renew(rec, Ext(d)), expire |-> ttl])
  BY <1>1 DEF PublishOne
<1>3. QED  BY <1>1, <1>2, PutKnown

-----------------------------------------------------------------------------
(* The invariant.                                                          *)

LEMMA RoundInit == RInit => RoundInv
BY DEF RInit, Init, RoundInv

LEMMA RoundStep == RoundInv /\ [RNext]_rvars => RoundInv'
<1> SUFFICES ASSUME RoundInv, [RNext]_rvars PROVE RoundInv'
  OBVIOUS
<1>1. CASE StartRound
  BY <1>1 DEF RoundInv, StartRound, ExpiredDomains, vars, Known
<1>2. CASE RoundOver
  <2>1. CASE FailRound
    BY <2>1 DEF RoundInv, FailRound, vars
  <2>2. ASSUME NEW batch \in SUBSET Domain, PublishRound(batch) PROVE RoundInv'
    BY <2>2 DEF RoundInv, PublishRound, PublishLock, Known
  <2>3. QED  BY <1>2, <2>1, <2>2 DEF RoundOver
<1>3. CASE RPublishOne
  <2>1. UNCHANGED <<phase, asked, left, pc>> /\ todo' \subseteq todo
    BY <1>3 DEF RPublishOne, PublishOne
  <2>2. QED  BY <1>3, <2>1, OneKnown DEF RoundInv
<1>4. CASE RPublishDone \/ RBroadcast
  <2>1. /\ UNCHANGED <<left, Known>> /\ pc' # "publish"
        /\ phase' # "sleep" => phase # "sleep" /\ asked' = asked
    BY <1>4 DEF RPublishDone, PublishDone, RBroadcast, Broadcast, PublishReturns, Finish, Known
  <2>2. QED  BY <2>1 DEF RoundInv
<1>5. CASE RCreate
  <2>1. PICK d \in Domain : Create(d)
    BY <1>5 DEF RCreate
  <2>2. Known \subseteq Known' /\ UNCHANGED <<phase, asked, left, pc, todo>>
    BY <1>5, <2>1, PutKnown DEF RCreate, Create
  <2>3. QED  BY <2>2 DEF RoundInv
<1>6. CASE RDelete \/ RUpdateDrop
  <2>1. pc' # "publish"
    BY <1>6 DEF RDelete, Delete, Finish, RUpdateDrop, UpdateDrop
  <2>2. Known \subseteq Known' \cup left' /\ left \subseteq left' /\ UNCHANGED <<phase, asked>>
    BY <1>6 DEF RDelete, RUpdateDrop, Dropped
  <2>3. QED  BY <2>1, <2>2 DEF RoundInv
<1>7. CASE RUpdateWrite
  <2>1. Known \subseteq Known'
    BY <1>7, PutKnown DEF RUpdateWrite, UpdateWrite, Known
  <2>2. pc' # "publish" /\ UNCHANGED <<phase, asked, left>>
    BY <1>7 DEF RUpdateWrite, UpdateWrite, Finish
  <2>3. QED  BY <2>1, <2>2 DEF RoundInv
<1>8. CASE RTick \/ UNCHANGED rvars
  <2>1. Known' = Known /\ UNCHANGED <<phase, asked, left, pc, todo>>
    BY <1>8 DEF RTick, Tick, rvars, vars, Known
  <2>2. QED  BY <2>1 DEF RoundInv
<1>9. QED  BY <1>1, <1>2, <1>3, <1>4, <1>5, <1>6, <1>7, <1>8 DEF RNext

\* While Publish holds the lock only it enters names.
LEMMA RevivalStep ==
    ASSUME RoundInv, [RNext]_rvars, pc = "publish"
    PROVE  Known' \ Known \subseteq left
<1>1. CASE RPublishOne
  BY <1>1, OneKnown DEF RoundInv
<1>2. CASE StartRound \/ RoundOver \/ RPublishDone \/ RBroadcast \/ RTick \/ UNCHANGED rvars
  <2>1. Known' = Known
    BY <1>2 DEF StartRound, RoundOver, FailRound, PublishRound, PublishLock, RPublishDone,
                PublishDone, RBroadcast, Broadcast, RTick, Tick, rvars, vars, Known
  <2>2. QED  BY <2>1
<1>3. ~(RCreate \/ RDelete \/ RUpdateDrop \/ RUpdateWrite)
  BY DEF RCreate, Create, RDelete, Delete, RUpdateDrop, UpdateDrop, RUpdateWrite, UpdateWrite
<1>4. QED  BY <1>1, <1>2, <1>3 DEF RNext

\* A name that was dropped before a round began is never brought back by the
\* Publish of that round: what PublishEntersNoName is violated by needs a
\* Delete or an Update between ExpiredDomains and Publish (dns.go).
THEOREM RevivalNeedsARace == RSpec => PublishRevivesItsRound
<1>1. RSpec => []RoundInv
  BY RoundInit, RoundStep, PTL DEF RSpec
<1>2. RoundInv /\ [RNext]_rvars => [pc = "publish" => Known' \ Known \subseteq left]_rvars
  BY RevivalStep
<1>3. QED  BY <1>1, <1>2, PTL DEF RSpec, PublishRevivesItsRound
=============================================================================
