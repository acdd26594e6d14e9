------------------------------ MODULE Refresh ------------------------------
(***************************************************************************)
(* The store together with its only publisher, the resolver's loop: a      *)
(* round reads ExpiredDomains, asks the DNS servers for seconds while the  *)
(* API goes on, and publishes what it was told.  Module Resolver has the   *)
(* goroutines of one round.                                                *)
(***************************************************************************)
EXTENDS Store

VARIABLES phase,  \* the resolver: "sleep", "resolve" or "publish"
          asked,  \* the domains the round asks about
          left    \* history: the domains dropped since the round began

rvars == <<vars, phase, asked, left>>

\* The records of an answer are valid from now on (newExpires).
Resolved == UNION {[S -> {RecordLife}] : S \in SUBSET Address}

RInit == Init /\ phase = "sleep" /\ asked = {} /\ left = {}

\* Mutant: a round asks about one domain.
StartRoundOne ==
    /\ phase = "sleep"
    /\ pc = "idle"
    /\ ExpiredDomains # {}
    /\ phase' = "resolve"
    /\ asked' = {CHOOSE d \in ExpiredDomains : TRUE}
    /\ left' = {}
    /\ UNCHANGED vars

\* ExpiredDomains takes the read lock.  An empty round ends at once.
StartRound ==
    /\ phase = "sleep"
    /\ pc = "idle"
    /\ ExpiredDomains # {}
    /\ phase' = "resolve"
    /\ asked' = ExpiredDomains
    /\ left' = {}
    /\ UNCHANGED vars

\* The errgroup returned an error: nothing is published.
FailRound ==
    /\ phase = "resolve"
    /\ phase' = "sleep"
    /\ asked' = {}
    /\ UNCHANGED <<vars, left>>

\* Mutant: the batch holds answers that an earlier round collected.
PublishRoundLeftover(batch) ==
    /\ phase = "resolve"
    /\ PublishLock(batch)
    /\ phase' = "publish"
    /\ UNCHANGED <<asked, left>>

\* The domains of batch were answered by a server at least, and Publish has
\* the write lock.
PublishRound(batch) ==
    /\ phase = "resolve"
    /\ batch \subseteq asked
    /\ PublishLock(batch)
    /\ phase' = "publish"
    /\ UNCHANGED <<asked, left>>

\* The context of a round ends after 15 seconds (New), and with it every
\* exchange: the round is over, with an error or with what was answered.
RoundOver == FailRound \/ \E batch \in SUBSET Domain : PublishRound(batch)

\* The resolver sleeps again when its Publish returns.
PublishReturns ==
    IF phase = "publish" /\ pc' = "idle"
    THEN phase' = "sleep" /\ asked' = {}
    ELSE UNCHANGED <<phase, asked>>

RPublishOne == /\ \E d \in todo, rec \in Resolved, ttl \in TTL : PublishOne(d, rec, ttl)
               /\ UNCHANGED <<phase, asked, left>>
RPublishDone == PublishDone /\ PublishReturns /\ UNCHANGED left
RBroadcast == Broadcast /\ PublishReturns /\ UNCHANGED left

\* The calls of the API.
Dropped == left' = left \cup (Known \ Known')

RCreate == \E d \in Domain : Create(d) /\ UNCHANGED <<phase, asked, left>>
RDelete == \E d \in Domain : Delete(d) /\ Dropped /\ UNCHANGED <<phase, asked>>
RUpdateDrop == \E old, new \in Domain :
                   UpdateDrop(old, new) /\ Dropped /\ UNCHANGED <<phase, asked>>
RUpdateWrite == UpdateWrite /\ UNCHANGED <<phase, asked, left>>

RTick == Tick /\ UNCHANGED <<phase, asked, left>>

RNext ==
    \/ StartRound
    \/ RoundOver
    \/ RPublishOne
    \/ RPublishDone
    \/ RBroadcast
    \/ RCreate
    \/ RDelete
    \/ RUpdateDrop
    \/ RUpdateWrite
    \/ RTick

RSpec == RInit /\ [][RNext]_rvars

\* Time passes; a call that holds the lock goes on; a goroutine waiting for
\* the lock gets it (Go's RWMutex starves nobody); and a round ends, though
\* it may fail each time.
RFairness ==
    /\ WF_rvars(RTick /\ domains' # domains)
    /\ WF_rvars(RPublishOne \/ RPublishDone \/ RBroadcast \/ RUpdateWrite)
    /\ SF_rvars(StartRound)
    /\ WF_rvars(RoundOver)

RFairSpec == RSpec /\ RFairness

-----------------------------------------------------------------------------
(* Properties.                                                             *)

\* Some domain holds a with time left to live.
Valid(a) == \E d \in Known : a \in DOMAIN Ext(d) /\ Ext(d)[a] > 0

\* The DNS servers answer: a domain that is asked about again and again is
\* published again and again.  The code does not see to it.
Answered ==
    \A d \in Domain :
        SF_rvars(\E batch \in SUBSET Domain : d \in batch /\ PublishRound(batch))

\* An address no domain holds validly does not stay announced for ever: it
\* is resolved again or withdrawn by Publish (dns.go), if the domains are
\* answered at last.
StaleIsWithdrawn ==
    Answered =>
        \A a \in Address :
            a \in announced /\ ~Valid(a) ~> a \notin announced \/ Valid(a)

\* An expired domain is asked about, and asked about again when its round
\* failed and threw away what the other servers had answered (config.go,
\* resolveDomain), for as long as the rounds fail and until it is published
\* or leaves.
ExpiredIsAsked ==
    \A d \in Domain : d \in ExpiredDomains ~> d \in asked \/ d \notin ExpiredDomains

\* A name enters the store only by Create or Update: once Delete has removed
\* it "along with associated IPs" (api.go), a Publish does not bring it back.
PublishEntersNoName == [][pc = "publish" => Known' \subseteq Known]_rvars

\* What Publish does bring back (dns.go, found is not looked at) is a name
\* that the API dropped while this very round was resolving, and no other:
\* what was dropped before a round began stays out.
PublishRevivesItsRound == [][pc = "publish" => Known' \ Known \subseteq left]_rvars
=============================================================================
