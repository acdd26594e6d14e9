# ResolveX in TLA+

ResolveX resolves a list of domain names again and again and announces their
addresses over BGP. This directory holds TLA+ models of its core, the TLC
configurations that check them and theorems about them that TLAPS proves. All
references are to the repository's `src/`.

## 1. The system

| component | code | state | operations |
|---|---|---|---|
| Store | `internal/storage` | `domains` (an otter cache: name -> records with expiry), `ipItems.list` (address -> number of domains that hold it) under one RWMutex | `Create`, `Delete`, `Update`, `List` (API); `AllDomains`, `ExpiredDomains`, `Publish` (resolver); `IPsList` |
| Broadcaster | `internal/broadcast` | a runner goroutine with a `list` of announced addresses and a map `peer` of writers; the channels `action` and `output` of ten slots; the flag `closed` | `Broadcast`, `AddPeer`, `DelPeer`; the runner's select |
| DNS service | `internal/resolver` | per round: one worker per domain and server, a counter, a channel `out`, a collector with a ticker, an errgroup and its context | the loop of `New`, `resolveDomains`, `resolveDomain`, `Config.Validate` |
| BGP service | `internal/bgp` | the corebgp sessions, one writer closure per session | `OnEstablished`, `OnClose`, `newWriter`, packet encoding |
| API service, admin page | `internal/api` | none in the server; the page keeps items, a loading counter and alerts | GET / POST / PUT / DELETE on `/api` |
| Domain util | `internal/domain` | none | `Fetch` at start, `Validate` |
| Wiring | `cmd/resolvex` | none | builds the services and runs them with go-bones |

How they interact. The API and the resolver call the store. `Delete`, `Update`
and `Publish` take the store's write lock, change cache and counters, and call
`Broadcast` before they release it; `Broadcast` sends an `UpdateMessage` (two
sets of addresses, to announce and to withdraw) into a channel. The runner of
the broadcaster applies it to its list and writes it to every registered peer.
A BGP session that comes up registers a writer with `AddPeer`, and the runner
sends it the list; a session that closes is removed with `DelPeer`. The
resolver reads `ExpiredDomains`, asks every DNS server about each of them, and
calls `Publish` with what was answered within the round.

What is hard.

* One address may belong to many domains. The counters are changed by three
  calls, across batches and expiries, and the peers see only deltas: an error
  of one is never repaired.
* A round takes seconds between `ExpiredDomains` and `Publish`, and the API
  goes on meanwhile.
* The two channels of the broadcaster are not ordered with each other: the
  first table of a peer races the messages, `AddPeer` of a session races the
  `DelPeer` of the one before, and both race the shutdown.
* Writers fail while other peers' writers work.
* Each `OnClose` leaves a goroutine behind that deletes the peer from corebgp,
  sleeps and adds it again, while the session may be up once more; `DeletePeer`
  holds corebgp's lock until the peer's callbacks have returned.
* `OnEstablished` writes its End-of-RIB after a second, whether or not the
  runner has written the table by then; the runner writes one of its own after
  each message.
* The collector of a round ends it by a counter, a ticker or the context, while
  workers are still sending or their answers are still in the channel.
* `Broadcast` may wait for a slow runner while its caller holds the store's
  lock, and so may every request and the resolver behind it.
* Requests of several clients of the API look at the store in one call and
  change it in another.

What makes each part correct: the counters are exact and the messages add up to
what the domains hold (Store); every answer says what has happened (API); every
live peer knows the list, no call waits for ever, and no call sends on a closed
channel (Broadcaster); no client stays out of corebgp's map (BGP sessions); the
bytes say to a peer what the message meant (packets); a round ends, ends only
when no worker can send any more, and loses no answer (resolver); what is no
longer valid is withdrawn, and what was deleted stays deleted (store and
resolver); what the domains hold is what the peers know (all together). The
hazards are listed one by one, with their lines, in `PROJECT.json`.

## 2. The modules

| module | models | by |
|---|---|---|
| `RouteTable` | what the store promises: a set of addresses per domain, and an announced set that is their union between two calls | abstract specification |
| `Store` | `internal/storage` | state, calls, clock, properties, refinement of `RouteTable` |
| `Api` | `internal/api/router.go`: clients' requests against each other and the resolver | extends `Store` |
| `Refresh` | the store with its one publisher, the resolver's loop, and the API as its rival | extends `Store` |
| `Resolver` | one round of `internal/resolver` after the other, goroutine by goroutine | state, workers, collector, fairness, properties |
| `Broadcaster` | `internal/broadcast`, and the plugin's callbacks as its callers | state, runner, callers, fairness, properties |
| `BgpSession` | `internal/bgp/plugin.go` and `server.go`: the sessions, the goroutines, the server | extends `Broadcaster` |
| `Packet` | `internal/bgp/packet.go` and the writer of `plugin.go`: bytes, and a peer that reads them | writer, encoder, decoder, properties |
| `ResolveX` | `cmd/resolvex`: store, broadcaster and sessions in one state | extends `Store`, instance of `Broadcaster` |
| `StoreProofs`, `ApiProofs`, `RefreshProofs`, `BroadcasterProofs`, `BgpSessionProofs`, `ResolverProofs`, `ResolveXProofs`, `PacketProofs` | | TLAPS proofs |
| `MC*` | instances for TLC | |

**Store.** `domains` and `list` are the cache and the counters; `pc`, `todo`
and `msg` are the locals of the one call that holds the write lock;
`announced` is a history variable, the sum of the messages handed to
`Broadcast`. Each `domains.Compute` and each `Broadcast` is a step, so
`UpdateDrop` and `UpdateWrite` are two, and `Publish` is `PublishLock`, one
`PublishOne` for each item, `PublishDone` and `Broadcast`. The item, its
records and the TTL are chosen freely, so that everything the resolver may
publish, and more, is covered: an item of a domain the cache does not hold, a
record that has already expired, a batch that gives an address to one domain
and takes it from another. Calls that are refused change nothing and are no
actions of `Store`. Expiry is a number of ticks left, and `Tick` may happen
anywhere, also between two items of one batch. `Item.Record` is the key set of
`ext` and is left out, as are logging, sorting and `validate`, which only logs:
`RefCounts` is stronger than what it looks for.

**Api.** Each client has one request at a time: `at` is its method, `arg` the
names of its path and body, `holder` the client whose call has the write lock.
`Ask` is the request coming in; it is answered by `Invalid` (body or name),
`Refused` (the store's `ErrExist` and `ErrNotFound`), `Post`, or by `Call` and
the `Continue` steps of a `DELETE` or `PUT`. `ledger` is a history variable: it
counts what the answers and the resolver's `Publish` say has been entered and
removed. Whether a name passes `validateDomain`'s look-ups is left open.

**Refresh** adds `phase` and `asked`, the resolver between its rounds, in a
round and in its `Publish`, and a history variable `left`, the domains that the
API has dropped since the round began. `RoundOver` is the end of a round, which
its context forces after fifteen seconds: `FailRound` is an errgroup that
returns an error, which discards the answers of all its workers, and
`PublishRound` publishes those domains that were answered. Every other action is
one of `Store` under a name of its own.

**Resolver.** `task` is where each worker stands, `cnt` the counter, `out` the
channel, `coll` the collector and `lst` what it has merged. An answer is its
set of A records. The `ok` test of a receive is never false, as only the
collector closes the channel, and it receives no more then. A worker that sends
on the closed channel is `"panicked"`; in the program that ends the process.

**Broadcaster.** The two channels are bounded sequences. A call checks `closed`
in one step and sends in another. A writer is the number of the session it was
made for; it works as long as that session is up. (A writer of a live session
can also fail to build an UPDATE, when an address is not IPv4; the addresses come
from A records, so that this is left to `Packet`.) The loop over the peers takes
one step per peer, so that a session may break or come up in the middle. `rib`
and `missed` are history variables: what a peer has been told in its session,
and which live peers the runner skipped. `Establish`, `Close`, `CallCheck` and
`CallSend` are the plugin's callbacks; corebgp calls them in turn for each
peer.

**BgpSession** adds corebgp's map (`registered`) and the call of `DeletePeer`
that holds its lock (`deleting`), the goroutines that `OnClose` has left behind
(`dels` before their `DeletePeer`, `adds` in their pause before `AddPeer`), the
pause of `OnEstablished` with its End-of-RIB, and the server. corebgp is not in
the repository; it is modelled by what the plugin relies on: it runs one
callback per peer at a time, and `DeletePeer` ends the session and returns when
the callback has. The errors of `DeletePeer` and `AddPeer` are only logged, and
change nothing here either.

**Packet.** `conf` has the attributes' values, `wire` the UPDATEs that a writer
has written, as bytes; `told`, `list` and `unwritten` are history variables: the
messages it wrote them from, the list that the broadcaster's runner keeps, and
the routes whose last message was not written. `buildUpdateMessage` and the encoders are translated byte by byte,
conversions to 16 bits included. `Parse` is no code of the repository: it is a
peer that reads an UPDATE as RFC 4271 lays it out. An address that is not IPv4
makes the whole message fail: the runner has put it into its list before it
called the writer (`broadcast/server.go:141`), nothing of it is written, the
session goes on, and its routes are in `unwritten` until another message about
them is written. The addresses come from A records and the next hop is a
constant, so that the program as it stands does not meet this; `packet.go` does.
The loops over routes are functions that recur on the two halves of a sequence,
which keeps TLC's stack short for a table of 811 routes; `EncodeSplit` in
`PacketProofs` shows that the bytes do not depend on where it is split.
`LengthsFit` says when the lengths that are written are not cut: a message
withdraws no more than 13 107 routes, whose bytes fit 16 bits whatever their
masks, and an AS path has no more than 126 numbers. `PeerReadsTheList` and
`AttributesRead` are about sessions in which they are not.

**ResolveX.** The call that has reached its `Broadcast` is the broadcaster's
one caller. `HandOver` looks at `closed`: when it is set the message is dropped
and the call returns. `Deliver` is the send, after which the call returns and
unlocks the store; until then it holds the lock, and no other call can begin.
All other steps are those of `Store` or of `Broadcaster`. In this module the
runner's `list` and `pc` are `rlist` and `rpc`. The two services start with
`XInit`, as `main` builds them; `Stop` may come at any time, which covers every
order in which go-bones may stop the services.

## 3. The runs

Bounds are constants of the modules or sets in the cfg files; nothing else is
bounded. `MaxWrites` bounds the UPDATEs of a session in `Packet`, `MaxSession` the
sessions of a peer, and `Talk` the messages in `BgpSession`.

| run | cfg | shows | bounds, and why they are enough |
|---|---|---|---|
| store | `MCApi.cfg` | `AnswersAreTrue`, `RefCounts`, `AnnouncedMatches`, `MinimalMessage`, `UpdateNeverHalfDone`, `NewInBatch`, the types of both modules, and the refinement `TableSpec` | two clients, so that one may overtake the other between its look and its change; three domains that share two addresses: a counter reaches three, a batch has a domain before and one after the one that changes; one tick of life, so that records are valid and expired at once. `MaxTTL` is 0, since a domain's own expiry matters only to `Refresh`. Symmetry in clients, addresses and the names that are not configured. 480 868 states |
| refresh | `MCRefresh.cfg` | `PublishRevivesItsRound`; `StaleIsWithdrawn` and `ExpiredIsAsked` under fairness | two domains, two addresses, one tick of life; rounds may fail, each of them if need be. 7 029 states |
| refresh_delete | `MCRefreshDelete.cfg` | finding: `PublishEntersNoName` is violated | the same |
| resolver | `MCResolver.cfg` | `TickerClosesSafely`, `AnswersKept`, `OnlyLeftoversAreLost`, `TypeOK`; `RoundEnds` under fairness | two domains, two servers: four workers and a channel of two slots, so that senders wait and answers of two servers differ. 327 307 states |
| resolver_panic | `MCResolverPanic.cfg` | finding: `NoSendOnClosedOut` is violated | the same with two addresses |
| resolver_drop | `MCResolverDrop.cfg` | finding: `AnswersPublished` is violated | the same |
| broadcaster | `MCBroadcaster.cfg` | `InSync`, `NoBlindReplace`, `LateDeleteDropsNothing`, `TypeOK` | two peers with two sessions each, so that an old and a new session meet in one queue and one peer's failure meets another's session; two slots for actions, one for messages; one address, announced and withdrawn; shutdown at any time. Symmetry in the peers. 763 104 states |
| broadcaster_skip | `MCBroadcasterSkip.cfg` | finding: `LivePeersInSync` is violated | two peers, one session each, no shutdown |
| broadcaster_panic | `MCBroadcasterPanic.cfg` | finding: `NoSendOnClosed` is violated | the same, no failure of a session, with shutdown |
| bgp_session | `MCBgpSession.cfg` | `ClientNotLost`, `LateDeleteDropsNothing`, `SessionTypeOK`; under fairness `ClientReturns`, `DeletePeerReturns`, `SessionRegistered`, `ShutdownCompletes` | one peer with two sessions: the goroutine that the first leaves behind may find the second up, or meet the goroutine of the second; an action channel of one slot, so that callbacks wait; `Talk`, the messages of `Broadcast`, is one that announces an address, so that the runner is busy now and then. 29 556 states |
| packet | `MCPacket.cfg` | `PeerReadsTheList`, `MarkersFollowMessages`, `AttributesRead`, `FitsUpTo810` | two messages of a session; each may announce and withdraw up to two routes, hosts and shorter masks, one of them no IPv4 address, so that a message that cannot be built comes before or after one about the same routes; or be of 810 hosts; no AS path, and one of two ASNs; preferences that need each of the four bytes. 13 264 states |
| resolvex | `MCResolveX.cfg` | `CallerHoldsLock`, `Pipeline`, `PeersKnowTheDomains`, the refinement `BroadcasterKept`; under fairness `LockReleased`, `PeersFollow` | two domains that share an address, so that an address outlives one of them; one peer with one session; channels of one slot, so that the lock's holder waits for the runner (with two slots, 185 292 states, all of it holds too; `PeersAreTold` and the other theorems are for any capacity); shutdown at any time. 92 646 states |

Deadlock is checked in the runs of `Api` and `Refresh`. In the others it is
not: a service that is stopped stops, sessions and messages are bounded, and a
process that has panicked does nothing more. That nobody waits for ever where
somebody should not is what the liveness properties are for.

Every property has a mutant in the module it belongs to or in one it uses,
named after the definition it changes and marked `Mutant:`, that breaks it.

### What the violations show

* **One failing peer silences others** (`broadcast/server.go:153`). The first
  writer that fails ends the loop over the peers, in the arbitrary order of a
  map. The peers after it miss the message, and nothing sends it again while
  their sessions live. `InSync` says exactly who can be out of date: the peers
  in `missed`.
* **A send may follow the close** (`broadcast/caster.go:46`, `manager.go:23,32`).
  `closed` is looked at before the send, and a sender may also be waiting for
  room. Liveness properties that a panic would break say so in their statement.
* **A deleted domain may come back** (`storage/dns.go:68`). `Publish` enters
  every domain of its batch, also one that was deleted or renamed while its
  round was resolving. It stays, is announced and is resolved from then on.
  `PublishRevivesItsRound` says that it can be no other: a name dropped before
  the round began stays out.
* **A worker may send on the closed channel** (`resolver/config.go:112`). When
  the context ends, the collector closes `out` while a worker stands between
  its look at the context and its select.
* **The last answers may be dropped** (`resolver/config.go:170`). The ticker
  finds no worker left and closes the round with answers still in the channel.
  Those are all that is lost (`OnlyLeftoversAreLost`).

A sixth finding has a theorem and no violation run.

* **An UPDATE may be too long to send** (`bgp/packet.go:151`). The comment of
  `buildUpdateMessage` (`packet.go:133-135`) calls its result "suitable for
  transmission over a BGP session". Nothing bounds it, and nothing splits a
  message: a table or batch of 811 hosts makes 4101 bytes where a BGP message
  has at most 4096. `FitsUpTo810` is the part of the promise that holds, and
  `UnsuitableAbove810` proves that no UPDATE of more than 810 hosts keeps it.

A limit that is no violation of a stated promise: the End-of-RIB of
`OnEstablished` may precede the table when the runner is slow, in which case
the table still follows (`SessionRegistered`).

### Fairness

* `Broadcaster`, used by `BgpSession` and `ResolveX`: the runner's loop over
  the peers goes on (weak fairness). Its select takes a ready case at random,
  so a case that is ready again and again is taken at last (strong fairness for
  each case). A channel serves its waiting senders in turn (strong fairness for
  the sends). A writer returns: corebgp's `WriteUpdate` fails once its session
  is gone. Nothing is assumed of `Establish`, `Break` and `Stop`.
* `BgpSession`: a callback and a pause come to their end (weak fairness); a
  goroutine that waits for corebgp's lock gets it in the end (strong fairness,
  a Go mutex starves nobody).
* `ResolveX`: the call that holds the store's lock goes on. Nothing makes a
  call begin, and nothing makes time pass.
* `Resolver`: weak fairness for each worker (an exchange has a timeout of its
  own), for the collector (its ticker fires) and for `Wait`. Nothing is assumed
  of the context, so `RoundEnds` does not rest on the fifteen seconds.
* `Refresh`: time passes; the call that holds the lock goes on; the resolver
  gets the lock and starts its round when there is something to do; and a round
  that has begun is over at last (weak fairness of `RoundOver`), since its
  context ends after fifteen seconds (`service.go:39`). How it ends is open: the
  rounds may fail for ever, and `ExpiredIsAsked` holds of such runs too. That
  the addresses of a domain are withdrawn needs more, since `Publish` is all
  that withdraws them: the DNS servers must answer at last. `Answered` says so,
  and it is a premise of `StaleIsWithdrawn` alone, not part of the
  specification. While no answer for a domain comes, its addresses stay
  announced after they have expired.

## 4. The proofs

The theorems hold for every value of the constants that the assumptions admit:
`StoreAssumption` (a finite set of domains, the configured ones among them,
lifetimes that are natural numbers), `BroadcasterAssumption` (channels of a
slot at least, a natural bound of sessions), `WiringAssumption`, which is the
same in `ResolveX`, `SessionAssumption` (the messages in `Talk` are messages,
and not empty) and `ResolverAssumption` (finite sets of domains and servers, a
channel of a slot at least) and `PacketAssumption` (messages of routes whose
masks have up to 32 bits and whose bytes are bytes, 16 bits for an ASN, 32 for
the preference). Nothing else is assumed.

| module | theorem | says |
|---|---|---|
| `StoreProofs` | `Invariance` | `Spec => []IInv` |
| | `TypeCorrect` | `Spec => []TypeOK`; no counter is ever zero or negative |
| | `CountersExact` | `Spec => []RefCounts` |
| | `MessagesAddUp` | `Spec => []AnnouncedMatches` |
| | `MessagesMinimal` | `Spec => []MinimalMessage` |
| | `BatchKeepsNews` | `Spec => []NewInBatch` |
| | `UpdateCompletes` | `Spec => []UpdateNeverHalfDone` |
| | `StoreImplementsTable` | `Spec => TableSpec`, the refinement of `RouteTable` |
| `ApiProofs` | `ApiKeepsStore` | `ApiSpec => Spec`: all of the above holds under any clients |
| | `ApiTypeCorrect`, `AnswersHold` | `ApiSpec => []ApiTypeOK`, `ApiSpec => []AnswersAreTrue` |
| `RefreshProofs` | `RevivalNeedsARace` | `RSpec => PublishRevivesItsRound`: the finding of `refresh_delete` needs a domain that is dropped during the very round |
| `BroadcasterProofs` | `BroadcasterTypeCorrect`, `PeersInSync`, `EveryNewPeerGetsTheTable`, `LateDeleteIsHarmless` | `Spec` implies always `TypeOK`, `InSync`, `NoBlindReplace`, `LateDeleteDropsNothing` |
| | `InSyncUntilFirstLoss` | `Spec => [](NoneLost => LivePeersInSync)`: until the first session is lost the finding of `broadcaster_skip` cannot happen |
| | `PanicNeedsShutdown` | `Spec => [](NoSendOnClosed \/ (stopping /\ actionClosed))`: the finding of `broadcaster_panic` needs the shutdown |
| `BgpSessionProofs` | `RestartsKeepWriters` | `SessionSpec => []LateDeleteDropsNothing`, with peers deleted and added under their sessions |
| | `ClientsNotLost`, `SessionTypeCorrect` | `SessionSpec` implies always `ClientNotLost`, `SessionTypeOK` |
| `ResolverProofs` | `ResolverTypeCorrect`, `TickerIsSafe`, `NoAnswerLost` | `Spec` implies always `TypeOK`, `TickerClosesSafely`, `AnswersKept` |
| | `PanicNeedsCancel` | `Spec => [](NoSendOnClosedOut \/ ctxDone)`: the finding of `resolver_panic` needs the end of the context |
| | `TickerDropsOnlyLeftovers` | `Spec => []OnlyLeftoversAreLost`: the finding of `resolver_drop` loses only what is in the channel when it is closed |
| `ResolveXProofs` | `WiringKeepsBroadcaster` | `XSpec => BroadcasterKept` |
| | `LockSpansBroadcast`, `NothingLostBetween`, `PeersAreTold` | `XSpec` implies always `CallerHoldsLock`, `Pipeline`, `PeersKnowTheDomains` |
| `PacketProofs` | `PIInvAlways` | `PSpec => []PIInv` |
| | `PeerHasTheList`, `MarkersFollow` | `PSpec` implies always `PeerReadsTheList`, `MarkersFollowMessages` |
| | `AttributesAreRead`, `Fits810` | `PSpec` implies always `AttributesRead`, `FitsUpTo810` |
| | `UnsuitableAbove810` | `PSpec => []TooLongAbove810`: no UPDATE of more than 810 hosts fits a BGP message |
| | `RoutesAreRead` | for every sequence of routes, what `readRoutes` makes of the bytes of `encodePrefixes` is the set of the routes |

**Store.** None of the invariants is inductive alone. A counter stays
positive only because it counts holders: `LastRefs` and `Gone` drop an address
at one, and decrement it above, so `TypeOK` needs `RefCounts`. The message adds
up (`AnnouncedMatches`) only if a batch never withdraws what it has announced
for another domain: updates win over removals in `updateList`, so such an
address would stay. It cannot happen, because an address announced by the batch
was in no domain before it and is counted only by domains already written;
that is `NewInBatch`. `MinimalMessage` needs the same. `CallState` and
`UpdateNeverHalfDone` tie the locals of a call to where it stands. `IInv` is
their conjunction.

The heart is `CountsFollow`: when one domain comes to hold `N` instead of what
it held, and each counter goes up by one for what is gained and down by one for
what is lost, counters remain cardinalities. `ReleaseCounts` (Delete, Update)
and `PublishCounts` apply it; there is then one lemma per action, and
`StepInv` collects them. For the refinement, `QuietAnnounced` says that between
two calls what is announced is what is wanted, and `StepMaps` gives each action
its `RouteTable` step: `PublishLock` is `Begin`, every step that writes or
removes a domain is a `Change`, `Broadcast` is `Release`, `PublishDone` is
`Release` or nothing, and `Tick` is nothing.

**Api.** While a `DELETE` or `PUT` is under way the ledger and the store differ
by the names that it has already dropped and entered. `AInv` says by which, as
a balance for each place where the call may stand (`CallUnderWay`), that the
call under way is the holder's and no other's (`Requests`), and the two
properties. With `UpdateNeverHalfDone` from `StoreProofs`, a `PUT` that got as
far as its second write is never refused there.

**Refresh.** What a round asks about was known when it began, so that it is
known now or has left since, and its `Publish` writes only what was asked. That
is `RoundInv`; with it the one step of `Publish` that enters a name enters one of
`left` (`RevivalStep`).

**Broadcaster.** The channel of `AddPeer` and `DelPeer` calls is the heart. For
each peer there is a history of writers: the one in the map, then the one in the
map after each of the waiting calls. In it additions and removals alternate,
removals are of sessions that are over, and its end is what the callback of
the peer expects (`Histories`). From it follow `NoBlindReplace` and
`LateDeleteDropsNothing`. `Sessions` and `Told` say what a session that is not
registered, or not yet served in the present loop, has been told, and with them
`InSync` is inductive. `BInv` is the conjunction. Two theorems bound what the
violations show. A writer of the map fails only if its session is broken or was
followed by another, and either leaves a mark in `link` or `sess` for good; so
before any session is lost no writer fails, nothing is missed, and `InSync`
leaves no exception (`InSyncUntilFirstLoss`). A panic finds its channel closed,
which is after the end of the runner's context (`PanicNeedsShutdown`).

**BgpSession.** Each step of it is one of `Broadcaster`'s or invisible to it
(`SStepMaps`), so that `BInv` and with it `LateDeleteDropsNothing` carry over. A
client leaves the map only with a goroutine in its pause behind it. For
`SessionTypeOK` each session is accounted for: the goroutines of a peer, the one
whose `DeletePeer` is under way and the session whose callbacks have not ended
are together no more than the sessions there have been.

**Resolver.** The counter is the number of workers that have not returned
(`CountsActive`), which makes the ticker's look at it safe; no worker has an
answer before its query (`Unanswered`), and the rest of `RInv` is the three
properties. A worker that stands before its select when the channel is closed is
in a round that the context has ended (`TickerClosesSafely`), so that it takes a
cancelled round to panic (`PanicNeedsCancel`). With `AnswersKept`, a round that
was not cancelled and failed nowhere has each answer published or in the closed
channel (`TickerDropsOnlyLeftovers`).

**ResolveX.** The store's steps are steps of `Store`, and the broadcaster's of
`Broadcaster`; for the latter the caller must be the holder of the lock, with
a message that is not empty (`CallerHoldsLock`, `SomethingToSay`). So the invariants
`IInv` and `BInv` of the two carry over, and `Pipeline` links them: a message
enters `announced` and the channel in one step, and leaves the channel for the
runner's list. With nothing under way, `announced` is what the domains hold
(`IInv`), the runner's list is `announced` (`Pipeline`), and a live peer that was not
skipped knows the list (`BInv`): that is `PeersKnowTheDomains`.

**Packet.** The encoder and the peer are recursive functions, and the library's
induction theorems, which take an operator as a parameter, cannot be used. What
they are needed for is proved from a well-founded order on numbers instead:
`MeasureInduction`, with a set in place of the predicate, and
`MeasureRecursion`, that a recursive definition has a solution when it calls
itself only on what measures less. With them each of the three functions
satisfies its equation (`EncodeExists`, `ReadExists`, `AttributeExists`). Then
`EncodeSplit` puts the bytes of a sequence together from any two parts,
`ReadFront` reads the first n routes from the front of any such bytes and leaves
the bytes of the others, and `RoutesAreRead` follows. For the attributes each is
shown to have its length in its third byte (`OriginRead`, `PathRead`,
`NextHopRead`, `LocalPrefRead`), so that they are read one after the other
(`ReadBack`); `Uint16Read` and `Uint32Read` put numbers together from their
bytes. `UpdateParsed` splits an UPDATE at the two lengths, which is where
`LengthsFit` is needed.

The properties speak of UPDATEs written before, and the lists of the peer and of
the runner agree only through them. `PIInv` adds that each UPDATE is what
`buildUpdateMessage` makes of the message told with it, or the End-of-RIB
(`History`), and that a writer that is idle has written a marker last
(`MarkerLast`), so that the next message is preceded by one. A message that is
written settles its routes (`MessageSettles`), one that is not may leave the two
lists apart in its own routes and no others (`MessageDisturbs`). An UPDATE of a
message is at least 25 bytes long and can be no marker; one of hosts has 5 bytes
for each and 25 more, 19 of header beside them, which reaches 4096 between 810
and 811 (`HostsFit`): both `Fits810` and `UnsuitableAbove810` follow.

Only model-checked: liveness, which the prover does not reach, and with it
`ENABLED`.

## 5. Not modelled

* `GET` and the iterator of `List`. They change nothing. The iterator runs
  after `List` has released its lock, so a listing may show the state between
  the two steps of an `Update`; the page asks again five seconds later.
* The admin page: it runs in the browser, and no state of the service depends
  on it. That answers to overlapping polls may be applied out of order is seen
  only there.
* `Domain util`: one request at start and a regular expression. `Fetch` splits
  its body at newlines, so that a trailing newline yields the empty name; it
  then is a name of `Configured` like another.
* `Config.Validate` of the resolver, which nothing calls, the settings, and the
  failures of constructors: the program ends before anything runs.
* The TTL that `Publish` is given for a domain is that of the first answer
  collected; `Refresh` and `Store` leave it open.
* What a peer makes of an UPDATE whose lengths were cut (`LengthsFit` is false).
  Such an UPDATE is built as the code builds it, but `PeerReadsTheList` and
  `AttributesRead` say nothing of the session from then on: the peer would have
  refused it for its length, see `UnsuitableAbove810`.
* Static files, JSON, logging, and the look-ups of `validateDomain`.
