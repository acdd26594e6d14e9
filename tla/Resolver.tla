------------------------------ MODULE Resolver ------------------------------
(***************************************************************************)
(* internal/resolver: one call of resolveDomains after the other.  A round *)
(* has one worker goroutine per domain and server, and a collector that    *)
(* gathers their answers until its ticker finds no worker left, or until   *)
(* the context is done (the 15 second timeout, the shutdown, or an error   *)
(* returned by a worker to the errgroup).                                  *)
(*                                                                         *)
(* An answer is the set of its A records.  Its TTL, and the expiry given   *)
(* to the records, are left to module Refresh.                             *)
(***************************************************************************)
EXTENDS Integers, Sequences, FiniteSets

CONSTANTS Domain,   \* the domains that may have expired
          Server,   \* Config.Servers
          Address,  \* the addresses a name may resolve to
          OutCap    \* capacity of the out channel (1000 in resolveDomains)

ASSUME ResolverAssumption ==
    /\ IsFiniteSet(Domain) /\ IsFiniteSet(Server)
    /\ OutCap \in Nat \ {0}

Task == Domain \X Server

VARIABLES phase,     \* "idle" between rounds, "run" until Wait returns
          task,      \* where each worker stands
          answer,    \* the A records each worker received
          cnt,       \* the counter of running workers
          out,       \* the channel of results
          outClosed, \* the collector has closed it
          ctxDone,   \* the context of the errgroup is done
          failed,    \* a worker returned an error to the errgroup
          coll,      \* the collector: "off", "run" or "done"
          lst        \* the items collected: domain -> addresses

vars == <<phase, task, answer, cnt, out, outClosed, ctxDone, failed, coll, lst>>
group == <<outClosed, coll, lst>>

NoItems == [d \in {} |-> {}]

Init ==
    /\ phase = "idle"
    /\ task = [t \in Task |-> "off"]
    /\ answer = [t \in Task |-> {}]
    /\ cnt = 0
    /\ out = <<>>
    /\ outClosed = FALSE
    /\ ctxDone = FALSE
    /\ failed = FALSE
    /\ coll = "off"
    /\ lst = NoItems

\* The tasks of a round that asks every server about each domain of asked.
Tasks(asked) == asked \X Server

\* Mutant: the workers are counted per domain.
StartCountsDomains(asked) ==
    /\ phase = "idle"
    /\ asked # {}
    /\ phase' = "run"
    /\ task' = [t \in Task |-> IF t \in Tasks(asked) THEN "query" ELSE "off"]
    /\ answer' = [t \in Task |-> {}]
    /\ cnt' = Cardinality(asked)
    /\ out' = <<>>
    /\ outClosed' = FALSE
    /\ ctxDone' = FALSE
    /\ failed' = FALSE
    /\ coll' = "run"
    /\ lst' = NoItems

\* A round starts, with its workers and its collector.  With no expired
\* domain resolveDomains returns at once, and nothing happens.
Start(asked) ==
    /\ phase = "idle"
    /\ asked # {}
    /\ phase' = "run"
    /\ task' = [t \in Task |-> IF t \in Tasks(asked) THEN "query" ELSE "off"]
    /\ answer' = [t \in Task |-> {}]
    /\ cnt' = Cardinality(Tasks(asked))
    /\ out' = <<>>
    /\ outClosed' = FALSE
    /\ ctxDone' = FALSE
    /\ failed' = FALSE
    /\ coll' = "run"
    /\ lst' = NoItems

-----------------------------------------------------------------------------
(* A worker: resolveDomain.                                                *)

\* Mutants: a failed exchange is counted twice, or never.
QueryFailsTwice(t) ==
    /\ task[t] = "query"
    /\ task' = [task EXCEPT ![t] = "return"]
    /\ cnt' = cnt - 1
    /\ UNCHANGED <<phase, answer, out, ctxDone, failed, group>>

QueryFailsUncounted(t) ==
    /\ task[t] = "query"
    /\ task' = [task EXCEPT ![t] = "done"]
    /\ UNCHANGED <<phase, answer, cnt, out, ctxDone, failed, group>>

\* The exchange failed or timed out: the worker returns nil.
QueryFails(t) ==
    /\ task[t] = "query"
    /\ task' = [task EXCEPT ![t] = "return"]
    /\ UNCHANGED <<phase, answer, cnt, out, ctxDone, failed, group>>

QueryAnswered(t, A) ==
    /\ task[t] = "query"
    /\ task' = [task EXCEPT ![t] = "check"]
    /\ answer' = [answer EXCEPT ![t] = A]
    /\ UNCHANGED <<phase, cnt, out, ctxDone, failed, group>>

\* An error returned to the errgroup cancels its context.
ReturnError(t) ==
    /\ task' = [task EXCEPT ![t] = "return"]
    /\ failed' = TRUE
    /\ ctxDone' = TRUE

\* ctx.Err() is looked at before the select.
CheckContext(t) ==
    /\ task[t] = "check"
    /\ IF ctxDone
       THEN ReturnError(t)
       ELSE task' = [task EXCEPT ![t] = "send"] /\ UNCHANGED <<failed, ctxDone>>
    /\ UNCHANGED <<phase, answer, cnt, out, group>>

\* The select takes any of its cases that is ready.  A send on the closed
\* channel is ready, and panics.
Send(t) ==
    /\ task[t] = "send"
    /\ \/ /\ ctxDone
          /\ ReturnError(t)
          /\ UNCHANGED out
       \/ /\ ~outClosed
          /\ Len(out) < OutCap
          /\ out' = Append(out, t)
          /\ task' = [task EXCEPT ![t] = "return"]
          /\ UNCHANGED <<failed, ctxDone>>
       \/ /\ outClosed
          /\ task' = [task EXCEPT ![t] = "panicked"]
          /\ UNCHANGED <<out, failed, ctxDone>>
    /\ UNCHANGED <<phase, answer, cnt, group>>

\* The deferred decrement, when the worker has returned.
Return(t) ==
    /\ task[t] = "return"
    /\ task' = [task EXCEPT ![t] = "done"]
    /\ cnt' = cnt - 1
    /\ UNCHANGED <<phase, answer, out, ctxDone, failed, group>>

-----------------------------------------------------------------------------
(* The collector.                                                          *)

\* The timeout of the round, or the shutdown of the service.
ContextDone ==
    /\ phase = "run"
    /\ ~ctxDone
    /\ ctxDone' = TRUE
    /\ UNCHANGED <<phase, task, answer, cnt, out, failed, group>>

CloseOut ==
    /\ outClosed' = TRUE
    /\ coll' = "done"
    /\ UNCHANGED <<phase, task, answer, cnt, out, ctxDone, failed, lst>>

\* case <-ctx.Done()
CollectorCancelled == coll = "run" /\ ctxDone /\ CloseOut

\* case <-tick.C: the channel is closed, and what it still holds is dropped,
\* when no worker is left.
CollectorTick == coll = "run" /\ cnt <= 0 /\ CloseOut

\* Mutant: an answer replaces those of the other servers.
CollectReplaces(t) ==
    [d \in DOMAIN lst \cup {t[1]} |-> IF d = t[1] THEN answer[t] ELSE lst[d]]

\* The records of an answer join those of its domain's item.
Collect(t) ==
    [d \in DOMAIN lst \cup {t[1]} |->
        (IF d \in DOMAIN lst THEN lst[d] ELSE {})
        \cup (IF d = t[1] THEN answer[t] ELSE {})]

\* case res := <-out
CollectorResult ==
    /\ coll = "run"
    /\ out # <<>>
    /\ lst' = Collect(Head(out))
    /\ out' = Tail(out)
    /\ UNCHANGED <<phase, task, answer, cnt, outClosed, ctxDone, failed, coll>>

\* What Publish is called with: nothing when a worker returned an error.
Published == IF failed THEN NoItems ELSE lst

\* Wait returns, and the round ends with its Publish.
Wait ==
    /\ phase = "run"
    /\ coll = "done"
    /\ \A t \in Task : task[t] \in {"off", "done"}
    /\ phase' = "idle"
    /\ UNCHANGED <<task, answer, cnt, out, ctxDone, failed, group>>

Worker(t) ==
    \/ QueryFails(t)
    \/ \E A \in SUBSET Address : QueryAnswered(t, A)
    \/ CheckContext(t)
    \/ Send(t)
    \/ Return(t)

Collector == CollectorCancelled \/ CollectorTick \/ CollectorResult

Next ==
    \/ \E asked \in SUBSET Domain : Start(asked)
    \/ \E t \in Task : Worker(t)
    \/ Collector
    \/ ContextDone
    \/ Wait

Spec == Init /\ [][Next]_vars

\* Every exchange ends (the client's own timeouts), every goroutine that can
\* run does, and the ticker fires.  Nothing is assumed of the context.
Fairness ==
    /\ \A t \in Task : WF_vars(Worker(t))
    /\ WF_vars(Collector)
    /\ WF_vars(Wait)

FairSpec == Spec /\ Fairness

-----------------------------------------------------------------------------
(* Properties.                                                             *)

\* The type of the state.
TypeOK ==
    /\ phase \in {"idle", "run"}
    /\ task \in [Task -> {"off", "query", "check", "send", "return", "done",
                          "panicked"}]
    /\ answer \in [Task -> SUBSET Address]
    /\ cnt \in 0..Cardinality(Task)
    /\ out \in Seq(Task) /\ Len(out) <= OutCap
    /\ outClosed \in BOOLEAN /\ ctxDone \in BOOLEAN /\ failed \in BOOLEAN
    /\ coll \in {"off", "run", "done"}
    /\ DOMAIN lst \subseteq Domain
    /\ lst \in [DOMAIN lst -> SUBSET Address]

Sent(t) == answer[t] # {} /\ task[t] \in {"return", "done"}

\* When the ticker ends a round, no worker is left that could send on the
\* channel it closes.
TickerClosesSafely ==
    outClosed /\ ~ctxDone => \A t \in Task : task[t] \in {"off", "done"}

\* A round whose context is not done loses no answer before it closes the
\* channel: each is in the channel or in the item of its domain.
AnswersKept ==
    ~ctxDone => \A t \in Task : Sent(t) =>
        \/ \E i \in DOMAIN out : out[i] = t
        \/ t[1] \in DOMAIN lst /\ answer[t] \subseteq lst[t[1]]

\* A round that ends in time publishes every answer it received (README.md:
\* several servers are asked for "redundancy and reliability").
AnswersPublished ==
    phase = "idle" /\ ~ctxDone => \A t \in Task : Sent(t) =>
        t[1] \in DOMAIN Published /\ answer[t] \subseteq Published[t[1]]

\* What the collector's ticker drops is what it left in the channel, and no
\* more: when a round that was not cancelled is over, each answer its workers
\* sent is published, or is still in the channel that was closed.
OnlyLeftoversAreLost ==
    phase = "idle" /\ ~ctxDone => \A t \in Task : Sent(t) =>
        \/ \E i \in DOMAIN out : out[i] = t
        \/ t[1] \in DOMAIN Published /\ answer[t] \subseteq Published[t[1]]

\* No worker sends on the closed channel.
NoSendOnClosedOut == \A t \in Task : task[t] # "panicked"

\* Every round ends, unless a worker panics.
RoundEnds == phase = "run" ~> phase = "idle" \/ ~NoSendOnClosedOut
=============================================================================
