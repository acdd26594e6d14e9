--------------------------- MODULE ResolverProofs ---------------------------
(***************************************************************************)
(* What holds of Resolver for any finite sets of domains and servers, any  *)
(* answers and any capacity of the channel.                                *)
(***************************************************************************)
EXTENDS Resolver, FiniteSetTheorems, TLAPS

\* The workers that have not returned.
Active == {t \in Task : task[t] \notin {"off", "done"}}

CountsActive == cnt = Cardinality(Active)

Unanswered == \A t \in Task : task[t] \in {"off", "query"} => answer[t] = {}

RInv == /\ TypeOK
        /\ CountsActive
        /\ Unanswered
        /\ TickerClosesSafely
        /\ AnswersKept

-----------------------------------------------------------------------------
(* The counter.                                                            *)

LEMMA TaskFinite == IsFiniteSet(Task)
BY ResolverAssumption, FS_Product DEF Task

LEMMA ActiveFinite ==
    /\ IsFiniteSet(Active)
    /\ Cardinality(Active) \in 0..Cardinality(Task)
    /\ Cardinality(Active) = 0 <=> Active = {}
<1>1. Active \subseteq Task
  BY DEF Active
<1>2. IsFiniteSet(Active) /\ Cardinality(Active) <= Cardinality(Task)
  BY <1>1, TaskFinite, FS_Subset
<1>3. Cardinality(Active) \in Nat /\ Cardinality(Task) \in Nat
  BY <1>2, TaskFinite, FS_CardinalityType
<1>4. QED  BY <1>2, <1>3, FS_EmptySet

\* A worker that moves on between its start and its return stays counted.
LEMMA StaysActive ==
    ASSUME TypeOK, CountsActive, NEW t \in Active, NEW s,
           s \notin {"off", "done"},
           task' = [task EXCEPT ![t] = s], cnt' = cnt
    PROVE  CountsActive'
<1>1. Active' = Active
  BY DEF Active, TypeOK
<1>2. QED  BY <1>1 DEF CountsActive

\* The round is over for the counter when it is over for every worker.
LEMMA NoneActive ==
    ASSUME CountsActive, cnt <= 0
    PROVE  \A t \in Task : task[t] \in {"off", "done"}
<1>1. Cardinality(Active) = 0
  BY ActiveFinite DEF CountsActive
<1>2. QED  BY <1>1, ActiveFinite DEF Active

-----------------------------------------------------------------------------
(* The steps.                                                              *)

LEMMA StartInv ==
    ASSUME RInv, NEW asked \in SUBSET Domain, Start(asked)
    PROVE  RInv'
<1> USE DEF RInv
<1>1. Tasks(asked) \subseteq Task
  BY DEF Tasks, Task
<1>2. Active' = Tasks(asked)
  BY <1>1 DEF Start, Active
<1>3. CountsActive'
  BY <1>2 DEF Start, CountsActive
<1>4. Cardinality(Tasks(asked)) \in 0..Cardinality(Task)
  <2>1. IsFiniteSet(Tasks(asked)) /\ Cardinality(Tasks(asked)) <= Cardinality(Task)
    BY <1>1, TaskFinite, FS_Subset
  <2>2. QED  BY <2>1, TaskFinite, FS_CardinalityType
<1>5. TypeOK'
  <2>1. DOMAIN NoItems = {} /\ NoItems \in [DOMAIN NoItems -> SUBSET Address]
    BY DEF NoItems
  <2>2. <<>> \in Seq(Task) /\ Len(<<>>) = 0
    OBVIOUS
  <2>3. out' \in Seq(Task) /\ Len(out') <= OutCap
    BY <2>2, ResolverAssumption DEF Start
  <2>4. DOMAIN lst' \subseteq Domain /\ lst' \in [DOMAIN lst' -> SUBSET Address]
    BY <2>1 DEF Start
  <2>5. QED  BY <1>4, <2>3, <2>4 DEF Start, TypeOK
<1>6. Unanswered' /\ TickerClosesSafely'
  BY DEF Start, Unanswered, TickerClosesSafely
<1>7. AnswersKept'
  BY DEF Start, AnswersKept, Sent
<1>8. QED  BY <1>3, <1>5, <1>6, <1>7

\* What a worker does before it has sent.
LEMMA QueryInv ==
    ASSUME RInv, NEW t \in Task,
           QueryFails(t) \/ \E A \in SUBSET Address : QueryAnswered(t, A)
    PROVE  RInv'
<1> USE DEF RInv, QueryFails, QueryAnswered, group
<1>1. t \in Active
  BY DEF Active
<1>2. PICK s \in {"return", "check"} : task' = [task EXCEPT ![t] = s]
  OBVIOUS
<1>3. CountsActive'
  BY <1>1, <1>2, StaysActive
<1>4. TypeOK'
  BY DEF TypeOK
<1>5. Unanswered'
  BY DEF Unanswered, TypeOK
<1>6. TickerClosesSafely'
  BY DEF TickerClosesSafely
<1>7. AnswersKept'
  <2>1. \A u \in Task : Sent(u)' => Sent(u) /\ answer'[u] = answer[u]
    BY DEF Sent, Unanswered, TypeOK
  <2>2. QED  BY <2>1 DEF AnswersKept
<1>8. QED  BY <1>3, <1>4, <1>5, <1>6, <1>7

LEMMA CheckInv ==
    ASSUME RInv, NEW t \in Task, CheckContext(t)
    PROVE  RInv'
<1> USE DEF RInv, CheckContext, ReturnError, group
<1>1. t \in Active
  BY DEF Active
<1>2. PICK s \in {"return", "send"} : task' = [task EXCEPT ![t] = s]
  OBVIOUS
<1>3. CountsActive'
  BY <1>1, <1>2, StaysActive
<1>4. TypeOK'
  BY DEF TypeOK
<1>5. Unanswered'
  BY <1>2 DEF Unanswered, TypeOK
<1>6. TickerClosesSafely'
  BY DEF TickerClosesSafely
<1>7. AnswersKept'
  <2>1. ~ctxDone' => \A u \in Task : Sent(u)' => Sent(u)
    BY DEF Sent, TypeOK
  <2>2. QED  BY <2>1 DEF AnswersKept
<1>8. QED  BY <1>3, <1>4, <1>5, <1>6, <1>7

\* An answer that is sent is in the channel.
LEMMA SendInv ==
    ASSUME RInv, NEW t \in Task, Send(t)
    PROVE  RInv'
<1> USE DEF RInv, Send, ReturnError, group
<1>1. t \in Active
  BY DEF Active
<1>2. PICK s \in {"return", "panicked"} : task' = [task EXCEPT ![t] = s]
  OBVIOUS
<1>3. CountsActive'
  BY <1>1, <1>2, StaysActive
<1>4. out \in Seq(Task) /\ out' \in {out, Append(out, t)}
  BY DEF TypeOK
<1>5. out' \in Seq(Task) /\ Len(out') <= OutCap
  BY <1>4, ResolverAssumption DEF TypeOK
<1>6. TypeOK'
  BY <1>2, <1>5 DEF TypeOK
<1>7. Unanswered'
  BY <1>2 DEF Unanswered, TypeOK
<1>8. TickerClosesSafely'
  BY DEF TickerClosesSafely
<1>9. AnswersKept'
  <2>1. SUFFICES ASSUME ~ctxDone', NEW u \in Task, Sent(u)'
                 PROVE  \/ \E i \in DOMAIN out' : out'[i] = u
                        \/ u[1] \in DOMAIN lst /\ answer[u] \subseteq lst[u[1]]
    BY DEF AnswersKept
  <2>2. \A i \in DOMAIN out : i \in DOMAIN out' /\ out'[i] = out[i]
    BY <1>4
  <2>3. CASE u # t
    <3>1. Sent(u)
      BY <2>1, <2>3 DEF Sent, TypeOK
    <3>2. QED  BY <2>1, <2>2, <3>1 DEF AnswersKept
  <2>4. CASE u = t
    <3>1. task'[t] \in {"return", "done"} /\ ~ctxDone
      BY <2>1, <2>4 DEF Sent
    <3>2. out' = Append(out, t)
      BY <3>1 DEF TypeOK
    <3>3. Len(out) + 1 \in DOMAIN out' /\ out'[Len(out) + 1] = t
      BY <3>2, <1>4
    <3>4. QED  BY <2>4, <3>3
  <2>5. QED  BY <2>3, <2>4
<1>10. QED  BY <1>3, <1>6, <1>7, <1>8, <1>9

\* The deferred decrement.
LEMMA ReturnInv ==
    ASSUME RInv, NEW t \in Task, Return(t)
    PROVE  RInv'
<1> USE DEF RInv, Return, group
<1>1. t \in Active /\ Active' = Active \ {t}
  BY DEF Active, TypeOK
<1>2. CountsActive'
  BY <1>1, ActiveFinite, FS_RemoveElement DEF CountsActive
<1>3. TypeOK'
  <2>1. cnt' \in 0..Cardinality(Task)
    <3>1. Active # {}
      BY <1>1
    <3>2. cnt # 0 /\ cnt \in 0..Cardinality(Task)
      BY <3>1, ActiveFinite DEF CountsActive
    <3>3. Cardinality(Task) \in Nat
      BY TaskFinite, FS_CardinalityType
    <3>4. QED  BY <3>2, <3>3
  <2>2. QED  BY <2>1 DEF TypeOK
<1>4. Unanswered'
  BY DEF Unanswered, TypeOK
<1>5. TickerClosesSafely'
  BY DEF TickerClosesSafely, TypeOK
<1>6. AnswersKept'
  <2>1. \A u \in Task : Sent(u)' => Sent(u)
    BY DEF Sent, TypeOK
  <2>2. QED  BY <2>1 DEF AnswersKept
<1>7. QED  BY <1>2, <1>3, <1>4, <1>5, <1>6

\* The channel is closed by the ticker only when nobody is counted.
LEMMA CloseInv ==
    ASSUME RInv, CollectorCancelled \/ CollectorTick \/ ContextDone \/ Wait
    PROVE  RInv'
<1> USE DEF RInv, CollectorCancelled, CollectorTick, ContextDone, Wait, CloseOut, group
<1>1. TypeOK'
  BY DEF TypeOK
<1>2. CountsActive'
  BY DEF CountsActive, Active
<1>3. Unanswered'
  BY DEF Unanswered
<1>4. TickerClosesSafely'
  BY NoneActive DEF TickerClosesSafely
<1>5. AnswersKept'
  BY DEF AnswersKept, Sent
<1>6. QED  BY <1>1, <1>2, <1>3, <1>4, <1>5

\* The collector takes an answer from the channel into its items.
LEMMA ResultInv ==
    ASSUME RInv, CollectorResult
    PROVE  RInv'
<1> USE DEF RInv, CollectorResult
<1> DEFINE h == Head(out)
<1>1. /\ out \in Seq(Task) /\ out # <<>> /\ h \in Task /\ h[1] \in Domain
      /\ Tail(out) \in Seq(Task) /\ Len(Tail(out)) = Len(out) - 1
      /\ \A i \in DOMAIN out \ {1} : i - 1 \in DOMAIN Tail(out) /\ Tail(out)[i - 1] = out[i]
  BY DEF TypeOK, Task
<1>2. /\ DOMAIN lst' = DOMAIN lst \cup {h[1]}
      /\ \A d \in DOMAIN lst : lst[d] \subseteq lst'[d]
      /\ answer[h] \subseteq lst'[h[1]]
  BY DEF Collect
<1>3. TypeOK'
  <2>1. \A d \in DOMAIN lst' : lst'[d] \subseteq Address
    BY <1>1 DEF Collect, TypeOK
  <2>2. lst' \in [DOMAIN lst' -> SUBSET Address]
    BY <2>1 DEF Collect
  <2>3. Len(out') <= OutCap
    BY <1>1, ResolverAssumption DEF TypeOK
  <2>4. QED  BY <1>1, <1>2, <2>2, <2>3 DEF TypeOK
<1>4. CountsActive'
  BY DEF CountsActive, Active
<1>5. Unanswered' /\ TickerClosesSafely'
  BY DEF Unanswered, TickerClosesSafely
<1>6. AnswersKept'
  <2>1. SUFFICES ASSUME ~ctxDone, NEW u \in Task, Sent(u)
                 PROVE  \/ \E i \in DOMAIN out' : out'[i] = u
                        \/ u[1] \in DOMAIN lst' /\ answer[u] \subseteq lst'[u[1]]
    BY DEF AnswersKept, Sent
  <2>2. CASE u = h
    BY <1>2, <2>2
  <2>3. CASE u # h
    <3>1. CASE \E i \in DOMAIN out : out[i] = u
      <4>1. PICK i \in DOMAIN out : out[i] = u
        BY <3>1
      <4>2. i # 1
        BY <2>3, <4>1, <1>1
      <4>3. QED  BY <1>1, <4>1, <4>2
    <3>2. CASE u[1] \in DOMAIN lst /\ answer[u] \subseteq lst[u[1]]
      BY <1>2, <3>2
    <3>3. QED  BY <2>1, <3>1, <3>2 DEF AnswersKept
  <2>4. QED  BY <2>2, <2>3
<1>7. QED  BY <1>3, <1>4, <1>5, <1>6

-----------------------------------------------------------------------------
LEMMA InitInv == Init => RInv
<1> SUFFICES ASSUME Init PROVE RInv
  OBVIOUS
<1> USE DEF Init
<1>1. Active = {}
  BY DEF Active
<1>2. CountsActive
  BY <1>1, FS_EmptySet DEF CountsActive
<1>3. TypeOK
  <2>1. Cardinality(Task) \in Nat
    BY TaskFinite, FS_CardinalityType
  <2>2. DOMAIN NoItems = {} /\ NoItems \in [DOMAIN NoItems -> SUBSET Address]
    BY DEF NoItems
  <2>3. out \in Seq(Task) /\ Len(out) <= OutCap
    BY ResolverAssumption
  <2>4. DOMAIN lst \subseteq Domain /\ lst \in [DOMAIN lst -> SUBSET Address]
    BY <2>2
  <2>5. cnt \in 0..Cardinality(Task)
    BY <2>1
  <2>6. /\ task \in [Task -> {"off", "query", "check", "send", "return", "done", "panicked"}]
        /\ answer \in [Task -> SUBSET Address]
    OBVIOUS
  <2>7. QED  BY <2>3, <2>4, <2>5, <2>6 DEF TypeOK
<1>4. Unanswered /\ TickerClosesSafely /\ AnswersKept
  BY DEF Unanswered, TickerClosesSafely, AnswersKept, Sent
<1>5. QED  BY <1>2, <1>3, <1>4 DEF RInv

LEMMA StepInv == RInv /\ [Next]_vars => RInv'
<1> SUFFICES ASSUME RInv, [Next]_vars PROVE RInv'
  OBVIOUS
<1>1. ASSUME NEW asked \in SUBSET Domain, Start(asked) PROVE RInv'
  BY <1>1, StartInv
<1>2. ASSUME NEW t \in Task, Worker(t) PROVE RInv'
  BY <1>2, QueryInv, CheckInv, SendInv, ReturnInv DEF Worker
<1>3. CASE Collector
  BY <1>3, CloseInv, ResultInv DEF Collector
<1>4. CASE ContextDone \/ Wait
  BY <1>4, CloseInv
<1>5. CASE UNCHANGED vars
  BY <1>5 DEF vars, group, RInv, TypeOK, CountsActive, Active, Unanswered,
              TickerClosesSafely, AnswersKept, Sent
<1>6. QED  BY <1>1, <1>2, <1>3, <1>4, <1>5 DEF Next

LEMMA RoundInvariance == Spec => []RInv
BY InitInv, StepInv, PTL DEF Spec

\* The state has its type: the counter of workers is never negative.
THEOREM ResolverTypeCorrect == Spec => []TypeOK
BY RoundInvariance, PTL DEF RInv

\* The collector that ends a round by its ticker closes the channel only
\* when every worker of the round has returned (cli.cnt.Load() <= 0).
THEOREM TickerIsSafe == Spec => []TickerClosesSafely
BY RoundInvariance, PTL DEF RInv

\* Before the channel is closed no answer is lost: it waits in the channel or
\* is part of the item that will be published for its domain.
THEOREM NoAnswerLost == Spec => []AnswersKept
BY RoundInvariance, PTL DEF RInv

-----------------------------------------------------------------------------
(* How far the two promises that the code breaks do hold.                  *)

\* An error of a worker, and a panic, need a context that is done.
CancelInv ==
    /\ failed => ctxDone
    /\ NoSendOnClosedOut \/ ctxDone

\* A worker that finds the channel closed is not in a round that its ticker
\* ended (TickerClosesSafely): the collector closed it on ctx.Done().
LEMMA CancelStep == RInv /\ CancelInv /\ [Next]_vars => CancelInv'
<1> SUFFICES ASSUME RInv, CancelInv, [Next]_vars PROVE CancelInv'
  OBVIOUS
<1> USE DEF CancelInv, NoSendOnClosedOut
<1>1. task \in [Task -> {"off", "query", "check", "send", "return", "done", "panicked"}]
  BY DEF RInv, TypeOK
<1>2. ASSUME NEW asked \in SUBSET Domain, Start(asked) PROVE CancelInv'
  BY <1>2 DEF Start
<1>3. ASSUME NEW t \in Task,
             QueryFails(t) \/ (\E A \in SUBSET Address : QueryAnswered(t, A)) \/ Return(t)
      PROVE  CancelInv'
  BY <1>1, <1>3 DEF QueryFails, QueryAnswered, Return
<1>4. ASSUME NEW t \in Task, CheckContext(t) PROVE CancelInv'
  BY <1>1, <1>4 DEF CheckContext, ReturnError
<1>5. ASSUME NEW t \in Task, Send(t) PROVE CancelInv'
  <2>1. outClosed => ctxDone
    BY <1>5 DEF Send, RInv, TickerClosesSafely
  <2>2. QED  BY <1>1, <1>5, <2>1 DEF Send, ReturnError
<1>6. CASE Collector \/ ContextDone \/ Wait \/ UNCHANGED vars
  BY <1>6 DEF Collector, CollectorCancelled, CollectorTick, CloseOut, CollectorResult,
              ContextDone, Wait, vars, group
<1>7. QED  BY <1>2, <1>3, <1>4, <1>5, <1>6 DEF Next, Worker

\* CancelInv holds in every reachable state.
LEMMA CancelInvariance == Spec => []CancelInv
<1>1. Init => CancelInv
  BY DEF Init, CancelInv, NoSendOnClosedOut
<1>2. QED  BY <1>1, RoundInvariance, CancelStep, PTL DEF Spec

\* The panic of resolveDomain needs the end of the context: in a round that
\* is not cancelled no worker ever sends on the closed channel.
THEOREM PanicNeedsCancel == Spec => [](NoSendOnClosedOut \/ ctxDone)
BY CancelInvariance, PTL DEF CancelInv

\* The collector closes out (config.go, case <-tick.C) and loses what is in it,
\* but no answer it has taken, and no answer of a worker that is still to send.
THEOREM TickerDropsOnlyLeftovers == Spec => []OnlyLeftoversAreLost
<1>1. RInv /\ CancelInv => OnlyLeftoversAreLost
  BY DEF RInv, CancelInv, AnswersKept, OnlyLeftoversAreLost, Published
<1>2. QED  BY <1>1, RoundInvariance, CancelInvariance, PTL
=============================================================================
