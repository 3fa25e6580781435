----------------------- MODULE InMemoryOutcomeProofs -----------------------
(***************************************************************************)
(* What the in-memory transport makes of its events, for any set of        *)
(* events, any capacity and retry limit, and any sharing of Headers: ended *)
(* events stay ended, the retry budget is kept, a wedged loop stays        *)
(* wedged, the line implements a bounded queue, each event leads the life  *)
(* of EventLife, the counter of the queue counts what PendingAccounting    *)
(* says, and the loop waits for itself only when overloaded.  Both layers  *)
(* of the inductive invariant are proved in InMemoryBusProofs.             *)
(***************************************************************************)
EXTENDS InMemoryBusProofs, FiniteSetTheorems

BothLayers == ControlInv /\ LineInv

\* The two layers hold together in every behaviour.
LEMMA BothLayersAlways == Spec => []BothLayers
BY ControlInvariant, LineInvariant, PTL DEF BothLayers

\* What both layers say of the event in the loop's hands and of one that is being
\* published, in the form the proofs below use.
LEMMA UnfinishedEvents ==
    ASSUME BothLayers
    PROVE  /\ \A e \in Events : call[e] \in Active => outcome[e] = "none"
           /\ current # NoEvent =>
                 /\ current \in Events /\ pc \notin {"reading", "stopped"}
                 /\ pc # "poisoning" => outcome[current] = "none"
           /\ pc \notin {"reading", "stopped"} => current # NoEvent
           /\ call[Subscriber] # "idle" => pc = "requeueing"
           /\ NoEvent \notin Events
           /\ Subscriber \in Callers
           /\ \A e \in Events : e \in Callers /\ e # Subscriber
           /\ call \in [Callers -> CallStates]
           /\ outcome \in [Events -> Outcomes]
           /\ failures \in [Events -> Nat]
           /\ retryCount \in [HeaderObjs -> 0 .. MaxRetry]
           /\ QueueInv
<1>1. \A e \in Events : call[e] \in Active => outcome[e] = "none"
  BY DEF BothLayers, LineInv, OutcomeFitsCall, Active
<1>2. current # NoEvent =>
         /\ current \in Events /\ pc \notin {"reading", "stopped"}
         /\ pc # "poisoning" => outcome[current] = "none"
  BY DEF BothLayers, ControlInv, TypeOK, LoopControl, LineInv, LoopHoldsEvent
<1>3. /\ pc \notin {"reading", "stopped"} => current # NoEvent
      /\ call[Subscriber] # "idle" => pc = "requeueing"
      /\ QueueInv
  BY DEF BothLayers, ControlInv, LoopControl
<1>4. /\ call \in [Callers -> CallStates]
      /\ outcome \in [Events -> Outcomes]
      /\ failures \in [Events -> Nat]
      /\ retryCount \in [HeaderObjs -> 0 .. MaxRetry]
  BY DEF BothLayers, ControlInv, TypeOK, QueueTypeOK
<1> QED  BY <1>1, <1>2, <1>3, <1>4, QueueAssumption, BusAssumption

\* EnqueueAsync works on a call that has begun and not ended.
LEMMA ThrowsFromActive ==
    ASSUME BothLayers, NEW c \in Callers, AlertThrows(c) \/ WriteCancelled(c)
    PROVE  /\ call[c] \in Active
           /\ call' = [call EXCEPT ![c] = "threw"]
<1>1. QueueInv
  BY DEF BothLayers, ControlInv
<1>2. CASE AlertThrows(c)
  BY <1>2 DEF AlertThrows, Active
<1>3. CASE WriteCancelled(c)
  BY <1>1, <1>3, WriteCancelledStep DEF WriteCancelled, Active
<1> QED  BY <1>2, <1>3

-----------------------------------------------------------------------------
(* The outcome of an event *)

\* What every step does to the outcomes: nothing, or it ends one event that had not
\* ended, by one of the ways of the code.
EndsOnly(e, result) ==
    /\ outcome[e] = "none"
    /\ outcome' = [outcome EXCEPT ![e] = result]

OutcomeStep ==
    \/ UNCHANGED <<outcome, failures, retryCount>>
    \/ \E e \in Events, result \in {"rejected", "unregistered", "skipped", "handled", "retryLost"} :
          EndsOnly(e, result) /\ UNCHANGED <<failures, retryCount>>
    \/ \E e \in Events :
          /\ EndsOnly(e, "cancelled")
          /\ failures' = [failures EXCEPT ![e] = @ + 1]
          /\ UNCHANGED retryCount
    \/ \E e \in Events :
          /\ EndsOnly(e, "poisoned")
          /\ ~RetriesLeft(e)
          /\ failures' = [failures EXCEPT ![e] = @ + 1]
          /\ UNCHANGED retryCount
    \/ \E e \in Events :
          /\ outcome[e] = "none"
          /\ RetriesLeft(e)
          /\ failures' = [failures EXCEPT ![e] = @ + 1]
          /\ RaiseRetryCount(e)
          /\ UNCHANGED outcome

\* Every step of the transport is one of these.
LEMMA EveryStepIsOutcomeStep == BothLayers /\ [Next]_vars => OutcomeStep
<1> SUFFICES ASSUME BothLayers, [Next]_vars PROVE OutcomeStep
  OBVIOUS
<1>0. /\ current # NoEvent => current \in Events /\ (pc # "poisoning" => outcome[current] = "none")
      /\ pc \notin {"reading", "stopped"} => current # NoEvent
      /\ call[Subscriber] # "idle" => pc = "requeueing"
      /\ \A e \in Events : e \in Callers
  BY UnfinishedEvents
<1>1. CASE UNCHANGED vars
  BY <1>1 DEF vars, OutcomeStep
<1>2. ASSUME NEW e \in Events, Publish(e) \/ HandlerPublishes(e) \/ PublishGoesOn(e)
      PROVE  OutcomeStep
  BY <1>2 DEF Publish, HandlerPublishes, PublishGoesOn, busVars, OutcomeStep
<1>3. ASSUME NEW e \in Events, PublishThrows(e)
      PROVE  OutcomeStep
  <2>1. outcome[e] = "none"
    BY <1>0, <1>3, ThrowsFromActive, UnfinishedEvents DEF PublishThrows
  <2> QED  BY <1>3, <2>1 DEF PublishThrows, OutcomeStep, EndsOnly
<1>4. CASE SubscribeAsync \/ AttachConsumer \/ Stop
  BY <1>4 DEF SubscribeAsync, AttachConsumer, Stop, OutcomeStep
<1>5. CASE \/ LoopEnds \/ TakeEvent \/ CountTaken \/ InvokeConsumer
           \/ PoisonEnds \/ RequeueGoesOn \/ RequeueReturns
  BY <1>5 DEF LoopEnds, TakeEvent, CountTaken, InvokeConsumer, PoisonEnds, RequeueGoesOn,
              RequeueReturns, busVars, OutcomeStep
<1>6. CASE SkipUnregistered \/ SkipNoConsumer \/ HandlerReturns \/ RequeueThrows
  <2>1. current \in Events /\ outcome[current] = "none"
    BY <1>0, <1>6
       DEF SkipUnregistered, SkipNoConsumer, HandlerReturns, HandlerRuns, RequeueThrows
  <2>2. PICK result \in {"unregistered", "skipped", "handled", "retryLost"} : Settle(result)
    BY <1>6 DEF SkipUnregistered, SkipNoConsumer, HandlerReturns, RequeueThrows
  <2>3. UNCHANGED <<failures, retryCount>>
    BY <1>6, <2>2
       DEF SkipUnregistered, SkipNoConsumer, HandlerReturns, RequeueThrows, Settle
  <2> QED  BY <2>1, <2>2, <2>3 DEF Settle, OutcomeStep, EndsOnly
<1>7. CASE HandlerCancels \/ HandlerThrows
  <2>1. current \in Events /\ outcome[current] = "none"
    BY <1>0, <1>7 DEF HandlerCancels, HandlerThrows, RetryFailed, PoisonFailed, HandlerRuns
  <2>2. CASE HandlerCancels
    BY <2>1, <2>2 DEF HandlerCancels, Settle, OutcomeStep, EndsOnly
  <2>3. CASE RetryFailed
    BY <2>1, <2>3 DEF RetryFailed, OutcomeStep
  <2>4. CASE PoisonFailed
    BY <2>1, <2>4 DEF PoisonFailed, OutcomeStep, EndsOnly
  <2> QED  BY <1>7, <2>2, <2>3, <2>4 DEF HandlerThrows
<1> QED  BY <1>1, <1>2, <1>3, <1>4, <1>5, <1>6, <1>7 DEF Next, LoopStep

\* An event that has ended, a rejected publish included, is never delivered,
\* retried or ended again (ExecuteAsync, HandleConsumeFailureAsync).
THEOREM SettledIsFinalAlways == Spec => SettledIsFinal
<1>1. BothLayers /\ [Next]_vars
         => [\A e \in Events : outcome[e] # "none" =>
                outcome'[e] = outcome[e] /\ failures'[e] = failures[e]]_vars
  <2> SUFFICES ASSUME BothLayers, [Next]_vars, NEW e \in Events, outcome[e] # "none"
               PROVE  outcome'[e] = outcome[e] /\ failures'[e] = failures[e]
    OBVIOUS
  <2>1. OutcomeStep
    BY EveryStepIsOutcomeStep
  <2>2. outcome \in [Events -> Outcomes] /\ failures \in [Events -> Nat]
    BY UnfinishedEvents
  <2> QED  BY <2>1, <2>2 DEF OutcomeStep, EndsOnly
<1> QED  BY <1>1, BothLayersAlways, PTL DEF Spec, SettledIsFinal

-----------------------------------------------------------------------------
(* The retry budget *)

\* At the start nothing has failed and no header counts a retry.
LEMMA BudgetInitially == Init => FailuresRaiseRetryCount
BY BusAssumption DEF Init, FailuresRaiseRetryCount

\* Each failure either raises the header, or ends the event; and no event is put
\* back whose header stands at the limit.
LEMMA BudgetInductive ==
    BothLayers /\ FailuresRaiseRetryCount /\ [Next]_vars => FailuresRaiseRetryCount'
<1> SUFFICES ASSUME BothLayers, FailuresRaiseRetryCount, OutcomeStep
             PROVE  FailuresRaiseRetryCount'
  BY EveryStepIsOutcomeStep
<1>0. /\ outcome \in [Events -> Outcomes] /\ failures \in [Events -> Nat]
      /\ retryCount \in [HeaderObjs -> 0 .. MaxRetry]
      /\ HeadersOf \in [Events -> HeaderObjs] /\ MaxRetry \in Nat
  BY UnfinishedEvents, BusAssumption
<1>1. CASE UNCHANGED <<outcome, failures, retryCount>>
  BY <1>1 DEF FailuresRaiseRetryCount
<1>2. ASSUME NEW e \in Events,
             NEW result \in {"rejected", "unregistered", "skipped", "handled", "retryLost"},
             EndsOnly(e, result), UNCHANGED <<failures, retryCount>>
      PROVE  FailuresRaiseRetryCount'
  BY <1>0, <1>2 DEF FailuresRaiseRetryCount, EndsOnly
<1>3. ASSUME NEW e \in Events, NEW result \in {"cancelled", "poisoned"},
             EndsOnly(e, result), result = "poisoned" => ~RetriesLeft(e),
             failures' = [failures EXCEPT ![e] = @ + 1], UNCHANGED retryCount
      PROVE  FailuresRaiseRetryCount'
  <2>1. ~RetriesLeft(e) => retryCount[HeadersOf[e]] = MaxRetry
    BY <1>0 DEF RetriesLeft
  <2> QED  BY <1>0, <1>3, <2>1 DEF FailuresRaiseRetryCount, EndsOnly
<1>4. ASSUME NEW e \in Events, outcome[e] = "none", RetriesLeft(e),
             failures' = [failures EXCEPT ![e] = @ + 1],
             RaiseRetryCount(e), UNCHANGED outcome
      PROVE  FailuresRaiseRetryCount'
  <2> SUFFICES ASSUME NEW f \in Events
               PROVE  LET last == IF outcome[f] \in {"poisoned", "cancelled"} THEN 1 ELSE 0
                      IN  /\ failures'[f] <= retryCount'[HeadersOf[f]] + last
                          /\ OwnHeaders(f) => failures'[f] = retryCount'[HeadersOf[f]] + last
                          /\ outcome[f] = "poisoned" => retryCount'[HeadersOf[f]] = MaxRetry
    BY <1>4 DEF FailuresRaiseRetryCount, OwnHeaders
  <2>1. CASE f = e
    BY <1>0, <1>4, <2>1 DEF FailuresRaiseRetryCount, RaiseRetryCount
  <2>2. CASE f # e /\ HeadersOf[f] = HeadersOf[e]
    <3>1. ~OwnHeaders(f) /\ outcome[f] # "poisoned"
      BY <1>0, <1>4, <2>2 DEF OwnHeaders, FailuresRaiseRetryCount, RetriesLeft
    <3> QED  BY <1>0, <1>4, <2>2, <3>1 DEF FailuresRaiseRetryCount, RaiseRetryCount
  <2>3. CASE HeadersOf[f] # HeadersOf[e]
    BY <1>0, <1>4, <2>3 DEF FailuresRaiseRetryCount, RaiseRetryCount
  <2> QED  BY <2>1, <2>2, <2>3
<1> QED  BY <1>1, <1>2, <1>3, <1>4 DEF OutcomeStep

\* An event fails at most MaxRetry + 1 times, is poisoned only with its header at the
\* limit, and with Headers of its own after exactly that many failures
\* (HandleConsumeFailureAsync).
THEOREM RetryBudgetAlways == Spec => []RetryBudget
<1>1. Spec => []FailuresRaiseRetryCount
  BY BudgetInitially, BudgetInductive, BothLayersAlways, PTL DEF Spec
<1>2. BothLayers /\ FailuresRaiseRetryCount => RetryBudget
  <2> SUFFICES ASSUME BothLayers, FailuresRaiseRetryCount, NEW e \in Events
               PROVE  /\ failures[e] <= MaxRetry + 1
                      /\ outcome[e] = "poisoned" =>
                            /\ retryCount[HeadersOf[e]] = MaxRetry
                            /\ OwnHeaders(e) => failures[e] = MaxRetry + 1
    BY DEF RetryBudget
  <2>1. /\ failures[e] \in Nat /\ MaxRetry \in Nat
        /\ retryCount[HeadersOf[e]] \in 0 .. MaxRetry
    BY UnfinishedEvents, BusAssumption
  <2> QED  BY <2>1 DEF FailuresRaiseRetryCount
<1> QED  BY <1>1, <1>2, BothLayersAlways, PTL

-----------------------------------------------------------------------------
(* The wedge *)

\* A retry that waits for room in the channel that only the loop drains waits until
\* the host stops: no publisher, no cancellation and no callback ends it
\* (HandleConsumeFailureAsync, BackgroundQueue.EnqueueAsync).
THEOREM WedgeIsPermanentAlways == Spec => WedgeIsPermanent
<1>1. BothLayers /\ [Next]_vars => [RetryWedged /\ ~stopping => RetryWedged']_vars
  <2> SUFFICES ASSUME BothLayers, [Next]_vars, call[Subscriber] = "blocked", ~stopping
               PROVE  call'[Subscriber] = "blocked"
    BY DEF RetryWedged
  <2>1. /\ pc = "requeueing" /\ Subscriber \in Callers
        /\ \A e \in Events : e \in Callers /\ e # Subscriber
        /\ call \in [Callers -> CallStates]
    BY UnfinishedEvents
  <2>2. CASE UNCHANGED vars
    BY <2>2 DEF vars
  <2>3. ASSUME NEW e \in Events,
               Publish(e) \/ HandlerPublishes(e) \/ PublishGoesOn(e) \/ PublishThrows(e)
        PROVE  call'[Subscriber] = call[Subscriber]
    BY <2>1, <2>3 DEF Publish, HandlerPublishes, PublishGoesOn, PublishThrows, BeginEnqueue,
                      AlertReturns, AlertThrows, WriteCompletes, WriteBlocks, WriteCancelled
  <2>4. CASE SubscribeAsync \/ AttachConsumer \/ Stop
    BY <2>4 DEF SubscribeAsync, AttachConsumer, Stop, queueVars
  <2>5. ~LoopStep
    BY <2>1 DEF LoopStep, LoopEnds, TakeEvent, CountTaken, SkipUnregistered, SkipNoConsumer,
                InvokeConsumer, HandlerReturns, HandlerCancels, HandlerThrows, RetryFailed,
                PoisonFailed, HandlerRuns, PoisonEnds, RequeueGoesOn, AlertReturns, AlertThrows,
                WriteCompletes, WriteBlocks, RequeueReturns, RequeueThrows
  <2> QED  BY <2>2, <2>3, <2>4, <2>5 DEF Next
<1> QED  BY <1>1, BothLayersAlways, PTL DEF Spec, WedgeIsPermanent

-----------------------------------------------------------------------------
(* The line is a bounded queue *)

\* Every step of the transport does one of four things to the line: nothing, an event
\* that is not in it joins it, its head leaves, or one that has not been admitted leaves.
LineStep ==
    \/ Backlog' = Backlog
    \/ \E e \in Events :
          /\ \A k \in DOMAIN Backlog : Backlog[k] # e
          /\ Backlog' = Append(Backlog, e)
    \/ Backlog # <<>> /\ Backlog' = Tail(Backlog)
    \/ \E k \in DOMAIN Backlog : k > Capacity /\ Backlog' = RemoveAt(Backlog, k)

\* One step inside an EnqueueAsync, whoever has called it; what a write adds is not in
\* the line yet.
LEMMA CallStepsLine ==
    ASSUME QueueInv, NEW c \in Callers,
           \/ AlertReturns(c) \/ AlertThrows(c) \/ WriteCancelled(c)
           \/ /\ WriteCompletes(c) \/ WriteBlocks(c)
              /\ \A k \in DOMAIN Backlog : Backlog[k] # payload[c]
    PROVE  LineStep
<1>1. CASE AlertReturns(c) \/ AlertThrows(c)
  BY <1>1, AlertStep DEF LineStep
<1>2. CASE WriteCancelled(c)
  BY <1>2, WriteCancelledStep DEF LineStep
<1>3. CASE /\ WriteCompletes(c) \/ WriteBlocks(c)
           /\ \A k \in DOMAIN Backlog : Backlog[k] # payload[c]
  <2>1. payload[c] \in Events /\ Backlog' = Append(Backlog, payload[c])
    BY <1>3, WriteCompletesStep, WriteBlocksStep
  <2> QED  BY <1>3, <2>1 DEF LineStep
<1> QED  BY <1>1, <1>2, <1>3

\* An event that is being written, by its publisher or by the loop that holds it, is not
\* in the line.
LEMMA WrittenIsNotInLine ==
    ASSUME BothLayers, NEW c \in Callers, call[c] = "writing"
    PROVE  \A k \in DOMAIN Backlog : Backlog[k] # payload[c]
<1>1. /\ EventInOnePlace /\ CallsCarryTheirEvent /\ LoopHoldsEvent
      /\ Callers = Events \cup {Subscriber}
  BY BusAssumption DEF BothLayers, ControlInv, LineInv
<1>2. /\ call[Subscriber] # "idle" => pc = "requeueing"
      /\ pc \notin {"reading", "stopped"} => current # NoEvent
      /\ current # NoEvent => current \in Events
  BY UnfinishedEvents
<1>3. CASE c \in Events
  <2>1. payload[c] = c
    BY <1>1, <1>3 DEF CallsCarryTheirEvent
  <2> QED  BY <1>1, <1>3, <2>1 DEF EventInOnePlace
<1>4. CASE c = Subscriber
  <2>1. payload[c] = current /\ current \in Events /\ pc = "requeueing"
    BY <1>1, <1>2, <1>4 DEF CallsCarryTheirEvent
  <2>2. Held(current)
    BY <1>4, <2>1 DEF Held
  <2> QED  BY <1>1, <2>1, <2>2 DEF EventInOnePlace
<1> QED  BY <1>1, <1>3, <1>4

\* So every step of the transport is one of the line.
LEMMA EveryStepIsLineStep == BothLayers /\ [Next]_vars => LineStep
<1> SUFFICES ASSUME BothLayers, [Next]_vars PROVE LineStep
  OBVIOUS
<1>0. /\ QueueInv /\ Subscriber \in Callers
      /\ \A e \in Events : e \in Callers
      /\ current # NoEvent => current \in Events
      /\ pc \notin {"reading", "stopped"} => current # NoEvent
  BY UnfinishedEvents
<1>1. CASE UNCHANGED <<channel, blockedWriters, payload>>
  BY <1>1 DEF Backlog, LineStep
<1>2. CASE UNCHANGED queueVars
  BY <1>1, <1>2 DEF queueVars
<1>3. ASSUME NEW e \in Events, Publish(e) \/ HandlerPublishes(e)
      PROVE  LineStep
  BY <1>0, <1>3, BeginEnqueueStep DEF Publish, HandlerPublishes, LineStep
<1>4. ASSUME NEW c \in Callers,
             \/ AlertReturns(c) \/ AlertThrows(c) \/ WriteCancelled(c)
             \/ WriteCompletes(c) \/ WriteBlocks(c)
      PROVE  LineStep
  <2>1. WriteCompletes(c) \/ WriteBlocks(c) => call[c] = "writing"
    BY DEF WriteCompletes, WriteBlocks
  <2> QED  BY <1>0, <1>4, <2>1, WrittenIsNotInLine, CallStepsLine
<1>5. ASSUME NEW e \in Events, PublishGoesOn(e) \/ PublishThrows(e)
      PROVE  LineStep
  BY <1>0, <1>4, <1>5 DEF PublishGoesOn, PublishThrows
<1>6. CASE SubscribeAsync \/ AttachConsumer \/ Stop
  BY <1>2, <1>6 DEF SubscribeAsync, AttachConsumer, Stop
<1>7. CASE LoopStep
  <2>1. CASE TakeEvent
    BY <1>0, <2>1, ReadStep DEF TakeEvent, LineStep
  <2>2. CASE CountTaken
    BY <1>1, <2>2 DEF CountTaken, CountDown
  <2>3. CASE \/ LoopEnds \/ SkipUnregistered \/ SkipNoConsumer \/ InvokeConsumer
             \/ HandlerReturns \/ HandlerCancels \/ PoisonFailed \/ PoisonEnds
    BY <1>2, <2>3 DEF LoopEnds, SkipUnregistered, SkipNoConsumer, InvokeConsumer,
                      HandlerReturns, HandlerCancels, PoisonFailed, PoisonEnds
  <2>4. CASE RetryFailed
    <3>1. current \in Events /\ BeginEnqueue(Subscriber, current)
      BY <1>0, <2>4 DEF RetryFailed, HandlerRuns
    <3> QED  BY <1>0, <3>1, BeginEnqueueStep DEF LineStep
  <2>5. CASE RequeueGoesOn
    BY <1>0, <1>4, <2>5 DEF RequeueGoesOn
  <2>6. CASE RequeueReturns \/ RequeueThrows
    BY <1>0, <2>6, EndEnqueueStep DEF RequeueReturns, RequeueThrows, LineStep
  <2> QED  BY <1>7, <2>1, <2>2, <2>3, <2>4, <2>5, <2>6 DEF LoopStep, HandlerThrows
<1>8. CASE UNCHANGED vars
  BY <1>1, <1>8 DEF vars
<1> QED  BY <1>3, <1>5, <1>6, <1>7, <1>8 DEF Next

\* The channel of BackgroundQueue with the writers that wait for it implements the
\* abstract bounded queue: served from the head only, joined at the end only, left
\* otherwise only by those who have not been admitted.
THEOREM ImplementsFifoAlways == Spec => ImplementsFifo
<1>1. Init => Fifo!Init
  BY QueueInitially DEF Init, Fifo!Init
<1>2. BothLayers /\ [Next]_vars => [Fifo!Next]_Backlog
  <2> SUFFICES ASSUME LineStep PROVE [Fifo!Next]_Backlog
    BY EveryStepIsLineStep
  <2>1. ASSUME NEW k \in DOMAIN Backlog, k > Capacity, Backlog' = RemoveAt(Backlog, k)
        PROVE  Fifo!Withdraw(k)
    BY <2>1 DEF Fifo!Withdraw, RemoveAt, Fifo!RemoveAt
  <2> QED  BY <2>1 DEF LineStep, Fifo!Next, Fifo!Join, Fifo!Serve
<1> QED  BY <1>1, <1>2, BothLayersAlways, PTL DEF Spec, ImplementsFifo, Fifo!Spec

-----------------------------------------------------------------------------
(* The life of an event *)

\* Only an event of a subscribed name that was accepted has failed, and only once
\* the bus was ready; the one that is put back has.
FailedInService ==
    /\ \A e \in Events : failures[e] > 0 => boot = "ready" /\ e \in Subscribed /\ call[e] = "written"
    /\ pc = "handling" => boot = "ready" /\ current \in Subscribed
    /\ pc = "requeueing" => failures[current] > 0

\* A host that has just started.
LEMMA FailedInServiceInitially == Init => FailedInService
BY DEF Init, FailedInService

\* No EnqueueAsync takes back that an event was written.
LEMMA WrittenStaysWritten ==
    ASSUME BothLayers, [Next]_vars, NEW e \in Events, call[e] = "written"
    PROVE  call'[e] = "written"
<1>0. /\ e \in Callers /\ e # Subscriber
      /\ call \in [Callers -> CallStates]
  BY UnfinishedEvents
<1>1. ASSUME NEW c \in Callers,
             \/ \E f \in Events : BeginEnqueue(c, f)
             \/ AlertReturns(c) \/ AlertThrows(c)
             \/ WriteCompletes(c) \/ WriteBlocks(c) \/ WriteCancelled(c)
             \/ c = Subscriber /\ EndEnqueue(c)
      PROVE  call'[e] = "written"
  <2>1. \/ call' = call
        \/ \E s \in CallStates : c # e /\ call' = [call EXCEPT ![c] = s]
        \/ call' = [call EXCEPT ![c] = "written"]
    <3>1. CASE \E f \in Events : BeginEnqueue(c, f)
      BY <1>0, <3>1 DEF BeginEnqueue, CallStates, Active
    <3>2. CASE AlertReturns(c) \/ AlertThrows(c) \/ WriteCompletes(c) \/ WriteBlocks(c)
      BY <1>0, <3>2 DEF AlertReturns, AlertThrows, WriteCompletes, WriteBlocks, CallStates, Active
    <3>3. CASE WriteCancelled(c)
      <4>1. call[c] \in Active /\ call' = [call EXCEPT ![c] = "threw"]
        BY <3>3, ThrowsFromActive
      <4> QED  BY <4>1 DEF CallStates, Active
    <3>4. CASE c = Subscriber /\ EndEnqueue(c)
      BY <1>0, <3>4 DEF EndEnqueue, CallStates
    <3> QED  BY <1>1, <3>1, <3>2, <3>3, <3>4
  <2> QED  BY <1>0, <2>1
<1>2. CASE UNCHANGED call
  BY <1>2
<1>3. ASSUME NEW f \in Events, Publish(f) \/ HandlerPublishes(f) \/ PublishGoesOn(f) \/ PublishThrows(f)
      PROVE  call'[e] = "written"
  <2>1. f \in Callers
    BY UnfinishedEvents
  <2> QED  BY <1>1, <1>3, <2>1 DEF Publish, HandlerPublishes, PublishGoesOn, PublishThrows
<1>4. CASE SubscribeAsync \/ AttachConsumer \/ Stop \/ UNCHANGED vars
  BY <1>2, <1>4 DEF SubscribeAsync, AttachConsumer, Stop, queueVars, vars
<1>5. CASE LoopStep
  <2>1. CASE TakeEvent
    BY <1>0, <2>1 DEF TakeEvent, Read
  <2>2. CASE \/ LoopEnds \/ CountTaken \/ SkipUnregistered \/ SkipNoConsumer \/ InvokeConsumer
             \/ HandlerReturns \/ HandlerCancels \/ PoisonFailed \/ PoisonEnds
    BY <1>2, <2>2 DEF LoopEnds, CountTaken, CountDown, SkipUnregistered, SkipNoConsumer,
         InvokeConsumer, HandlerReturns, HandlerCancels, PoisonFailed, PoisonEnds, queueVars
  <2>3. CASE RetryFailed
    <3>1. current \in Events
      BY <2>3, UnfinishedEvents DEF RetryFailed, HandlerRuns
    <3> QED  BY <1>1, <2>3, <3>1, UnfinishedEvents DEF RetryFailed
  <2>4. CASE RequeueGoesOn \/ RequeueReturns \/ RequeueThrows
    BY <1>1, <2>4, UnfinishedEvents DEF RequeueGoesOn, RequeueReturns, RequeueThrows
  <2> QED  BY <1>5, <2>1, <2>2, <2>3, <2>4 DEF LoopStep, HandlerThrows
<1> QED  BY <1>3, <1>4, <1>5 DEF Next

\* The consumer runs only handlers of a subscribed name, once it is attached.
LEMMA FailedInServiceInductive ==
    BothLayers /\ FailedInService /\ [Next]_vars => FailedInService'
<1> SUFFICES ASSUME BothLayers, FailedInService, [Next]_vars PROVE FailedInService'
  OBVIOUS
<1>0. /\ failures \in [Events -> Nat]
      /\ current # NoEvent => current \in Events
      /\ pc \notin {"reading", "stopped"} => current # NoEvent
      /\ \A e \in Events : call[e] = "written" => call'[e] = "written"
  BY UnfinishedEvents, WrittenStaysWritten
<1>1. boot = "ready" => boot' = "ready"
  BY DEF Next, vars, Publish, HandlerPublishes, PublishGoesOn, PublishThrows, busVars,
         SubscribeAsync, AttachConsumer, Stop, LoopStep, LoopEnds, TakeEvent, CountTaken,
         SkipUnregistered, SkipNoConsumer, InvokeConsumer, HandlerReturns, HandlerCancels,
         HandlerThrows, RetryFailed, PoisonFailed, PoisonEnds, RequeueGoesOn, RequeueReturns,
         RequeueThrows, Settle
<1>2. CASE /\ UNCHANGED failures
           /\ UNCHANGED <<pc, current>> \/ pc' \notin {"handling", "requeueing"}
  BY <1>0, <1>1, <1>2 DEF FailedInService
<1>3. CASE InvokeConsumer
  BY <1>0, <1>1, <1>3 DEF InvokeConsumer, FailedInService
<1>4. CASE HandlerCancels \/ RetryFailed \/ PoisonFailed
  <2>1. /\ pc = "handling" /\ current \in Events /\ boot = "ready" /\ current \in Subscribed
        /\ call[current] = "written"
        /\ failures' = [failures EXCEPT ![current] = @ + 1]
    BY <1>0, <1>4 DEF HandlerCancels, RetryFailed, PoisonFailed, HandlerRuns, FailedInService,
                      BothLayers, LineInv, LoopHoldsEvent
  <2>2. \/ pc' \notin {"handling", "requeueing"}
        \/ pc' = "requeueing" /\ UNCHANGED current
    BY <1>4 DEF HandlerCancels, RetryFailed, PoisonFailed, Settle
  <2> QED  BY <1>0, <1>1, <2>1, <2>2 DEF FailedInService
<1>5. ASSUME NEW e \in Events, Publish(e) \/ HandlerPublishes(e) \/ PublishGoesOn(e) \/ PublishThrows(e)
      PROVE  FailedInService'
  BY <1>2, <1>5 DEF Publish, HandlerPublishes, PublishGoesOn, PublishThrows, busVars
<1>6. CASE SubscribeAsync \/ AttachConsumer \/ Stop \/ UNCHANGED vars
  BY <1>2, <1>6 DEF SubscribeAsync, AttachConsumer, Stop, vars
<1>7. CASE \/ LoopEnds \/ TakeEvent \/ CountTaken \/ SkipUnregistered \/ SkipNoConsumer
           \/ HandlerReturns \/ PoisonEnds \/ RequeueGoesOn \/ RequeueReturns \/ RequeueThrows
  BY <1>2, <1>7 DEF LoopEnds, TakeEvent, CountTaken, SkipUnregistered, SkipNoConsumer,
       HandlerReturns, PoisonEnds, RequeueGoesOn, RequeueReturns, RequeueThrows, Settle, busVars
<1> QED  BY <1>3, <1>4, <1>5, <1>6, <1>7 DEF Next, LoopStep, HandlerThrows

\* A publisher's exception, and a loop that has nobody to give the event to, end it
\* before it was ever tried; a retry is lost after a try.
LEMMA EndsInItsTime ==
    ASSUME BothLayers, FailedInService, [Next]_vars, NEW e \in Events, outcome[e] = "none"
    PROVE  /\ outcome'[e] \in {"rejected", "unregistered", "skipped"} => failures[e] = 0
           /\ outcome'[e] = "retryLost" => failures[e] > 0
<1>0. /\ failures[e] \in Nat
      /\ outcome \in [Events -> Outcomes]
      /\ current # NoEvent => current \in Events
      /\ call[Subscriber] # "idle" => pc = "requeueing"
      /\ \A f \in Events : f \in Callers
  BY UnfinishedEvents
<1>1. CASE outcome' = outcome
  BY <1>1
<1>2. ASSUME NEW f \in Events, PublishThrows(f)
      PROVE  /\ outcome'[e] \in {"rejected", "unregistered", "skipped"} => failures[e] = 0
             /\ outcome'[e] = "retryLost" => failures[e] > 0
  <2>1. call[f] # "written"
    BY <1>0, <1>2, ThrowsFromActive DEF PublishThrows, Active
  <2>2. ~(failures[f] > 0)
    BY <2>1 DEF FailedInService
  <2>3. outcome' = [outcome EXCEPT ![f] = "rejected"]
    BY <1>2 DEF PublishThrows
  <2> QED  BY <1>0, <2>2, <2>3
<1>3. CASE SkipUnregistered \/ SkipNoConsumer
  <2>1. PICK result \in {"unregistered", "skipped"} : outcome' = [outcome EXCEPT ![current] = result]
    BY <1>3 DEF SkipUnregistered, SkipNoConsumer, Settle
  <2>2. boot # "ready" \/ current \notin Subscribed
    BY <1>3 DEF SkipUnregistered, SkipNoConsumer
  <2>3. e = current => ~(failures[e] > 0)
    BY <2>2 DEF FailedInService
  <2> QED  BY <1>0, <2>1, <2>3
<1>4. CASE RequeueThrows
  <2>1. outcome' = [outcome EXCEPT ![current] = "retryLost"] /\ pc = "requeueing"
    BY <1>0, <1>4 DEF RequeueThrows, Settle
  <2> QED  BY <1>0, <2>1 DEF FailedInService
<1>5. CASE HandlerReturns \/ HandlerCancels \/ PoisonFailed
  <2>1. PICK result \in {"handled", "cancelled", "poisoned"} : outcome' = [outcome EXCEPT ![current] = result]
    BY <1>5 DEF HandlerReturns, HandlerCancels, PoisonFailed, Settle
  <2> QED  BY <1>0, <2>1
<1>6. ASSUME NEW f \in Events, Publish(f) \/ HandlerPublishes(f) \/ PublishGoesOn(f)
      PROVE  outcome' = outcome
  BY <1>6 DEF Publish, HandlerPublishes, PublishGoesOn, busVars
<1>7. CASE SubscribeAsync \/ AttachConsumer \/ Stop \/ UNCHANGED vars
  BY <1>1, <1>7 DEF SubscribeAsync, AttachConsumer, Stop, vars
<1>8. CASE \/ LoopEnds \/ TakeEvent \/ CountTaken \/ InvokeConsumer \/ RetryFailed
           \/ PoisonEnds \/ RequeueGoesOn \/ RequeueReturns
  BY <1>1, <1>8 DEF LoopEnds, TakeEvent, CountTaken, InvokeConsumer, RetryFailed, PoisonEnds,
                    RequeueGoesOn, RequeueReturns, busVars
<1> QED  BY <1>1, <1>2, <1>3, <1>4, <1>5, <1>6, <1>7, <1>8 DEF Next, LoopStep, HandlerThrows

\* What the abstract steps need to know of one event.
LEMMA BudgetOfOne ==
    ASSUME BothLayers, FailuresRaiseRetryCount, NEW e \in Events, outcome[e] = "none"
    PROVE  /\ failures[e] \in Nat /\ MaxRetry \in Nat
           /\ failures[e] <= MaxRetry
           /\ RetriesLeft(e) => failures[e] < MaxRetry
           /\ ~RetriesLeft(e) /\ OwnHeaders(e) => failures[e] = MaxRetry
<1>1. /\ failures[e] \in Nat /\ MaxRetry \in Nat
      /\ retryCount[HeadersOf[e]] \in 0 .. MaxRetry
  BY UnfinishedEvents, BusAssumption
<1> QED  BY <1>1 DEF FailuresRaiseRetryCount, RetriesLeft

\* Every step of the transport is one in the life of one event, or of none.
LEMMA EveryStepIsLifeStep ==
    BothLayers /\ FailuresRaiseRetryCount /\ FailedInService /\ [Next]_vars
       => [Life!Next]_<<failures, [e \in Events |-> FateOf(outcome[e])]>>
<1> SUFFICES ASSUME BothLayers, FailuresRaiseRetryCount, FailedInService, [Next]_vars
             PROVE  [Life!Next]_<<failures, [e \in Events |-> FateOf(outcome[e])]>>
  OBVIOUS
<1> DEFINE fate == [e \in Events |-> FateOf(outcome[e])]
<1>0. outcome \in [Events -> Outcomes] /\ failures \in [Events -> Nat]
  BY UnfinishedEvents
<1>1. ASSUME NEW e \in Events, NEW result \in Outcomes, EndsOnly(e, result)
      PROVE  /\ fate[e] = "open"
             /\ fate' = [fate EXCEPT ![e] = FateOf(result)]
             /\ outcome'[e] = result
             /\ outcome[e] = "none"
  BY <1>0, <1>1 DEF EndsOnly, FateOf
<1>2. CASE UNCHANGED <<outcome, failures, retryCount>>
  BY <1>2
<1>3. ASSUME NEW e \in Events,
             NEW result \in {"rejected", "unregistered", "skipped", "handled", "retryLost"},
             EndsOnly(e, result), UNCHANGED <<failures, retryCount>>
      PROVE  Life!Next
  <2>1. /\ fate[e] = "open" /\ fate' = [fate EXCEPT ![e] = FateOf(result)]
        /\ outcome'[e] = result /\ outcome[e] = "none"
    BY <1>1, <1>3 DEF Outcomes
  <2>2. /\ result \in {"rejected", "unregistered", "skipped"} => failures[e] = 0
        /\ result = "retryLost" => failures[e] > 0
    BY <2>1, EndsInItsTime
  <2>3. CASE result \in {"rejected", "unregistered", "skipped"}
    <3>1. FateOf(result) = "refused"
      BY <2>3 DEF FateOf
    <3>2. Life!Refuse(e)
      BY <1>3, <2>1, <2>2, <2>3, <3>1 DEF Life!Refuse
    <3> QED  BY <3>2 DEF Life!Next
  <2>4. CASE result = "handled"
    <3>1. FateOf(result) = "handled"
      BY <2>4 DEF FateOf
    <3>2. Life!Handle(e)
      BY <1>3, <2>1, <2>4, <3>1 DEF Life!Handle
    <3> QED  BY <3>2 DEF Life!Next
  <2>5. CASE result = "retryLost"
    <3>1. FateOf(result) = "lost"
      BY <2>5 DEF FateOf
    <3>2. Life!LoseRetry(e)
      BY <1>3, <2>1, <2>2, <2>5, <3>1 DEF Life!LoseRetry
    <3> QED  BY <3>2 DEF Life!Next
  <2> QED  BY <1>3, <2>3, <2>4, <2>5
<1>4. ASSUME NEW e \in Events, NEW result \in {"cancelled", "poisoned"}, EndsOnly(e, result),
             result = "poisoned" => ~RetriesLeft(e),
             failures' = [failures EXCEPT ![e] = @ + 1]
      PROVE  Life!Next
  <2>1. /\ fate[e] = "open" /\ fate' = [fate EXCEPT ![e] = FateOf(result)]
        /\ outcome[e] = "none"
    BY <1>1, <1>4 DEF Outcomes
  <2>2. FateOf(result) = result
    BY <1>4 DEF FateOf
  <2>3. /\ failures[e] <= MaxRetry
        /\ result = "poisoned" /\ OwnHeaders(e) => failures[e] = MaxRetry
    BY <1>4, <2>1, BudgetOfOne
  <2>4. Life!GiveUp(e)
    BY <1>4, <2>1, <2>2, <2>3 DEF Life!GiveUp
  <2> QED  BY <2>4 DEF Life!Next
<1>5. ASSUME NEW e \in Events, outcome[e] = "none", RetriesLeft(e),
             failures' = [failures EXCEPT ![e] = @ + 1], UNCHANGED outcome
      PROVE  Life!Next
  <2>1. failures[e] < MaxRetry /\ fate[e] = "open"
    BY <1>5, BudgetOfOne DEF FateOf
  <2>2. Life!Retry(e)
    BY <1>5, <2>1 DEF Life!Retry
  <2> QED  BY <2>2 DEF Life!Next
<1>6. OutcomeStep
  BY EveryStepIsOutcomeStep
<1> QED  BY <1>2, <1>3, <1>4, <1>5, <1>6 DEF OutcomeStep

\* Each event the in-memory transport carries is refused before any try, or tried,
\* retried within its budget and ended once (ExecuteAsync, HandleConsumeFailureAsync).
THEOREM ImplementsEventLifeAlways == Spec => ImplementsEventLife
<1>1. Init => Life!Init
  BY DEF Init, Life!Init, FateOf
<1>2. Spec => []FailuresRaiseRetryCount
  BY BudgetInitially, BudgetInductive, BothLayersAlways, PTL DEF Spec
<1>3. Spec => []FailedInService
  BY FailedInServiceInitially, FailedInServiceInductive, BothLayersAlways, PTL DEF Spec
<1> QED  BY <1>1, <1>2, <1>3, EveryStepIsLifeStep, BothLayersAlways, PTL
         DEF Spec, ImplementsEventLife, Life!Spec
-----------------------------------------------------------------------------
(* The counter beside the queue *)

\* What PendingAccounting equates _pendingCount with.
Counted ==
    Len(channel) + (IF pc = "counting" THEN 1 ELSE 0) + Cardinality(Unwritten) + Cardinality(Lost)

\* The sets that are counted are finite, since the callers are.
LEMMA CountsAreFinite ==
    ASSUME BothLayers
    PROVE  /\ IsFiniteSet(Unwritten) /\ Cardinality(Unwritten) \in Nat
           /\ IsFiniteSet(Lost) /\ Cardinality(Lost) \in Nat
           /\ channel \in Seq(Events) /\ Len(channel) \in Nat
           /\ pendingCount \in Int
<1>1. Unwritten \in SUBSET Callers /\ Lost \in SUBSET Events
  BY DEF Unwritten, Lost
<1>2. IsFiniteSet(Unwritten) /\ IsFiniteSet(Lost)
  BY <1>1, QueueAssumption, FS_Subset
<1>3. channel \in Seq(Events) /\ Len(channel) \in Nat /\ pendingCount \in Int
  BY DEF BothLayers, ControlInv, TypeOK, QueueTypeOK
<1> QED  BY <1>2, <1>3, FS_CardinalityType

\* The same after a step.
CountsAreNumbers == Len(channel) \in Nat /\ Cardinality(Unwritten) \in Nat

LEMMA CountsStayNumbers == BothLayers /\ [Next]_vars => CountsAreNumbers'
<1>1. BothLayers => CountsAreNumbers
  BY CountsAreFinite DEF CountsAreNumbers
<1>2. BothLayers /\ [Next]_vars => BothLayers'
  BY ControlInductive, LineInductive DEF BothLayers
<1> QED  BY <1>1, <1>2, PTL

\* A call is counted from its increment to its write, and when it threw.
CallWeight(state) == IF state \in Active \cup {"threw"} THEN 1 ELSE 0
CallMoves(c, state) == state \in CallStates /\ call' = [call EXCEPT ![c] = state]

\* A call that moves on changes the count by the difference.
LEMMA CallMovesOn ==
    ASSUME BothLayers, NEW c \in Callers, NEW state, CallMoves(c, state)
    PROVE  Cardinality(Unwritten)' = Cardinality(Unwritten) + CallWeight(state) - CallWeight(call[c])
<1>0. /\ call \in [Callers -> CallStates]
      /\ IsFiniteSet(Unwritten) /\ Cardinality(Unwritten) \in Nat
      /\ state \in CallStates /\ call' = [call EXCEPT ![c] = state]
  BY UnfinishedEvents, CountsAreFinite DEF CallMoves
<1>1. c \in Unwritten <=> call[c] \in Active \cup {"threw"}
  BY <1>0 DEF Unwritten
<1>2. CASE state \notin Active \cup {"threw"}
  <2>1. Unwritten' = Unwritten \ {c}
    BY <1>0, <1>2 DEF Unwritten
  <2>2. Cardinality(Unwritten \ {c}) = IF c \in Unwritten THEN Cardinality(Unwritten) - 1 ELSE Cardinality(Unwritten)
    BY <1>0, FS_RemoveElement
  <2> QED  BY <1>0, <1>1, <1>2, <2>1, <2>2 DEF CallWeight
<1>3. CASE state \in Active \cup {"threw"}
  <2>1. Unwritten' = Unwritten \cup {c}
    BY <1>0, <1>3 DEF Unwritten
  <2>2. Cardinality(Unwritten \cup {c}) = IF c \in Unwritten THEN Cardinality(Unwritten) ELSE Cardinality(Unwritten) + 1
    BY <1>0, FS_AddElement
  <2> QED  BY <1>0, <1>1, <1>3, <2>1, <2>2 DEF CallWeight
<1> QED  BY <1>2, <1>3

\* What is counted besides lost retries and an item just read.
Enqueued == Len(channel) + Cardinality(Unwritten)

\* The increment counts the call that begins.
LEMMA BeginCountsOne ==
    ASSUME BothLayers, NEW c \in Callers, NEW e \in Events, BeginEnqueue(c, e)
    PROVE  pendingCount' = pendingCount + 1 /\ Enqueued' = Enqueued + 1
<1>0. /\ call \in [Callers -> CallStates]
      /\ Cardinality(Unwritten) \in Nat /\ channel \in Seq(Events) /\ Len(channel) \in Nat
  BY UnfinishedEvents, CountsAreFinite
<1>1. PICK state \in {"alerting", "writing"} : call' = [call EXCEPT ![c] = state]
  BY DEF BeginEnqueue
<1>2. call[c] = "idle" /\ channel' = channel /\ pendingCount' = pendingCount + 1
  BY DEF BeginEnqueue
<1>3. CallMoves(c, state)
  BY <1>1 DEF CallMoves, CallStates, Active
<1>4. CallWeight(state) = 1 /\ CallWeight(call[c]) = 0
  BY <1>2 DEF CallWeight, Active
<1>5. Cardinality(Unwritten)' = Cardinality(Unwritten) + 1
  BY <1>0, <1>3, <1>4, CallMovesOn
<1> QED  BY <1>0, <1>2, <1>5 DEF Enqueued

\* The rest of EnqueueAsync, a throw included, changes neither.
LEMMA EnqueueKeepsCount ==
    ASSUME BothLayers, NEW c \in Callers,
           AlertReturns(c) \/ AlertThrows(c) \/ WriteCompletes(c) \/ WriteBlocks(c) \/ WriteCancelled(c)
    PROVE  pendingCount' = pendingCount /\ Enqueued' = Enqueued
<1>0. /\ call \in [Callers -> CallStates]
      /\ Cardinality(Unwritten) \in Nat /\ channel \in Seq(Events) /\ Len(channel) \in Nat
      /\ QueueInv
  BY UnfinishedEvents, CountsAreFinite
<1>2. CASE AlertReturns(c) \/ AlertThrows(c) \/ WriteBlocks(c) \/ WriteCancelled(c)
  <2>1. call[c] \in Active /\ channel' = channel /\ pendingCount' = pendingCount
    BY <1>2, ThrowsFromActive DEF AlertReturns, AlertThrows, WriteBlocks, WriteCancelled, Active
  <2>2. PICK state \in Active \cup {"threw"} : call' = [call EXCEPT ![c] = state]
    BY <1>2 DEF AlertReturns, AlertThrows, WriteBlocks, WriteCancelled, Active
  <2>3. CallMoves(c, state)
    BY <2>2 DEF CallMoves, CallStates
  <2>4. CallWeight(state) = 1 /\ CallWeight(call[c]) = 1
    BY <2>1, <2>2 DEF CallWeight
  <2>5. Cardinality(Unwritten)' = Cardinality(Unwritten)
    BY <1>0, <2>3, <2>4, CallMovesOn
  <2> QED  BY <1>0, <2>1, <2>5 DEF Enqueued
<1>3. CASE WriteCompletes(c)
  <2>1. /\ call[c] = "writing" /\ call' = [call EXCEPT ![c] = "written"]
        /\ channel' = Append(channel, payload[c]) /\ pendingCount' = pendingCount
    BY <1>3 DEF WriteCompletes
  <2>2. Len(channel') = Len(channel) + 1
    BY <1>0, <1>3, <2>1, WriteCompletesStep
  <2>3. CallMoves(c, "written")
    BY <2>1 DEF CallMoves, CallStates
  <2>4. CallWeight("written") = 0 /\ CallWeight(call[c]) = 1
    BY <2>1 DEF CallWeight, Active
  <2>5. Cardinality(Unwritten)' = Cardinality(Unwritten) - 1
    BY <1>0, <2>3, <2>4, CallMovesOn
  <2> QED  BY <1>0, <2>1, <2>2, <2>5 DEF Enqueued
<1> QED  BY <1>2, <1>3

\* A read takes one item that is counted out of the channel, or out of the hands of
\* the writer whose item takes its place.
LEMMA ReadTakesOne ==
    ASSUME BothLayers, Read
    PROVE  pendingCount' = pendingCount /\ Enqueued' = Enqueued - 1
<1>0. /\ call \in [Callers -> CallStates]
      /\ Cardinality(Unwritten) \in Nat /\ channel \in Seq(Events) /\ Len(channel) \in Nat
      /\ blockedWriters \in Seq(Callers)
      /\ QueueInv /\ channel # <<>> /\ pendingCount' = pendingCount
  BY UnfinishedEvents, CountsAreFinite DEF Read, QueueInv, QueueTypeOK
<1>1. Len(Tail(channel)) = Len(channel) - 1 /\ Tail(channel) \in Seq(Events)
  BY <1>0
<1>2. CASE blockedWriters = <<>>
  <2>1. channel' = Tail(channel) /\ UNCHANGED call
    BY <1>2 DEF Read
  <2>2. Cardinality(Unwritten)' = Cardinality(Unwritten)
    BY <2>1 DEF Unwritten
  <2> QED  BY <1>0, <1>1, <2>1, <2>2 DEF Enqueued
<1>3. CASE blockedWriters # <<>>
  <2> DEFINE first == Head(blockedWriters)
  <2>1. first \in Callers /\ call[first] = "blocked" /\ payload[first] \in Events
    BY <1>0, <1>3, BlockedCarryEvents
  <2>2. channel' = Append(Tail(channel), payload[first]) /\ call' = [call EXCEPT ![first] = "written"]
    BY <1>3 DEF Read
  <2>3. Len(channel') = Len(channel)
    BY <1>0, <1>1, <2>1, <2>2
  <2> HIDE DEF first
  <2>4. CallMoves(first, "written")
    BY <2>2 DEF CallMoves, CallStates
  <2>5. CallWeight("written") = 0 /\ CallWeight(call[first]) = 1
    BY <2>1 DEF CallWeight, Active
  <2>6. Cardinality(Unwritten)' = Cardinality(Unwritten) - 1
    BY <1>0, <2>1, <2>4, <2>5, CallMovesOn
  <2> QED  BY <1>0, <2>3, <2>6 DEF Enqueued
<1> QED  BY <1>2, <1>3

\* An empty queue and no calls: nothing is counted.
LEMMA NothingCountedInitially == Init => PendingAccounting
<1> SUFFICES ASSUME Init PROVE PendingAccounting
  OBVIOUS
<1>1. Unwritten = {} /\ Lost = {}
  BY DEF Init, QueueInit, Unwritten, Lost, Active
<1>2. channel = <<>> /\ pc # "counting" /\ pendingCount = 0
  BY DEF Init, QueueInit
<1> QED  BY <1>1, <1>2, FS_EmptySet DEF PendingAccounting

\* The counter and what it counts go up and down together; only a retry that threw
\* stays counted after its call is over.
LEMMA BalanceInductive ==
    BothLayers /\ PendingAccounting /\ [Next]_vars => PendingAccounting'
<1> SUFFICES ASSUME BothLayers, PendingAccounting, [Next]_vars PROVE PendingAccounting'
  OBVIOUS
<1>0. /\ Cardinality(Unwritten) \in Nat /\ IsFiniteSet(Lost) /\ Cardinality(Lost) \in Nat
      /\ Len(channel) \in Nat /\ pendingCount \in Int
      /\ current # NoEvent => current \in Events /\ (pc # "poisoning" => outcome[current] = "none")
      /\ pc \notin {"reading", "stopped"} => current # NoEvent
      /\ call[Subscriber] # "idle" => pc = "requeueing"
      /\ \A e \in Events : e \in Callers
      /\ Subscriber \in Callers
      /\ outcome \in [Events -> Outcomes]
      /\ call \in [Callers -> CallStates]
      /\ Len(channel') \in Nat /\ Cardinality(Unwritten)' \in Nat
  BY UnfinishedEvents, CountsAreFinite, CountsStayNumbers DEF CountsAreNumbers
<1> USE DEF PendingAccounting
<1>1. ASSUME UNCHANGED queueVars, pc # "counting", pc' # "counting",
             \/ UNCHANGED outcome
             \/ /\ pc \in {"checking", "handling"}
                /\ \E result \in Outcomes \ {"retryLost"} :
                      outcome' = [outcome EXCEPT ![current] = result]
      PROVE  PendingAccounting'
  <2>1. Unwritten' = Unwritten
    BY <1>1 DEF queueVars, Unwritten
  <2>2. Lost' = Lost
    <3>1. CASE UNCHANGED outcome
      BY <3>1 DEF Lost
    <3>2. ASSUME NEW result \in Outcomes \ {"retryLost"}, outcome' = [outcome EXCEPT ![current] = result],
                 current \in Events, outcome[current] = "none"
          PROVE  Lost' = Lost
      BY <1>0, <3>2 DEF Lost
    <3> QED  BY <1>0, <1>1, <3>1, <3>2
  <2> QED  BY <1>0, <1>1, <2>1, <2>2 DEF queueVars
<1>2. ASSUME UNCHANGED outcome, pc # "counting", pc' # "counting",
             \/ pendingCount' = pendingCount /\ Enqueued' = Enqueued
             \/ pendingCount' = pendingCount + 1 /\ Enqueued' = Enqueued + 1
      PROVE  PendingAccounting'
  <2>1. Lost' = Lost
    BY <1>2 DEF Lost
  <2> QED  BY <1>0, <1>2, <2>1 DEF Enqueued
<1>3. ASSUME NEW e \in Events, Publish(e) \/ PublishGoesOn(e) \/ PublishThrows(e)
      PROVE  PendingAccounting'
  <2>1. /\ pc' = pc
        /\ \/ pendingCount' = pendingCount /\ Enqueued' = Enqueued
           \/ pendingCount' = pendingCount + 1 /\ Enqueued' = Enqueued + 1
    BY <1>0, <1>3, BeginCountsOne, EnqueueKeepsCount DEF Publish, PublishGoesOn, PublishThrows, busVars
  <2>2. Lost' = Lost
    <3>1. CASE PublishThrows(e)
      <4>1. outcome[e] = "none" /\ outcome' = [outcome EXCEPT ![e] = "rejected"]
        BY <1>0, <3>1, ThrowsFromActive, UnfinishedEvents DEF PublishThrows
      <4> QED  BY <1>0, <4>1 DEF Lost
    <3>2. CASE Publish(e) \/ PublishGoesOn(e)
      BY <3>2 DEF Publish, PublishGoesOn, busVars, Lost
    <3> QED  BY <1>3, <3>1, <3>2
  <2> QED  BY <1>0, <2>1, <2>2 DEF Enqueued
<1>4. ASSUME NEW e \in Events, HandlerPublishes(e)
      PROVE  PendingAccounting'
  BY <1>0, <1>2, <1>4, BeginCountsOne DEF HandlerPublishes, HandlerRuns
<1>5. CASE SubscribeAsync \/ AttachConsumer \/ Stop \/ UNCHANGED vars
  <2>1. UNCHANGED <<channel, pendingCount, call, pc, outcome>>
    BY <1>5 DEF SubscribeAsync, AttachConsumer, Stop, queueVars, vars
  <2>2. Unwritten' = Unwritten /\ Lost' = Lost
    BY <2>1 DEF Unwritten, Lost
  <2> QED  BY <1>0, <2>1, <2>2
<1>6. CASE LoopEnds \/ InvokeConsumer \/ PoisonFailed \/ PoisonEnds
  BY <1>1, <1>6 DEF LoopEnds, InvokeConsumer, PoisonFailed, PoisonEnds, HandlerRuns, Outcomes
<1>7. CASE SkipUnregistered \/ SkipNoConsumer \/ HandlerReturns \/ HandlerCancels
  BY <1>1, <1>7 DEF SkipUnregistered, SkipNoConsumer, HandlerReturns, HandlerCancels, HandlerRuns,
                    Settle, Outcomes
<1>8. CASE TakeEvent
  <2>1. /\ pc = "reading" /\ pc' = "counting" /\ UNCHANGED outcome
        /\ pendingCount' = pendingCount /\ Enqueued' = Enqueued - 1
    BY <1>8, ReadTakesOne DEF TakeEvent
  <2>2. Lost' = Lost
    BY <2>1 DEF Lost
  <2> QED  BY <1>0, <2>1, <2>2 DEF Enqueued
<1>9. CASE CountTaken
  <2>1. UNCHANGED <<channel, call, outcome>> /\ pendingCount' = pendingCount - 1
    BY <1>9 DEF CountTaken, CountDown
  <2>2. Unwritten' = Unwritten /\ Lost' = Lost
    BY <2>1 DEF Unwritten, Lost
  <2> QED  BY <1>0, <1>9, <2>1, <2>2 DEF CountTaken
<1>10. CASE RetryFailed
  <2>1. pc = "handling" /\ pc' = "requeueing" /\ current \in Events /\ UNCHANGED outcome
    BY <1>0, <1>10 DEF RetryFailed, HandlerRuns
  <2> QED  BY <1>0, <1>2, <1>10, <2>1, BeginCountsOne DEF RetryFailed
<1>11. CASE RequeueGoesOn
  <2>1. pc' = pc /\ UNCHANGED outcome /\ pendingCount' = pendingCount /\ Enqueued' = Enqueued
    BY <1>0, <1>11, EnqueueKeepsCount DEF RequeueGoesOn, busVars
  <2>2. Lost' = Lost
    BY <2>1 DEF Lost
  <2> QED  BY <1>0, <2>1, <2>2 DEF Enqueued
<1>12. CASE RequeueReturns
  <2>1. /\ call[Subscriber] = "written" /\ call' = [call EXCEPT ![Subscriber] = "idle"]
        /\ UNCHANGED <<channel, pendingCount, outcome>>
        /\ pc = "requeueing" /\ pc' = "reading"
    BY <1>0, <1>12 DEF RequeueReturns, EndEnqueue
  <2>2. Cardinality(Unwritten)' = Cardinality(Unwritten)
    <3>1. CallMoves(Subscriber, "idle")
      BY <2>1 DEF CallMoves, CallStates
    <3>2. CallWeight("idle") = 0 /\ CallWeight(call[Subscriber]) = 0
      BY <2>1 DEF CallWeight, Active
    <3> QED  BY <1>0, <3>1, <3>2, CallMovesOn
  <2> QED  BY <1>0, <1>2, <2>1, <2>2 DEF Enqueued
<1>13. CASE RequeueThrows
  <2>1. /\ call[Subscriber] = "threw" /\ call' = [call EXCEPT ![Subscriber] = "idle"]
        /\ UNCHANGED <<channel, pendingCount>>
        /\ outcome' = [outcome EXCEPT ![current] = "retryLost"]
        /\ pc = "requeueing" /\ pc' = "reading"
    BY <1>0, <1>13 DEF RequeueThrows, EndEnqueue, Settle
  <2>2. Cardinality(Unwritten)' = Cardinality(Unwritten) - 1
    <3>1. CallMoves(Subscriber, "idle")
      BY <2>1 DEF CallMoves, CallStates
    <3>2. CallWeight("idle") = 0 /\ CallWeight(call[Subscriber]) = 1
      BY <2>1 DEF CallWeight, Active
    <3> QED  BY <1>0, <3>1, <3>2, CallMovesOn
  <2>3. current \in Events /\ outcome[current] = "none"
    BY <1>0, <2>1
  <2>4. Lost' = Lost \cup {current} /\ current \notin Lost
    BY <1>0, <2>1, <2>3 DEF Lost
  <2>5. Cardinality(Lost)' = Cardinality(Lost) + 1
    BY <1>0, <2>4, FS_AddElement
  <2> QED  BY <1>0, <2>1, <2>2, <2>5
<1> QED  BY <1>3, <1>4, <1>5, <1>6, <1>7, <1>8, <1>9, <1>10, <1>11, <1>12, <1>13
         DEF Next, LoopStep, HandlerThrows

\* PendingCount counts the items in the channel, one just read, the calls that have
\* not written, every call that threw and every retry that was lost, and nothing
\* else (EnqueueAsync, DequeueAsync): an exception leaves it one too high for good.
THEOREM PendingAccountingAlways == Spec => []PendingAccounting
BY NothingCountedInitially, BalanceInductive, BothLayersAlways, PTL DEF Spec

\* A writer waits only while Capacity events are in the channel; with its own event
\* these are more than the queue has room for, all different, and none has ended.
LEMMA WaitingTakesOverload ==
    ASSUME BothLayers, blockedWriters # <<>>
    PROVE  Cardinality({e \in Events : InTransit(e)}) > Capacity
<1> DEFINE T == {e \in Events : InTransit(e)}
           first == [k \in 1 .. Capacity + 1 |-> Backlog[k]]
<1>1. /\ Capacity \in Nat /\ QueueInv /\ blockedWriters \in Seq(Callers) /\ Len(blockedWriters) \in Nat
      /\ Len(channel) = Capacity /\ Len(blockedWriters) >= 1
  BY QueueAssumption DEF BothLayers, ControlInv, QueueInv, QueueTypeOK, WaitingMeansFull
<1>2. /\ Backlog \in Seq(Events)
      /\ DOMAIN Backlog = 1 .. Capacity + Len(blockedWriters)
  BY <1>1, BacklogFacts DEF BacklogByPosition
<1>3. ASSUME NEW k \in 1 .. Capacity + 1
      PROVE  k \in DOMAIN Backlog /\ Backlog[k] \in T
  <2>1. k \in DOMAIN Backlog
    BY <1>1, <1>2
  <2>2. Backlog[k] \in Events
    <3>1. \A s \in Seq(Events) : \A i \in DOMAIN s : s[i] \in Events
      OBVIOUS
    <3> QED  BY <1>2, <2>1, <3>1
  <2>3. outcome[Backlog[k]] = "none" /\ call[Backlog[k]] \in {"blocked", "written"}
    BY <2>1, <2>2 DEF BothLayers, LineInv, EventInOnePlace
  <2> QED  BY <2>1, <2>2, <2>3 DEF InTransit
<1>4. first \in Injection(1 .. Capacity + 1, T)
  <2>1. \A i, j \in DOMAIN Backlog : Backlog[i] = Backlog[j] => i = j
    BY DEF BothLayers, LineInv, EventInOnePlace, IsInjective
  <2>2. first \in [1 .. Capacity + 1 -> T]
    BY <1>3
  <2>3. \A i, j \in 1 .. Capacity + 1 : first[i] = first[j] => i = j
    BY <1>3, <2>1
  <2>4. DOMAIN first = 1 .. Capacity + 1
    OBVIOUS
  <2> HIDE DEF first, T
  <2> QED  BY <2>2, <2>3, <2>4 DEF Injection, IsInjective
<1>5. IsFiniteSet(T)
  <2>1. IsFiniteSet(Events) /\ T \in SUBSET Events
    BY QueueAssumption
  <2> QED  BY <2>1, FS_Subset
<1> HIDE DEF first, T
<1>6. Cardinality(1 .. Capacity + 1) <= Cardinality(T)
  BY <1>4, <1>5, FS_Injection
<1>7. Cardinality(1 .. Capacity + 1) = Capacity + 1
  BY <1>1, FS_Interval
<1>8. Cardinality(T) \in Nat
  BY <1>5, FS_CardinalityType
<1>9. Cardinality(T) > Capacity
  BY <1>1, <1>6, <1>7, <1>8
<1> QED  BY <1>9 DEF T

\* The loop waits for itself only while more events are unfinished than the queue
\* has room for (BoundedChannelFullMode.Wait): a queue larger than any burst never
\* wedges.
THEOREM WedgeNeedsOverloadAlways == Spec => []WedgeNeedsOverload
<1>1. BothLayers => WedgeNeedsOverload
  <2> SUFFICES ASSUME BothLayers, Wedged PROVE Cardinality({e \in Events : InTransit(e)}) > Capacity
    BY DEF WedgeNeedsOverload
  <2>1. PICK c \in Callers : call[c] = "blocked"
    BY BusAssumption DEF Wedged, RetryWedged, HandlerWedged, BothLayers, ControlInv, TypeOK
  <2>2. blockedWriters # <<>>
    BY <2>1 DEF BothLayers, ControlInv, QueueInv, QueueTypeOK, WaitingMeansFull
  <2> QED  BY <2>2, WaitingTakesOverload
<1> QED  BY <1>1, BothLayersAlways, PTL
=============================================================================
