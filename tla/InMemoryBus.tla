---------------------------- MODULE InMemoryBus ----------------------------
(***************************************************************************)
(* The in-memory transport: any number of PublishAsync calls in flight at  *)
(* once (each event is one call, made by a flow of its own), the single    *)
(* background loop of InMemoryEventSubscriber.ExecuteAsync with its retry, *)
(* and the start-up of the host, which starts that loop before the         *)
(* bootstrapper subscribes it and attaches the dispatcher.                 *)
(*                                                                         *)
(* What a handler does is nondeterministic: it returns, throws, or throws  *)
(* an OperationCanceledException (a time-out inside the handler does), and *)
(* before that it may publish events of its own and await their            *)
(* PublishAsync.  The caller of PublishAsync may cancel at any time, the   *)
(* OnAlert and OnPoisonMessage callbacks may throw, the host may stop at   *)
(* any time.                                                               *)
(***************************************************************************)
EXTENDS BackgroundQueue

CONSTANTS
    Subscriber,  \* the background loop, a caller of EnqueueAsync when it retries
    Subscribed,  \* the events whose name some profile subscribes to
    HeaderObjs,  \* the Headers objects callers pass to PublishAsync
    HeadersOf,   \* the Headers object of each event: callers may reuse one
    MaxRetry     \* BackgroundQueueOptions.MaxRetryCount

ASSUME BusAssumption ==
    /\ Subscriber \notin Events
    /\ Callers = Events \cup {Subscriber}
    /\ Subscribed \subseteq Events
    /\ HeadersOf \in [Events -> HeaderObjs]
    /\ MaxRetry \in Nat

VARIABLES
    pc,          \* where the loop of ExecuteAsync is
    current,     \* the event context the loop holds
    awaited,     \* the event whose PublishAsync the running handler awaits
    boot,        \* how far EventSubscribeInitializer has come
    stopping,    \* stoppingToken.IsCancellationRequested
    retryCount,  \* the retry-count header of each Headers object
    failures,    \* how many times a handler run of each event has failed
    outcome      \* how each event ended

busVars == <<pc, current, awaited, boot, stopping, retryCount, failures, outcome>>
vars == <<channel, blockedWriters, pendingCount, call, payload,
          pc, current, awaited, boot, stopping, retryCount, failures, outcome>>

LoopStates == {"reading", "counting", "checking", "handling",
               "requeueing", "poisoning", "stopped"}

\* "none" is an event that has not ended; the other outcomes are final.
Outcomes == {"none", "rejected", "unregistered", "skipped", "handled",
             "cancelled", "retryLost", "poisoned"}

TypeOK ==
    /\ QueueTypeOK
    /\ pc \in LoopStates
    /\ current \in Events \cup {NoEvent}
    /\ awaited \in Events \cup {NoEvent}
    /\ boot \in {"starting", "subscribed", "ready"}
    /\ stopping \in BOOLEAN
    /\ retryCount \in [HeaderObjs -> 0..MaxRetry]
    /\ failures \in [Events -> Nat]
    /\ outcome \in [Events -> Outcomes]

Init ==
    /\ QueueInit
    /\ pc = "reading"
    /\ current = NoEvent
    /\ awaited = NoEvent
    /\ boot = "starting"
    /\ stopping = FALSE
    /\ retryCount = [h \in HeaderObjs |-> 0]
    /\ failures = [e \in Events |-> 0]
    /\ outcome = [e \in Events |-> "none"]

-----------------------------------------------------------------------------
(* PublishAsync: the flow of event e *)

Publish(e) ==
    /\ BeginEnqueue(e, e)
    /\ UNCHANGED busVars

\* EnqueueAsync goes on inside the publisher.
PublishGoesOn(e) ==
    /\ AlertReturns(e) \/ WriteCompletes(e) \/ WriteBlocks(e)
    /\ UNCHANGED busVars

\* EnqueueAsync throws and PublishAsync rethrows to its caller.
PublishThrows(e) ==
    /\ AlertThrows(e) \/ WriteCancelled(e)
    /\ outcome' = [outcome EXCEPT ![e] = "rejected"]
    /\ UNCHANGED <<pc, current, awaited, boot, stopping, retryCount, failures>>

-----------------------------------------------------------------------------
(* Start-up and shutdown *)

\* InitializeAsync: SubscribeAsync(eventNames), then ConsumerReceived is set.
SubscribeAsync ==
    /\ boot = "starting"
    /\ boot' = "subscribed"
    /\ UNCHANGED <<queueVars, pc, current, awaited, stopping, retryCount, failures, outcome>>

AttachConsumer ==
    /\ boot = "subscribed"
    /\ boot' = "ready"
    /\ UNCHANGED <<queueVars, pc, current, awaited, stopping, retryCount, failures, outcome>>

\* The host cancels stoppingToken.
Stop ==
    /\ ~stopping
    /\ stopping' = TRUE
    /\ UNCHANGED <<queueVars, pc, current, awaited, boot, retryCount, failures, outcome>>

-----------------------------------------------------------------------------
(* ExecuteAsync: the background loop *)

\* The loop is done with the event it holds, and goes round.
Settle(result) ==
    /\ outcome' = [outcome EXCEPT ![current] = result]
    /\ current' = NoEvent
    /\ pc' = "reading"
    /\ awaited' = NoEvent
    /\ UNCHANGED <<boot, stopping, retryCount>>

\* The loop condition, or ReadAsync's own check of the token, ends the loop.
LoopEnds ==
    /\ pc = "reading"
    /\ stopping
    /\ pc' = "stopped"
    /\ UNCHANGED <<queueVars, current, awaited, boot, stopping, retryCount, failures, outcome>>

TakeEvent ==
    /\ pc = "reading"
    /\ ~stopping
    /\ Read
    /\ current' = Head(channel)
    /\ pc' = "counting"
    /\ UNCHANGED <<awaited, boot, stopping, retryCount, failures, outcome>>

CountTaken ==
    /\ pc = "counting"
    /\ CountDown
    /\ pc' = "checking"
    /\ UNCHANGED <<current, awaited, boot, stopping, retryCount, failures, outcome>>

\* _subscribedEventNames does not hold the name (or does not hold it yet).
SkipUnregistered ==
    /\ pc = "checking"
    /\ boot = "starting" \/ current \notin Subscribed
    /\ Settle("unregistered")
    /\ UNCHANGED <<queueVars, failures>>

\* The name is subscribed but ConsumerReceived is still null.
SkipNoConsumer ==
    /\ pc = "checking"
    /\ boot = "subscribed"
    /\ current \in Subscribed
    /\ Settle("skipped")
    /\ UNCHANGED <<queueVars, failures>>

InvokeConsumer ==
    /\ pc = "checking"
    /\ boot = "ready"
    /\ current \in Subscribed
    /\ pc' = "handling"
    /\ UNCHANGED <<queueVars, current, awaited, boot, stopping, retryCount, failures, outcome>>

\* The handler is running and awaits no PublishAsync of its own.
HandlerRuns ==
    /\ pc = "handling"
    /\ awaited # NoEvent => call[awaited] \in {"written", "threw"}

\* The handler publishes event e and awaits the call.
HandlerPublishes(e) ==
    /\ HandlerRuns
    /\ BeginEnqueue(e, e)
    /\ awaited' = e
    /\ UNCHANGED <<pc, current, boot, stopping, retryCount, failures, outcome>>

HandlerReturns ==
    /\ HandlerRuns
    /\ Settle("handled")
    /\ UNCHANGED <<queueVars, failures>>

\* The inner catch rethrows an OperationCanceledException, the outer one logs it.
HandlerCancels ==
    /\ HandlerRuns
    /\ failures' = [failures EXCEPT ![current] = @ + 1]
    /\ Settle("cancelled")
    /\ UNCHANGED queueVars

\* Mutated form: one retry too many.
RetriesLeftOffByOne(e) == retryCount[HeadersOf[e]] <= MaxRetry

\* GetRetryCount against MaxRetryCount.
RetriesLeft(e) == retryCount[HeadersOf[e]] < MaxRetry

\* Mutated form: the header never goes up.
RaiseRetryCountForgotten(e) == UNCHANGED retryCount

RaiseRetryCount(e) == retryCount' = [retryCount EXCEPT ![HeadersOf[e]] = @ + 1]

\* HandleConsumeFailureAsync below the limit: the header goes up, and the same
\* event context is enqueued again.
RetryFailed ==
    /\ HandlerRuns
    /\ RetriesLeft(current)
    /\ failures' = [failures EXCEPT ![current] = @ + 1]
    /\ RaiseRetryCount(current)
    /\ BeginEnqueue(Subscriber, current)
    /\ pc' = "requeueing"
    /\ awaited' = NoEvent
    /\ UNCHANGED <<current, boot, stopping, outcome>>

\* HandleConsumeFailureAsync at the limit: OnPoisonMessage is called (or only an
\* error is logged) and the event is dropped.
PoisonFailed ==
    /\ HandlerRuns
    /\ ~RetriesLeft(current)
    /\ failures' = [failures EXCEPT ![current] = @ + 1]
    /\ outcome' = [outcome EXCEPT ![current] = "poisoned"]
    /\ pc' = "poisoning"
    /\ awaited' = NoEvent
    /\ UNCHANGED <<queueVars, current, boot, stopping, retryCount>>

\* Mutated form: the exception of OnPoisonMessage ends the loop.
PoisonEndsLoop ==
    /\ pc = "poisoning"
    /\ pc' = "stopped"
    /\ current' = NoEvent
    /\ UNCHANGED <<queueVars, awaited, boot, stopping, retryCount, failures, outcome>>

\* OnPoisonMessage returns, or throws and is logged by the outer catch.
PoisonEnds ==
    /\ pc = "poisoning"
    /\ pc' = "reading"
    /\ current' = NoEvent
    /\ UNCHANGED <<queueVars, awaited, boot, stopping, retryCount, failures, outcome>>

\* Mutated form: the retry is given a token that can time out.
RequeueTimesOut ==
    /\ \/ AlertReturns(Subscriber)
       \/ AlertThrows(Subscriber)
       \/ WriteCompletes(Subscriber)
       \/ WriteBlocks(Subscriber)
       \/ WriteCancelled(Subscriber)
    /\ UNCHANGED busVars

\* Mutated form: the retry is given no token.
RequeueIgnoresStop ==
    /\ \/ AlertReturns(Subscriber)
       \/ AlertThrows(Subscriber)
       \/ WriteCompletes(Subscriber)
       \/ WriteBlocks(Subscriber)
    /\ UNCHANGED busVars

\* The retry's EnqueueAsync goes on; its token is stoppingToken.
RequeueGoesOn ==
    /\ \/ AlertReturns(Subscriber)
       \/ AlertThrows(Subscriber)
       \/ ~stopping /\ WriteCompletes(Subscriber)
       \/ ~stopping /\ WriteBlocks(Subscriber)
       \/ stopping /\ WriteCancelled(Subscriber)
    /\ UNCHANGED busVars

\* The retry is scheduled, and the loop goes round.
RequeueReturns ==
    /\ call[Subscriber] = "written"
    /\ EndEnqueue(Subscriber)
    /\ pc' = "reading"
    /\ current' = NoEvent
    /\ UNCHANGED <<awaited, boot, stopping, retryCount, failures, outcome>>

\* EnqueueAsync threw inside the catch block: the outer catch only logs it.
RequeueThrows ==
    /\ call[Subscriber] = "threw"
    /\ EndEnqueue(Subscriber)
    /\ Settle("retryLost")
    /\ UNCHANGED failures

-----------------------------------------------------------------------------

HandlerThrows == RetryFailed \/ PoisonFailed

LoopStep ==
    \/ LoopEnds \/ TakeEvent \/ CountTaken
    \/ SkipUnregistered \/ SkipNoConsumer \/ InvokeConsumer
    \/ HandlerReturns \/ HandlerCancels \/ HandlerThrows
    \/ PoisonEnds
    \/ RequeueGoesOn \/ RequeueReturns \/ RequeueThrows

Next ==
    \/ \E e \in Events :
          Publish(e) \/ HandlerPublishes(e) \/ PublishGoesOn(e) \/ PublishThrows(e)
    \/ SubscribeAsync \/ AttachConsumer \/ Stop
    \/ LoopStep

Spec == Init /\ [][Next]_vars

\* The thread pool runs every continuation that is ready; handlers and callbacks
\* are assumed to end.  Nothing makes anyone publish or cancel, the host stop,
\* or an EnqueueAsync throw.
FairSpec ==
    /\ Spec
    /\ WF_vars(LoopStep)
    /\ \A e \in Events : WF_vars(PublishGoesOn(e))
-----------------------------------------------------------------------------
(* Safety *)

\* The event is in the loop's hands and nowhere else.
Held(e) ==
    /\ current = e
    /\ pc = "requeueing" => call[Subscriber] \in {"alerting", "writing", "threw"}

\* No event is lost without an outcome and none is duplicated: an event that
\* was written (or waits to be) and has not ended is either in the line or held
\* by the loop, never both, never twice; one that has ended is in neither.
EventInOnePlace ==
    /\ IsInjective(Backlog)
    /\ \A e \in Events :
          (\E k \in DOMAIN Backlog : Backlog[k] = e)
             <=> /\ outcome[e] = "none"
                 /\ call[e] \in {"blocked", "written"}
                 /\ ~Held(e)

\* What _pendingCount really counts: the items in the channel, one that has been
\* read but not yet counted down, the EnqueueAsync calls that have not written
\* yet, and every EnqueueAsync that ever threw.
Unwritten == {c \in Callers : call[c] \in Active \cup {"threw"}}
Lost == {e \in Events : outcome[e] = "retryLost"}

PendingAccounting ==
    pendingCount = Len(channel) + (IF pc = "counting" THEN 1 ELSE 0)
                     + Cardinality(Unwritten) + Cardinality(Lost)

\* An event fails at most MaxRetry + 1 times, and is a poison message only when
\* the retry-count header stands at the limit; with a Headers object of its own
\* that is after MaxRetry + 1 failed runs of its handlers, no fewer.
OwnHeaders(e) == \A f \in Events : HeadersOf[f] = HeadersOf[e] => f = e

RetryBudget ==
    \A e \in Events :
        /\ failures[e] <= MaxRetry + 1
        /\ outcome[e] = "poisoned" =>
              /\ retryCount[HeadersOf[e]] = MaxRetry
              /\ OwnHeaders(e) => failures[e] = MaxRetry + 1

\* The loop, the only reader, waits for room in the channel only it can drain:
\* to retry an event, or because the handler it runs publishes one.
RetryWedged == call[Subscriber] = "blocked"
HandlerWedged == awaited # NoEvent /\ call[awaited] = "blocked"
Wedged == RetryWedged \/ HandlerWedged

InTransit(e) == call[e] # "idle" /\ outcome[e] = "none"

\* That takes more unfinished events than the queue has room for.
WedgeNeedsOverload ==
    Wedged => Cardinality({e \in Events : InTransit(e)}) > Capacity

\* An event that has ended stays ended: no step delivers, retries or ends it
\* again, a PublishAsync that threw included.
SettledIsFinal ==
    [][\A e \in Events : outcome[e] # "none" =>
          outcome'[e] = outcome[e] /\ failures'[e] = failures[e]]_vars

\* Nothing but the shutdown of the host ends a wedged retry: one failed event
\* put back into a full queue stops the transport for good.
WedgeIsPermanent == [][RetryWedged /\ ~stopping => RetryWedged']_vars

\* The channel and its waiting writers are one line, served from the head.
Fifo == INSTANCE BoundedFifo WITH Items <- Events, line <- Backlog
ImplementsFifo == Fifo!Spec

\* Each event leads the life that EventLife promises, whatever shares the queue,
\* the loop and its Headers with it; HandlerDispatch implements the same promise.
FateOf(result) ==
    CASE result = "none" -> "open"
      [] result \in {"rejected", "unregistered", "skipped"} -> "refused"
      [] result = "retryLost" -> "lost"
      [] OTHER -> result

Life == INSTANCE EventLife WITH
            Budgeted <- {e \in Events : OwnHeaders(e)},
            tries <- failures,
            fate <- [e \in Events |-> FateOf(outcome[e])]
ImplementsEventLife == Life!Spec

-----------------------------------------------------------------------------
(* What the safety properties need beside themselves to be inductive. *)

\* A publisher enqueues its own event, the loop the one it holds.
CallsCarryTheirEvent ==
    /\ \A e \in Events : call[e] # "idle" => payload[e] = e
    /\ pc = "requeueing" => payload[Subscriber] = current

\* Where the loop is against what it holds and awaits.
LoopControl ==
    /\ current = NoEvent <=> pc \in {"reading", "stopped"}
    /\ call[Subscriber] = "idle" <=> pc # "requeueing"
    /\ awaited # NoEvent => pc = "handling"

\* What has become of the event the loop holds.
LoopHoldsEvent ==
    current # NoEvent =>
       /\ call[current] = "written"
       /\ outcome[current] = IF pc = "poisoning" THEN "poisoned" ELSE "none"

\* How an event ended against how its PublishAsync did.
OutcomeFitsCall ==
    \A e \in Events :
        /\ outcome[e] = "rejected" <=> call[e] = "threw"
        /\ outcome[e] \notin {"none", "rejected"} => call[e] = "written"

\* Each failure below the limit has raised the header of the event's Headers.
FailuresRaiseRetryCount ==
    \A e \in Events :
        LET last == IF outcome[e] \in {"poisoned", "cancelled"} THEN 1 ELSE 0
        IN  /\ failures[e] <= retryCount[HeadersOf[e]] + last
            /\ OwnHeaders(e) => failures[e] = retryCount[HeadersOf[e]] + last
            /\ outcome[e] = "poisoned" => retryCount[HeadersOf[e]] = MaxRetry

-----------------------------------------------------------------------------
(* Liveness *)

\* Once the bus is ready, an accepted event of a subscribed name is run to an
\* end, retries included, unless the loop wedges itself or the host stops.
DeliveredOnceReady ==
    \A e \in Subscribed :
        (boot = "ready" /\ call[e] = "written" /\ outcome[e] = "none")
            ~> \/ outcome[e] \in {"handled", "poisoned", "cancelled", "retryLost"}
               \/ Wedged
               \/ stopping

\* A PublishAsync comes back, however full the queue was, unless the loop wedges
\* itself or the host stops.
PublishReturns ==
    \A e \in Events :
        call[e] \in Active ~> call[e] \in {"written", "threw"} \/ Wedged \/ stopping

\* When the host stops, the loop ends, also one that waits to put a retry into a
\* full queue; only a handler that awaits its own PublishAsync there, with a token
\* of its own, keeps it.
StopEndsLoop == stopping ~> pc = "stopped" \/ HandlerWedged

-----------------------------------------------------------------------------
(* What the documentation says of the transport, each stated as it is read. *)

\* eventbus-routing.md: a failed handler propagates its exception to the
\* transport, which retries the message; beyond the limit it is a poison message.
\* So an event that failed and has ended was handled after all, or poisoned.
FailureIsRetriedOrPoisoned ==
    \A e \in Events :
        failures[e] > 0 => outcome[e] \in {"none", "handled", "poisoned"}

\* eventbus-routing.md: in-memory, the failed event is re-enqueued.
RetryIsScheduled ==
    call[Subscriber] \in Active ~> call[Subscriber] = "written" \/ stopping
=============================================================================
