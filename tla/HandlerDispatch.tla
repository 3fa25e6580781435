-------------------------- MODULE HandlerDispatch --------------------------
(***************************************************************************)
(* DefaultEventHandlerInvoker: what happens to one event between the       *)
(* transport's call of ConsumerReceived and its return or exception, and   *)
(* again each time the transport retries it.                               *)
(*                                                                         *)
(* One executor runs alone; several run under Parallel.ForEachAsync, which *)
(* is external: at most Degree bodies run at once, started in order; the   *)
(* first body to throw cancels the token all of them were given and stops  *)
(* new ones from starting; the call ends when no body runs, with the       *)
(* exception that was thrown first.                                        *)
(***************************************************************************)
EXTENDS Integers, FiniteSets, Sequences

CONSTANTS
    Subscription,      \* the executors of the event, in the order of the ToDo calls
    HandlerOf,         \* the handler type of each executor
    MethodOf,          \* the method of that type the executor was made for
    Registered,        \* the handler types the container can create
    ExceptionHandlers, \* how many exception handlers the event has
    Degree,            \* how many bodies Parallel.ForEachAsync runs at once
    MaxRetry           \* the transport's MaxRetryCount

Executors == DOMAIN Subscription

ASSUME DispatchAssumption ==
    /\ Len(Subscription) \in Nat \ {0} /\ Executors = 1..Len(Subscription)
    /\ ExceptionHandlers \in Nat
    /\ Degree \in Nat \ {0}
    /\ MaxRetry \in Nat

VARIABLES
    phase,     \* of InvokeAsync, or of the event once the transport is done with it
    attempt,   \* how many retries there have been
    started,   \* how many executors have been started
    state,     \* of each executor in this attempt
    kind,      \* what each executor threw
    asked,     \* how many exception handlers each has asked
    handled,   \* ExceptionContext.Handled of each
    cancelled, \* the token of Parallel.ForEachAsync
    first,     \* the executor whose exception was first, or 0
    methods    \* the methods that have returned in this attempt

vars == <<phase, attempt, started, state, kind, asked, handled, cancelled, first, methods>>

Active == {"running", "catching"}
Kinds == {"none", "error", "ownCancel", "tokenCancel"}

TypeOK ==
    /\ phase \in {"idle", "running", "returned", "threw", "acked", "dropped", "poisoned"}
    /\ attempt \in 0..MaxRetry
    /\ started \in 0..Len(Subscription)
    /\ state \in [Executors -> Active \cup {"waiting", "returned", "swallowed", "faulted"}]
    /\ kind \in [Executors -> Kinds]
    /\ asked \in [Executors -> 0..ExceptionHandlers]
    /\ handled \in [Executors -> BOOLEAN]
    /\ cancelled \in BOOLEAN
    /\ first \in Executors \cup {0}
    /\ methods \subseteq {MethodOf[Subscription[i]] : i \in Executors}

\* A fresh InvokeAsync.
Fresh ==
    [started |-> 0, state |-> [i \in Executors |-> "waiting"],
     kind |-> [i \in Executors |-> "none"], asked |-> [i \in Executors |-> 0],
     handled |-> [i \in Executors |-> FALSE]]

Init ==
    /\ phase = "idle" /\ attempt = 0
    /\ started = Fresh.started /\ state = Fresh.state /\ kind = Fresh.kind
    /\ asked = Fresh.asked /\ handled = Fresh.handled
    /\ cancelled = FALSE /\ first = 0 /\ methods = {}

-----------------------------------------------------------------------------

\* InitializeHandlerCache: TryAdd keeps the first delegate of a handler type, and
\* the lookup is by handler type.
Cached(i) ==
    LET h == HandlerOf[Subscription[i]]
        j == CHOOSE j \in Executors :
                 /\ HandlerOf[Subscription[j]] = h
                 /\ \A k \in 1..(j - 1) : HandlerOf[Subscription[k]] # h
    IN  MethodOf[Subscription[j]]

\* InvokeAsync, in a consumer callback of the transport.
InvokeAsync ==
    /\ phase = "idle"
    /\ phase' = "running"
    /\ UNCHANGED <<attempt, started, state, kind, asked, handled, cancelled, first, methods>>

Running == {i \in Executors : state[i] \in Active}

\* ExecuteHandlerAsync begins: a handler type the container does not know throws
\* HandlerNotRegisteredException inside the try block.
StartExecutor(i) ==
    /\ phase = "running"
    /\ i = started + 1
    /\ ~cancelled
    /\ Cardinality(Running) < Degree
    /\ started' = i
    /\ IF HandlerOf[Subscription[i]] \in Registered
       THEN state' = [state EXCEPT ![i] = "running"] /\ UNCHANGED kind
       ELSE state' = [state EXCEPT ![i] = "catching"] /\ kind' = [kind EXCEPT ![i] = "error"]
    /\ UNCHANGED <<phase, attempt, asked, handled, cancelled, first, methods>>

HandlerReturns(i) ==
    /\ state[i] = "running"
    /\ state' = [state EXCEPT ![i] = "returned"]
    /\ methods' = methods \cup {Cached(i)}
    /\ UNCHANGED <<phase, attempt, started, kind, asked, handled, cancelled, first>>

\* An error, a cancellation of its own (a time-out), or its answer to the token.
HandlerThrows(i) ==
    /\ state[i] = "running"
    /\ \E k \in Kinds \ {"none"} :
          /\ k = "tokenCancel" => cancelled
          /\ kind' = [kind EXCEPT ![i] = k]
    /\ state' = [state EXCEPT ![i] = "catching"]
    /\ UNCHANGED <<phase, attempt, started, asked, handled, cancelled, first, methods>>

\* Mutated form: an exception handler is asked until it has handled the exception.
ExceptionHandlerAskedAgain(i) ==
    /\ state[i] = "catching"
    /\ asked[i] < ExceptionHandlers
    /\ \E b \in BOOLEAN : /\ handled' = [handled EXCEPT ![i] = b]
                          /\ asked' = [asked EXCEPT ![i] = IF b THEN @ + 1 ELSE @]
    /\ UNCHANGED <<phase, attempt, started, state, kind, cancelled, first, methods>>

\* ExceptionHandlerInvoker: the next exception handler sets Handled, clears it
\* again, or leaves it.
ExceptionHandlerReturns(i) ==
    /\ state[i] = "catching"
    /\ asked[i] < ExceptionHandlers
    /\ asked' = [asked EXCEPT ![i] = @ + 1]
    /\ \E b \in BOOLEAN : handled' = [handled EXCEPT ![i] = b]
    /\ UNCHANGED <<phase, attempt, started, state, kind, cancelled, first, methods>>

\* Mutated form: the last exception wins.
FaultLastWins(i) ==
    /\ state' = [state EXCEPT ![i] = "faulted"]
    /\ first' = i
    /\ cancelled' = (Len(Subscription) > 1)

\* An exception leaves the body of executor i.
Fault(i) ==
    /\ state' = [state EXCEPT ![i] = "faulted"]
    /\ first' = IF first = 0 THEN i ELSE first
    /\ cancelled' = (Len(Subscription) > 1)

\* An exception handler throws: its exception replaces the handler's.
ExceptionHandlerThrows(i) ==
    /\ state[i] = "catching"
    /\ asked[i] < ExceptionHandlers
    /\ \E k \in Kinds \ {"none"} :
          /\ k = "tokenCancel" => cancelled
          /\ kind' = [kind EXCEPT ![i] = k]
    /\ Fault(i)
    /\ UNCHANGED <<phase, attempt, started, asked, handled, methods>>

\* Mutated form: the exception is never thrown again.
CatchEndsQuietly(i) ==
    /\ state[i] = "catching"
    /\ asked[i] = ExceptionHandlers
    /\ state' = [state EXCEPT ![i] = "swallowed"]
    /\ UNCHANGED <<phase, attempt, started, kind, asked, handled, cancelled, first, methods>>

\* Mutated form: a failure cancels the others whether it was handled or not.
CatchEndsCancelling(i) ==
    /\ state[i] = "catching"
    /\ asked[i] = ExceptionHandlers
    /\ cancelled' = (Len(Subscription) > 1)
    /\ state' = [state EXCEPT ![i] = IF handled[i] THEN "swallowed" ELSE "faulted"]
    /\ first' = IF first = 0 /\ ~handled[i] THEN i ELSE first
    /\ UNCHANGED <<phase, attempt, started, kind, asked, handled, methods>>

\* Every exception handler was asked: unless Handled stands, the exception goes on.
CatchEnds(i) ==
    /\ state[i] = "catching"
    /\ asked[i] = ExceptionHandlers
    /\ IF handled[i]
       THEN state' = [state EXCEPT ![i] = "swallowed"] /\ UNCHANGED <<cancelled, first>>
       ELSE Fault(i)
    /\ UNCHANGED <<phase, attempt, started, kind, asked, handled, methods>>

\* Mutated form: the first exception ends the call at once.
InvokeEndsEarly ==
    /\ phase = "running"
    /\ first # 0 \/ (Running = {} /\ started = Len(Subscription))
    /\ phase' = IF first = 0 THEN "returned" ELSE "threw"
    /\ UNCHANGED <<attempt, started, state, kind, asked, handled, cancelled, first, methods>>

\* Mutated form: the call waits for executors that will never start.
InvokeEndsWhenAllStarted ==
    /\ phase = "running"
    /\ Running = {}
    /\ started = Len(Subscription)
    /\ phase' = IF first = 0 THEN "returned" ELSE "threw"
    /\ UNCHANGED <<attempt, started, state, kind, asked, handled, cancelled, first, methods>>

\* InvokeAsync returns, or throws the first exception.
InvokeEnds ==
    /\ phase = "running"
    /\ Running = {}
    /\ started = Len(Subscription) \/ cancelled
    /\ phase' = IF first = 0 THEN "returned" ELSE "threw"
    /\ UNCHANGED <<attempt, started, state, kind, asked, handled, cancelled, first, methods>>

-----------------------------------------------------------------------------
(* The transport, as InMemoryBus and RabbitMqBus have it. *)

Ack ==
    /\ phase = "returned"
    /\ phase' = "acked"
    /\ UNCHANGED <<attempt, started, state, kind, asked, handled, cancelled, first, methods>>

\* In-memory only: an OperationCanceledException ends the event.
DropCancelled ==
    /\ phase = "threw"
    /\ kind[first] \in {"ownCancel", "tokenCancel"}
    /\ phase' = "dropped"
    /\ UNCHANGED <<attempt, started, state, kind, asked, handled, cancelled, first, methods>>

\* Mutated form: one retry too many.
RetryOnceMore ==
    /\ phase = "threw"
    /\ attempt <= MaxRetry
    /\ attempt' = attempt + 1
    /\ phase' = "idle"
    /\ started' = Fresh.started /\ state' = Fresh.state /\ kind' = Fresh.kind
    /\ asked' = Fresh.asked /\ handled' = Fresh.handled
    /\ cancelled' = FALSE /\ first' = 0 /\ methods' = {}

\* The event comes again: all its executors run again.
Retry ==
    /\ phase = "threw"
    /\ attempt < MaxRetry
    /\ attempt' = attempt + 1
    /\ phase' = "idle"
    /\ started' = Fresh.started /\ state' = Fresh.state /\ kind' = Fresh.kind
    /\ asked' = Fresh.asked /\ handled' = Fresh.handled
    /\ cancelled' = FALSE /\ first' = 0 /\ methods' = {}

Poison ==
    /\ phase = "threw"
    /\ attempt = MaxRetry
    /\ phase' = "poisoned"
    /\ UNCHANGED <<attempt, started, state, kind, asked, handled, cancelled, first, methods>>

-----------------------------------------------------------------------------

ExecutorStep(i) ==
    \/ StartExecutor(i)
    \/ HandlerReturns(i) \/ HandlerThrows(i)
    \/ ExceptionHandlerReturns(i) \/ ExceptionHandlerThrows(i) \/ CatchEnds(i)

TransportStep == Ack \/ DropCancelled \/ Retry \/ Poison

Next ==
    \/ InvokeAsync
    \/ \E i \in Executors : ExecutorStep(i)
    \/ InvokeEnds
    \/ TransportStep

Spec == Init /\ [][Next]_vars

\* Handlers and exception handlers end; the transport goes on.
FairSpec ==
    /\ Spec
    /\ WF_vars(InvokeAsync \/ InvokeEnds \/ TransportStep)
    /\ \A i \in Executors : WF_vars(ExecutorStep(i))

-----------------------------------------------------------------------------
(* Safety *)

\* The transport acks an event only when every one of its executors has returned
\* in this attempt, or has failed and an exception handler took the failure on.
AckNeedsEveryExecutor ==
    phase \in {"returned", "acked"} =>
        \A i \in Executors : state[i] = "returned" \/ (state[i] = "swallowed" /\ handled[i])

\* When the transport gets the event back, no executor of it is running: a retry
\* never overlaps with the handlers of the attempt before it.
NothingRunsBetweenAttempts == phase # "running" => Running = {}

\* The executors that run beside a failing one are cancelled only if its failure
\* leaves it, not when an exception handler takes it on.
HandledFailureCancelsNobody == cancelled => first # 0 /\ state[first] = "faulted"

\* What InvokeAsync throws is never the answer of an executor to the token: the
\* in-memory transport, which drops a cancelled event, would drop one that failed.
CancellationHidesNoFailure == first # 0 => kind[first] # "tokenCancel"

\* One event through the dispatcher and its retries leads the life that EventLife
\* promises, as in InMemoryBus: what the invoker returns or throws, executor by
\* executor, is what the transport there takes for a free choice.
Dispatched == {"event"}
FateOf(thePhase) ==
    CASE thePhase = "acked" -> "handled"
      [] thePhase = "dropped" -> "cancelled"
      [] thePhase = "poisoned" -> "poisoned"
      [] OTHER -> "open"

Life == INSTANCE EventLife WITH
            Events <- Dispatched,
            Budgeted <- Dispatched,
            tries <- [e \in Dispatched |->
                         attempt + IF phase \in {"dropped", "poisoned"} THEN 1 ELSE 0],
            fate <- [e \in Dispatched |-> FateOf(phase)]
ImplementsEventLife == Life!Spec

\* The steps the invoker and each executor have not taken in this attempt, at most.
InvokerLeft ==
    CASE phase = "idle" -> 3
      [] phase = "running" -> 2
      [] phase \in {"returned", "threw"} -> 1
      [] OTHER -> 0

ExecutorLeft(i) ==
    CASE state[i] = "waiting" -> ExceptionHandlers + 3
      [] state[i] = "running" -> ExceptionHandlers + 2
      [] state[i] = "catching" -> ExceptionHandlers + 1 - asked[i]
      [] OTHER -> 0

\* What the event has still ahead of it, by attempt: the invoker is executor 0.
StepsLeft(a, i) ==
    CASE a < attempt -> 0
      [] a > attempt -> ExceptionHandlers + 3
      [] OTHER -> IF i = 0 THEN InvokerLeft ELSE ExecutorLeft(i)

Ahead ==
    {x \in (0..MaxRetry) \X (Executors \cup {0}) \X (1..(ExceptionHandlers + 3)) :
        x[3] <= StepsLeft(x[1], x[2])}

\* Nothing in dispatch goes round in a circle: every step, of whatever executor, uses
\* up some of what is ahead of the event and adds nothing, however handlers, exception
\* handlers and cancellations interleave.
EveryStepUsesUp == [][Ahead' \subseteq Ahead /\ Ahead' # Ahead]_vars

\* Every event that is dispatched ends, its retries included.
EventEnds == phase = "idle" ~> phase \in {"acked", "dropped", "poisoned"}

-----------------------------------------------------------------------------

\* IFluentSubscriptionBuilder: ToDo names the method to execute when the event is
\* received; so when all executors have returned, all those methods have.
EveryMethodRuns ==
    phase = "acked" /\ (\A i \in Executors : state[i] = "returned")
        => \A i \in Executors : MethodOf[Subscription[i]] \in methods
=============================================================================
