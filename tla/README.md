# Verification of SimpleEventBus

TLA+ models of FluentEventBus (the library of this repository), their TLC configurations, and theorems checked by
TLAPS. Paths below are relative to the repository; `src/` there is the directory that holds the projects
(`src/FluentEventBus`, `src/FluentEventBus.InMemory`, `src/FluentEventBus.RabbitMq`, ...).

To check: `tlc -config InMemory.cfg MCInMemoryBus` and so on for the runs below; `tlapm` on the eight
`...Proofs.tla` modules for the proofs.

## 1. The system

An application publishes events with `IEventBus.PublishAsync`. A transport carries them to a subscriber, which calls
`ConsumerReceived`. That is `EventSubscribeInitializer`, which finds the CLR type, deserializes, and hands the event
to `DefaultEventHandlerInvoker`, which runs the handlers the subscription profiles name. An exception that no
exception handler takes on goes back to the transport, which retries and finally gives up.

| Component | State | Operations | Interacts with |
|---|---|---|---|
| `BackgroundQueue` | bounded channel, its waiting writers, `_pendingCount` | `EnqueueAsync`, `DequeueAsync`, `PendingCount` | publishers and the loop; `OnAlert` callback |
| `InMemoryEventSubscriber` | `_subscribedEventNames`, `ConsumerReceived`, the loop's position | `ExecuteAsync`, `HandleConsumeFailureAsync`, `SubscribeAsync` | reads the queue, **and writes to it** when it retries |
| Publisher front end (`AbstractEventPublisher`, `InMemoryEventPublisher`) | none of its own; writes into the caller's `Headers` | `PublishAsync` | the queue or RabbitMQ, the activity source |
| Start-up (`DefaultApplicationBootstrapper`, `EventSubscribeInitializer`) | order of initializers | `InitializeAsync`, `ConsumerReceived` | subscriber, profiles, registry, invoker |
| RabbitMQ transport (`RabbitMqEventSubscriber`, `RabbitMqEventPublisher`, options) | consumers, declared exchanges, options | `SubscribeEventsAsync`, the consumer callback, `HandleConsumeFailureAsync`, `PublishEventAsync` | EasyNetQ and the broker (external) |
| Handler dispatch (`DefaultEventHandlerInvoker`, `ExceptionHandlerInvoker`) | delegate cache, `ExceptionContext.Handled` | `InvokeAsync`, `ExecuteAsync` | handlers, exception handlers, `Parallel.ForEachAsync` (external) |
| Profiles and `EventNameRegistry` | executors and error handlers per event type; name to type and back | `AddSubscription`, `Initialize`, `Register`, `GetEventName`, `GetEventType` | everything at start-up, publishers and dispatch later |
| Envelope `Headers` | message id, correlation id, time, retry count, trace context | property setters, `??=` at publish | both transports, consumers, the activity source |
| Tracing (`EventBusActivitySource`) | none; writes the trace context into the `Headers` | `StartPublish`, `StartConsume` | publisher front end, dispatch |
| AsyncAPI generator and document provider | channels, operations, messages, schemas keyed by name; a `Lazy` document | `Generate`, `GetDocument` | profiles, registry |
| Serialization, metrics counters, DI builders, connection provider | none that the bus reads back | | |

Behaviours that are hard here, and what would make each component correct:

- **Queue**: any number of asynchronous publishers interleave between the increment of the counter, the end of
  `OnAlert` and the end of the write; any of these can throw or be cancelled. It must never exceed its capacity, admit
  waiting writers in order, and drop a cancelled writer from the line. Its counter should say how long it is.
- **In-memory loop**: the only reader of the channel is also one of its writers. Every accepted event should be
  handled, retried at most `MaxRetryCount` times and then reported; never lost, never duplicated; the loop should
  survive every throwing callback.
- **Start-up**: the in-memory loop and the RabbitMQ consumers run before `ConsumerReceived` is attached.
- **RabbitMQ**: the retry is a second publish followed by an ack of the first delivery, in a process that can die and
  a connection that can be lost in between, with a copy the broker never confirmed. At-least-once delivery must hold
  across faults, exactly-once without them; a message is given up only after enough of its deliveries have failed, and
  in the end every message is settled.
- **Dispatch**: several handlers of one event run at once; one failing cancels the rest; an exception handler may take
  a failure on while others run. The transport must not ack what was not handled, must not retry while a handler still
  runs, and must see the real failure, not a cancellation.
- **Profiles, registry, generator**: the manager is initialized at start-up and again by every document request, at
  any time and by several at once; a collision of names throws half-way. A name must lead to one type and to all its
  executors, whatever the order, and the document must show what is subscribed. The words of a name are cut by looking
  one character back and one ahead.
- **Envelope**: `PublishAsync` writes into the object it was given. A caller may keep it for a second try or a second
  event, a handler may publish with the one it received, and in memory it is the same object that the waiting event
  holds. A message id must mark repetitions and nothing else, and a trace must lead back to the call that sent the
  message.

`PROJECT.json` lists the components with their status and all hazards with their lines.

## 2. The modules

| Module | What it is |
|---|---|
| `BoundedFifo` | abstract: what a bounded queue with waiting writers promises |
| `EventLife` | abstract: what the bus promises about one event, its tries and its end; three modules implement it |
| `BackgroundQueue` | `BackgroundQueue.cs`, the .NET channel included (external); operators over its five variables, no specification of its own |
| `InMemoryBus` | extends `BackgroundQueue` with publishers, the loop, start-up and shutdown; this is the in-memory transport's specification |
| `RabbitMqBroker` | the broker as the code uses it (external): declarations, bindings, queues as bags, nacks |
| `RabbitMqBus` | extends `RabbitMqBroker` with publishers and subscribing processes, crashes, lost connections and lost publishes |
| `HandlerDispatch` | one event through the invoker and its exception handlers, retries included |
| `EventNames` | how a type gets its wire name: pure functions, and what the words of a name are, said without a loop |
| `Subscriptions` | extends `EventNames` with profiles, profile manager, name registry, start-up of the host, the invoker's cache, the document generator and the document provider |
| `Publishing` | the envelope: what `PublishAsync` writes into `Headers`, tries again, shares and forwards, and what a consumer makes of it |
| `InMemoryBusProofs`, `InMemoryOutcomeProofs` | the queue's operations and the in-memory transport's inductive invariant; what follows from it |
| `RabbitMqProofs`, `RabbitMqCalmProofs` | types, and what is not lost, under any faults; exactly-once, and the life of a message, until the first one |
| `EventNamesProofs` | how any name is cut, of any length; the lemmas about loops |
| `HandlerDispatchProofs`, `SubscriptionsProofs`, `PublishingProofs` | the theorems about these three |
| `MC...` | instances for TLC |

### Correspondence with the code

*In-memory.* Each event of `Events` is one call of `PublishAsync` by a flow of its own. `EnqueueAsync` is cut where it
awaits: `BeginEnqueue` (the increment and the decision on `OnAlert`), `AlertReturns`/`AlertThrows`, then
`WriteCompletes`, `WriteBlocks` or `WriteCancelled`. `call[c]` says where caller `c` is. `Read` is `ReadAsync` with
the hand-over of the free slot to the first waiting writer, which the channel does under its own lock; `CountDown` is
the decrement after it. The loop's `pc` follows `ExecuteAsync`: `reading`, `counting`, `checking` (the two guards),
`handling`, then `requeueing` or `poisoning` inside `HandleConsumeFailureAsync`. The retry uses the same
`EnqueueAsync` operators with `Subscriber` as the caller and `stoppingToken` as the token, so it is cancelled only
when the host stops. `awaited` is a `PublishAsync` that the running handler awaits. `retryCount` is kept per `Headers`
object, as in the code, and `HeadersOf` may give one object to several events. `failures` and `outcome` are history,
read by the properties only.

*RabbitMQ.* `SubscribeEvent` is one round of the loop in `SubscribeEventsAsync` (declare, bind, consume);
`AttachConsumer` is the assignment after it; `SubscribeFails` is a refused declaration, on which the host does not
start. A slot is one unacknowledged delivery that the prefetch count lets a consumer hold, so several callbacks of a
process run at once. `Deliver`, then `SkipNoConsumer`, `HandlerReturns` or `HandlerThrows`, then `Republish`,
`RepublishDropped` or `RepublishThrows`, then `Answer`. `RepublishDropped` and `PublishDropped` are an awaited publish
that has returned and whose message is lost with its connection. They need `PublisherConfirms` to be FALSE, which it is
in all runs, since the connection string of `RabbitMqConnectionProvider` (lines 21-22) asks for no confirms; `vanished`
is the history of what they lost. `live` is FALSE once the broker has taken the delivery back: the handler runs on,
and its answer is void. `Copies` carry the routing key and the retry-count header, the two things the code reads from
a delivery. `Resolve` and `OrDefault` are the lookups in the options, with the publisher's missing default; `DeadLetterOf` looks up
exchange and queue independently and needs both.

*Dispatch.* `StartExecutor` to `CatchEnds` are `ExecuteHandlerAsync`; `ExceptionHandlerReturns` and
`ExceptionHandlerThrows` are one round of `ExceptionHandlerInvoker.ExecuteAsync`; `InvokeAsync` and `InvokeEnds` are
the call itself, with `Parallel.ForEachAsync` when there are several executors. `Ack`, `DropCancelled`, `Retry` and
`Poison` are what the two transports make of its result; `DropCancelled` is the in-memory one only, and a weakness of
it: see 4. `Cached` is the lookup in `CachedHandlers`.

*Subscriptions.* The fluent calls of a profile's constructor are `ToDo` and `CatchExceptionToDo`
(`CatchExceptionTwice` is the `ArgumentException`). The manager's dictionaries are kept as the sequence of calls it
has taken over, which gives the list of each event and the order of the keys; `AppendNew` is the loop that adds to a
list what is not there yet. `Initialize` and `RegisterAll` are
operators shared by start-up (`InitializeManager`) and by `Generate`; `Accepted` is how far `Register` gets before it
throws. `boot` follows the host, `request[r]` follows one call of `Generate`, cut where `PrepareXmlComments` sets its
flag and where it is done. One of the flows is the provider's: its `Lazy` runs `Generate` once and keeps what comes of
it. A wire name is its parts and version.

*Names.* `SplitPascal` is the loop of the same name as a recursive function over the positions of the name, with
`StartsWord` for its condition; `ConventionalName` and `EventKey` are `BuildConventionalName` and `GetEventKey`.
Characters are model values, told apart as capitals, small letters, digits and others. `SplitsAsRead` compares with a
definition that knows nothing of the loop: the cuts into the fewest pieces that are words.

*Publishing.* `PublishAsync` is the code from the call up to the call of the transport, which awaits nothing; a
serialization error leaves it with id and time written (`SerializeThrows`). `PublishEventAsync` and
`PublishEventThrows` are the transport's answer. `way` says which `Headers` a publication passes: none, an object that
others may pass too, or the one a handler received. Guids and times are told apart by the call that made them.
`object` is the identity of the `Headers` that in-memory messages share with their publisher; RabbitMQ messages carry
a copy (`contents`). The consumer, which drops the message ids it knows, is external: it is what the documentation
asks of handlers.

## 3. What the runs check

All runs have `CHECK_DEADLOCK FALSE`: a host that has stopped, a bus that is drained and nobody publishes to, and an
event that has ended really do nothing more.

| Run | Question | Bounds |
|---|---|---|
| `in_memory` | no event lost, duplicated, retried too often; the counter's exact meaning; FIFO; the life of an event; when the loop can wait for itself; everything accepted is run to an end, every publish comes back, the loop stops with the host | 4 events (3 subscribed, 2 sharing a `Headers`), capacity 2, alert at 2, 1 retry; 166,225 states |
| `rabbit_safety` | nothing lost but by an unconfirmed publish, nothing duplicated without a fault, nothing given up too early; the life of a message | 2 processes, 2 queues, 2 messages (one routed to both queues), 3 slots, 1 retry, 1 fault; 481,498 states |
| `rabbit_liveness` | everything sent to a queue is settled, or was lost by an unconfirmed publish | 3 processes on a queue, one of which may fail to start, 2 faults; 32,208 states |
| `dispatch` | ack, retry and cancellation against what each handler did; nothing goes in circles; the life of an event | 3 executors (one of a type the container does not know), 2 at once, 2 exception handlers, 1 retry; 12,015 states |
| `subscriptions` | name, type, executors and delegates agree through start-up, repeated initialization and collisions; what documents show and the provider keeps; how names are cut | 2 profiles, 3 types (two with one short name, two with one wire name), 2 handlers, 3 fluent calls, 2 document requests, one of them the provider's; names of up to 5 characters over 4; 306,917 states |
| `publishing` | what the message id and the trace context mean to a consumer | 2 publications, each with every way to pass `Headers`, 2 calls and 2 deliveries of each, both transports; 460,794 states |

and six runs that refute a statement of the documentation (section 4).

**`in_memory`.** `EventInOnePlace` is conservation: an accepted event that has not ended is in the line or in the
loop's hands, never in both, never twice; a drop before start-up is over and being left in the line at shutdown are
ends it allows. `PendingAccounting` says what `_pendingCount` really counts, leaks
included, which is what the alert is compared with. `RetryBudget` bounds the failures, and says that an event with its
own `Headers` is poisoned after exactly `MaxRetryCount + 1` of them. `WedgeNeedsOverload`: the loop can wait for its
own queue only when more events are unfinished than the queue holds. `WedgeIsPermanent`: then only the shutdown of the
host ends it. `ImplementsFifo` is the refinement of `BoundedFifo`, with `line <- Backlog`: channel and waiting writers
are one line. `ImplementsEventLife` is the refinement of `EventLife` by what the properties call history: each event is
refused before any try, or tried within its budget and ended once, whoever shares the queue and the `Headers` with it.
An event that has ended, a rejected publish included, is therefore never delivered again (`SettledIsFinal`, which has a
theorem and no run of its own).

Its liveness: `DeliveredOnceReady` and `PublishReturns` hold *unless the loop waits for its own queue or the host
stops*. The first exception is a finding (below), the second is shutdown. `StopEndsLoop`: when the host stops, so does
the loop, a wedged one too, unless a handler that awaits its own `PublishAsync` with another token keeps it.

**`rabbit_safety`.** `TypeOK` includes that a delivery is republished only while retries are left
(`RepublishHasRetries`), so that the header of the copy stays within the limit. `NothingLost`: whatever faults there
are, only an unconfirmed publish loses a message, and in particular the window between the republish and the ack does
not, once the broker has the copy. With confirms that would be at-least-once; the code has none, and `rabbit_confirms`
shows what that means.
`NoFaultNoDuplicate` is exactly-once without faults: the copies in a queue, the deliveries that the broker would take
back and the ends of a message are one in number, retries and requeues of an unattached consumer included.
`GivenUpAfterAllTries` relates giving up to the number of failed deliveries, on copies that crashes have multiplied; it
does not say that handlers ran in them, and on a retry they do not (`rabbit_retry`).
`LivesUntilFault` is the refinement of `EventLife` by a message in a queue, up to the first fault: a failure is counted
once, in the header of one copy, and nothing runs for a message that has ended. After a fault two copies of a message
may run, which at-least-once allows and `EventLife` does not.

**`rabbit_liveness`.** `EventuallySettled`: whatever was sent to a queue is handled, parked or given up, unless an
unconfirmed publish lost it or every process that reads the queue fails to start.

**`dispatch`.** `AckNeedsEveryExecutor`, `NothingRunsBetweenAttempts`, `HandledFailureCancelsNobody`,
`CancellationHidesNoFailure` and `EventEnds`, each as its comment in the module says. `EveryStepUsesUp` is what
`EventEnds` rests on: every step takes something from a finite stock (`Ahead`: steps by attempt and executor) and puts
nothing back. `ImplementsEventLife` is the
same abstract specification that the in-memory transport implements: what that module takes for a free choice (a
handler run returns, throws or is cancelled) is what the invoker makes of its executors, so the two meet in
`EventLife` and neither has to be run inside the other.

**`subscriptions`.** `RegistryInverse` holds also after an `Initialize` that threw half-way. `DispatchFindsHandlers`
follows a name from the transport to a type, its executors and their delegates, although the cache is filled once.
`InitializedOnce`: a document generated at any time changes nothing of what is dispatched. `HostFailsOnlyOnCollision`:
the host fails exactly when two subscribed types have one name. `DocumentCoversEvents`: the document is complete
without a started host. `UndescribedOnlyInPreparation`: what the flag that is set too early can do, and no more.
`ProviderServesCurrent`: what the provider's `Lazy` keeps, made before, during or after the start of the host, is what
any later request would get, and it keeps an exception only for a collision or an unreadable file. `NameKept`: a type
published before anything is registered goes out under the name that is subscribed to later. `NamesSplitAsRead`: every
name of up to five characters is cut into the words one reads in it, at its ends too.

**`publishing`.** The `TypeOK` of this module says that nothing is on the wire without id and time. `NoFalseDuplicate`
and `ProcessedOnce` are the two sides of the advice to deduplicate by message id: no event with `Headers` of its own
is dropped unprocessed, and none is processed twice, however often its caller tries again after a broker took a
message and the call threw all the same. A caller that passes no `Headers` gets an id for each try, and the bound says
so. `TraceFollowsPublish`: a consumer's span is a child of the call that sent this message.

**Why the bounds are enough.** A capacity of 2 with 4 publishers fills the channel, blocks two writers at once (so
that order among them matters) and lets the loop's retry be one of them; the alert at 2 makes `OnAlert` due for some
callers and not for others. One retry separates "below", "at" and "past" the limit. Two events that share `Headers`
beside two that do not separate the per-object budget from a per-event one. Two queues, one with a dead letter and one
without, exercise both ends of a nack. One fault suffices for each window between two steps of a callback;
`rabbit_liveness` has two, and `rabbit_retry` none, so that what it shows needs no fault. Two publications are a pair that shares an object or of which one forwards the other's; two
calls and two deliveries are a repetition of each kind. Five characters hold an acronym, a word and what is between
them. Three executors of which two run at once give a body that is never started because another failed. The bounds
that the specifications add to the code are `MaxFaults` (crashes, lost connections, lost publishes and failed republishes together),
`MaxCalls` (fluent calls), `MaxName` (length of a name), `MaxAttempts` and `MaxDeliveries` (calls of `PublishAsync`
for one event, deliveries of one message); failures and runs are bounded by the retry limit and the faults.

**Fairness.** `InMemoryBus` assumes weak fairness of the loop and of each publisher's `EnqueueAsync`: the thread pool
runs a continuation that is ready, and handlers and callbacks are assumed to end. Nothing forces anyone to publish,
cancel or throw, nor the host to stop, nor start-up to finish (the property assumes it did). `RabbitMqBus` assumes
weak fairness of each process's start-up and of each slot: the broker delivers to a free consumer, and callbacks end.
A crashed process is started again by its supervisor; a failed start is not retried. `HandlerDispatch` assumes it of
each executor and of the transport. No strong fairness is used.

**Mutants.** Each property of a passing run is broken by a small change of the model, of the kind a bug in that code
would be (an off-by-one in a limit, a forgotten increment or decrement, an ack before the republish, a requeue beside
it, a waiter passed over). They stand in the modules under "Mutated form", before the definition they change.

## 4. Disagreements between code and documentation

| Run | What TLC shows |
|---|---|
| `in_memory_wedge` | The loop re-enqueues a failed event into the channel that only it reads. If publishers have filled the channel, the loop waits for itself, and every later publisher behind it, until the host stops. A handler that awaits `PublishAsync` on a full queue does the same. |
| `in_memory_cancelled` | An `OperationCanceledException` that leaves a handler (an HTTP time-out is one) ends the event: no retry, no poison callback. |
| `rabbit_confirms` | The bus is opened without publisher confirms, so the await of the republish may end before the broker has the copy. The delivery is acked, the connection is lost with the copy, and a message that failed once is gone: no retry, no dead letter. A first publish can be lost in the same way. |
| `rabbit_retry` | The retry is published with the queue name as routing key, the consumer reads the event name from the routing key, and the registry does not know it: the handlers never run again, the remaining tries are used up, and the dead letter carries the queue name. |
| `rabbit_dead_letter` | Events share a queue by default, which is declared once per event with that event's dead letter; a per-event dead letter makes the second declaration fail, and the host does not start. |
| `dispatch_methods` | Delegates are cached by handler type: of two methods of one class subscribed to one event, the first runs twice and the second never. |

Others that no run of their own shows:

- The in-memory loop runs before it is subscribed and before the dispatcher is attached. An event that a profile
  subscribes, published in between, is read, warned of and dropped (`InMemoryEventSubscriber.cs:82` and `87`), although
  its `PublishAsync` has returned and `docs/eventbus-routing.md:42` promises at-least-once; the RabbitMQ consumer
  requeues in the same place. `DeliveredOnceReady` begins when start-up is over.
- `docs/eventbus-routing.md:30-31` gives all events the exchange `eventbus.topic` by default. The subscriber has that
  default, the publisher throws without an exchange (`RabbitMqEventPublisher.cs:61`): with the options left as they are
  no event is published.
- `PublishAsync` keeps a message id that is there, so two events published with one `Headers` object, or by a handler
  with the one it received, have one id, and a consumer that follows the advice to deduplicate by it drops the second
  (`NoFalseDuplicate` and `ProcessedOnce` say what remains true).
- A `PublishAsync` that is cancelled or whose `OnAlert` throws leaves `PendingCount` (`BackgroundQueue.cs:88`) one too
  high for good, and the alert with it: `PendingAccounting` counts these calls, as the code does.
- `docs/eventbus-routing.md:25-26` names `OrderPaymentCreated` in `Acme.Order` `order.orderpayment.created.v1`;
  `BuildConventionalName` joins every word with a dot: `order.order.payment.created.v1`.
- The retry counter is in the caller's `Headers`; two events published with one object share one retry budget
  (`RetryBudget` says what remains true: see its case for events with `Headers` of their own).
- `SubscriptionProfile.cs:45` promises an `ArgumentException` for a handler registered twice. `AddToDictionaryList`
  compares executors by reference and every `ToDo` makes a new one, so it comes only for error handlers; the handler
  runs twice.
- Messages and schemas of the document are keyed by the short type name, so of two events that share it one payload
  schema remains (`DocumentCoversEvents` claims the event's own schema only without such a clash).
- `PrepareXmlComments` sets its flag first: a request beside the first one, and every request after a failed one, gets
  a document without descriptions.

Each run's disagreement is listed under "findings" in `PROJECT.json` with the quoted line. That a lost connection or a
crash can deliver a message twice is no disagreement: the documentation promises at-least-once.

## 5. What is proved

In-memory, for every finite set of events and of callers, every capacity, alert threshold and retry limit, and every
sharing of `Headers`:

- `TypeCorrect`: `Spec => []TypeOK`. In particular `retryCount \in [HeaderObjs -> 0..MaxRetry]`: no sharing of
  `Headers` takes the header past the limit.
- `WaitingMeansFullAlways`: `Spec => []WaitingMeansFull`. The channel stays within capacity, writers wait only while
  it is full, and those that wait are exactly the blocked calls.
- `EventInOnePlaceAlways`: `Spec => []EventInOnePlace`, the conservation property.
- `SettledIsFinalAlways`: `Spec => SettledIsFinal`, an action property: an event that has ended stays ended.
- `RetryBudgetAlways`: `Spec => []RetryBudget`, for any sharing of `Headers`.
- `WedgeIsPermanentAlways`: `Spec => WedgeIsPermanent`: nothing but the shutdown of the host ends a wedged retry.
- `ImplementsFifoAlways`: `Spec => ImplementsFifo`: channel and waiting writers refine `BoundedFifo`.
- `ImplementsEventLifeAlways`: `Spec => ImplementsEventLife`: every event leads the life of `EventLife`.
- `PendingAccountingAlways`: `Spec => []PendingAccounting`: what the counter counts, leaks included.
- `WedgeNeedsOverloadAlways`: `Spec => []WedgeNeedsOverload`: a wedge takes more unfinished events than the queue
  holds.

RabbitMQ, for every set of processes, consumers, queues, exchanges and messages, every option, retry limit and number
of faults:

- `TypeOKAlways` (`RabbitMqProofs`): `Spec => []TypeOK`; the retry-count header never passes the limit.
- `NothingLostAlways`: `Spec => []NothingLost`: nothing but an unconfirmed publish loses a message.
- `ConfirmsKeepAtLeastOnce`: at-least-once for a bus opened with publisher confirms. It is what the code would have with
  `publisherConfirms=true` in its connection string, and does not have as it stands.
- `NoFaultNoDuplicateAlways`: `Spec => []NoFaultNoDuplicate`, exactly-once until the first fault.
- `GivenUpAfterAllTriesAlways`: `Spec => []GivenUpAfterAllTries`: a message is given up only after `MaxRetry + 1` failed
  deliveries, on whatever copies the faults have made. A delivery fails also when its routing key is unknown.
- `LivesUntilFaultAlways`: `Spec => LivesUntilFault`, the third implementation of `EventLife`.

Dispatch, for every list of executors, number of exception handlers, degree of parallelism and retry limit:

- `TypeOKAlways`, `AckNeedsEveryExecutorAlways`, `NothingRunsBetweenAttemptsAlways`,
  `HandledFailureCancelsNobodyAlways` and `CancellationHidesNoFailureAlways`: `Spec => []P` for the five invariants of
  those names.
- `ImplementsEventLifeAlways`: `Spec => ImplementsEventLife`, the second implementation of `EventLife`.
- `EveryStepUsesUpAlways`: `Spec => EveryStepUsesUp`. With fairness, which is left to TLC, an event therefore ends.

Subscriptions, for all types, names, profiles, handlers and requests, and any number of fluent calls:

- `TypeOKAlways`: `Spec => []TypeOK`. In particular no type has two names and no name two types in the registry, also
  after a `Register` has thrown.
- `RegistryInverseAlways` and `NameKeptAlways`: both dictionaries agree, and a type has one name for life.
- `InitializedOnceAlways`: `Spec => InitializedOnce`, an action property: a second `Initialize` changes nothing.
- `HostFailsOnlyOnCollisionAlways`, `DispatchFindsHandlersAlways`, `DocumentCoversEventsAlways` and
  `ProviderServesCurrentAlways`: `Spec => []P` for the four invariants of those names.
- `UndescribedOnlyInPreparationAlways`: `Spec => UndescribedOnlyInPreparation`, an action property.

Names, for any alphabet and names of any length (`EventNamesProofs`; the run stops at five characters):

- `EveryNameSplitsAsRead`: every name that is not empty is cut into the fewest words it can be read in, and there is no
  other way of so few. `NamesSplitAsReadAlways` is the property of the run, for any bound.
- `SplitPascalKeepsName`: the words, joined, are the name. No character is lost, doubled or moved.
- `SplitPascalWords`: there is at least one word, none is empty, and each is a word as one reads it.
- `ConventionalNameHasAction`: so a conventional name always has its three parts. The branch of `BuildConventionalName`
  for a name without words (`EventNameRegistry.cs:98`) is never taken, as no CLR type has an empty name
  (`NamesAssumption`).

Publishing, for any publications, in any combination of ways to pass `Headers`, any number of calls and deliveries:

- `TypeOKAlways`, `NoFalseDuplicateAlways`, `ProcessedOnceAlways` and `TraceFollowsPublishAlways`: all four properties
  of the run.

Assumptions: `QueueAssumption` and `BusAssumption`, which say only that the sets are finite, the sentinels are not
events, and the options have their types (a capacity of at least 1 is what the channel itself demands). TLC evaluates
them on every in-memory run. `DispatchAssumption` says that the executors are a non-empty sequence; `RabbitAssumption`
gives the options their types, keeps the stand-ins for "none" apart, and has finitely many messages and slots;
`NamesAssumption` and `SubscriptionsAssumption` type the characters and the bounds; `PublishingAssumption` says that
the bounds are positive and that "no header" is no header's value.

In-memory, the argument has two layers. `ControlInv` = `TypeOK`, `QueueInv`, `LoopControl`, `CallsCarryTheirEvent` is
inductive by itself. It is needed because `TypeOK` alone is not: `current' = Head(channel)` has its type only if the
channel is typed, `payload[Head(blockedWriters)]` is an event only if waiting writers carry one, and the retry carries
`current` only if the loop's call and its `pc` agree. `LineInv` = `EventInOnePlace`, `LoopHoldsEvent`,
`OutcomeFitsCall` is inductive relative to the first: that an event leaves one place when it enters the other needs
that what the loop holds was written and has not ended, and that an event has ended only if its call has. The queue's
operations are lemmas of their own (the first part of `InMemoryBusProofs`): each says what it does to the line as a
whole (`Backlog` unchanged, appended to, its head gone, one element from behind the admitted ones gone), so that the
bus's proofs never look inside the channel. `ReadStep` is the central one: although the first waiting writer moves
from one sequence to the other, the line just loses its head.

`InMemoryOutcomeProofs` uses both layers twice. `EveryStepIsOutcomeStep` reduces each action to what it does to
outcomes, failures and headers; finality follows at once, and `FailuresRaiseRetryCount`, which `RetryBudget` needs to
be inductive (a failure either raises the header or ends the event), from the same five cases. `EveryStepIsLineStep`
reduces each action to what it does to the line; that what joins is not in it already comes from `EventInOnePlace`,
that who withdraws has not been admitted from `WriteCancelledStep`. The wedge is permanent because `LoopControl`
leaves no step to a loop that is in its own `EnqueueAsync`.

`DispatchInv` is inductive in one layer: `StartedInOrder` (an executor waits exactly if it comes after those started),
`FaultRecorded` (who faulted, whether the token is cancelled and whose exception was first agree), `TokenAnswered`
(nobody answers a token that is not cancelled, so the first exception is no such answer) and `ReturnedMeansDone`. The
types it carries leave out the methods that have run. `TypeOK` needs them, and for them that the cached delegate of an
executor exists: the one of the least position with the same handler type. That there is a least position comes from
`WFMin` for the order of the naturals.

`ImplementsEventLife` adds `FailedInService` in memory (only an accepted event of a subscribed name has failed, and
only when the bus was ready), without which an event could be refused after a try. `PendingAccounting` follows step by
step from the cardinalities of the calls that have not written and of the retries that were lost; `WedgeNeedsOverload`
from the line: what a wedge holds and what fills the channel are different events, all of them in transit.

RabbitMQ has three layers. `TypeOK` is inductive because it includes `RepublishHasRetries`, without which the header of
the copy would have no type. `NothingLost` is inductive relative to it, message by message: every step either leaves
the place of a message alone, or adds to the next place before it leaves the last, because `HandleConsumeFailureAsync`
acks after it has published, or else puts the message into `vanished`, which only grows. With confirms `vanished` stays
empty. `TriesCounted` says that each header is backed by as
many failed deliveries, which faults can only raise. `CalmUntilFault` holds until the first fault: the broker waits
for every delivery, a process that has not attached its consumer only requeues, and every message is `Located`: in one
copy, in one delivery or at one end, with exactly the failures that its header shows. That single disjunction is what
`NoFaultNoDuplicate` (a cardinality of one) and the second half of `GivenUpAfterAllTries` need to be inductive. From it
`LivesUntilFault` follows as well: only `HandlerReturns` and `HandlerThrows` touch what the life of a message consists
of, and the slot that takes such a step is the one place of its message, which has therefore not ended, and whose
header is the number of its failures.

In `PublishingProofs` every step is first reduced to four shapes (`StepShape`): a call starts, sends its message, ends
without one, or a message is delivered. `TypeInv` adds `Stages`, which says what each stage has behind it. `Private`
then says that until the first message of an event with `Headers` of its own has been processed, nobody else has its
object or an id made for it; only processing lets a handler pass them on. `OneIdInv` says that a caller's object keeps
one id, which the consumer knows as soon as it has processed a message with it, and that what a handler forwards
carries an id that is known already. `IdsMade` and `Counted` bound what a caller without `Headers` can cause by its
calls: a processed message has used up one id, and there is one for each call. `TraceInv` is the same kind of privacy
for the trace context.

`EveryStepUsesUp` adds no invariant. Each action lowers the count of one executor, or of the invoker, by one or more and
leaves the rest; a retry starts the next attempt, whose full stock was there from the beginning, and gives up what is
left of this one. What is left after the step is therefore a proper part of what was left before.

Loops are proved about in `EventNamesProofs`. `AppendNew`, `FlattenSeq` and the loop of `SplitPascal` are recursive
functions; `Recursion` shows that such a loop has values and `Induction` what they are, both by the least number outside
a set (`WFMin`), since induction over a predicate is out of the provers' reach. Of a list only its elements matter then
(`AppendNewFacts`, `FlattenSeqFacts`), and that nothing is appended when everything is there.

For names, `SplitPascalLoop` and `SplitPascalPieces` say what the loop computes: the pieces of the name at exactly the
positions where `StartsWord` holds. Such a piece is a word, so these cuts are a reading; and a position where
`StartsWord` holds is cut in every reading, since no word reads on across it, so every reading has these cuts and any
other has more. Hence the fewest, and one way only. `Pieces` is put together by rank (the k-th cut is the one with k
cuts up to it), which is what lets a set of cuts and a sequence of words be compared.

In `SubscriptionsProofs` `AcceptedFacts` says where a run of `Register` ends. `InitializeStep` joins it with the lists:
from an empty manager `Initialize` leaves it `Filled` (all calls, and the registry up to the first type that clashes),
from a filled one it changes nothing, and it throws exactly when two types
collide. `ManagerInv` says that the manager is always one or the other, and empty while profiles still make calls;
`HostInv` and `DocumentInv` are what each stage of the host and of a request adds, kept through the steps of the
others because of `Settled`. The registry alone needs less: whatever the order, `Register` adds both entries or throws
before it adds either; `NamesRight` says a registered name is the one made up on the spot, and `Preparation` that a set
flag means loaded, being loaded, or broken.

Every invariant and every action property of a passing run is stated by one of these theorems. Only model-checked is
liveness: `DeliveredOnceReady`, `PublishReturns`, `StopEndsLoop`, `EventuallySettled` and `EventEnds` need fairness and
ENABLED, which are outside this prover's reach (`EveryStepUsesUp` is the part of the last that is not). The six runs of
section 4 refute a property on an instance and prove nothing further.

## 6. Modelling decisions

- A retry-count header set by the caller before publishing and a negative `MaxRetryCount` are left out.
- In-memory, a read that blocks on an empty channel and is then given an event is the same as a read that begins when
  the event is there. Cancelling it at shutdown is `LoopEnds`.
- `Subscribed` says which events' names some profile subscribes to; a handler that fails because deserialization fails
  or the type is unknown is `HandlerThrows` all the same.
- RabbitMQ: without publisher confirms an awaited publish may be lost with its connection, and one that throws may have
  reached the broker. Which of the two happens is decided when the copy is sent; one that arrives late is one that is
  delivered late. EasyNetQ publishes and consumes on connections of their own, so a copy can be lost while the ack goes
  through. A first publish that throws is an action of `Publishing`. Delivery order is left open. When the callback
  throws, EasyNetQ's error strategy parks the message in its error queue or requeues it. A graceful
  `Dispose` is a `Crash` with nothing running. Dead-letter queues are not consumed by the bus, so what reaches the
  dead-letter exchange ends there. Exchange options are shared by all processes, queue and dead-letter options are per
  process.
- Declaring, binding and consuming one event are one step: between them nothing of the system but a crash could tell
  the difference, and the declarations and bindings that it leaves behind are idempotent.
- `Parallel.ForEachAsync` starts bodies in order, at most `Degree` at once, cancels the shared token on the first
  exception and rethrows the first; this is its documented contract.
- Dispatch: the token that handlers see is cancelled by a sibling's failure only, since the transports pass none.
- Subscriptions: `Initialize` is one step. Two first calls at the same time, on a dictionary without a lock, are left
  out: the server takes requests when the host has started, and a repeated call only reads. A document is built in one
  step from what the manager holds. Once a constructor of a profile has thrown, neither the host nor the generator can
  be resolved.
- Publishing: a `Headers` object in the hands of two threads at a time (an unsynchronized dictionary) is left out;
  each call of `PublishAsync` up to the transport is one step of one thread. A call that throws may have left its
  message with a broker, not in the in-memory channel. An event counts as processed when its handler has returned.
- Names: the branch of `BuildConventionalName` for a name without words is left out, and proved to be dead. Closed
  generics of one definition share `Type.Name`, as types of one short name do in the model. Only the
  lower-casing of a character is kept of culture.
- The `OnAlert` and `OnPoisonMessage` callbacks return or throw; that they publish events themselves is left out, as is an
  exception from disposing the service scope of a delivery, which would be one more way for a handler run to fail.
- A handler's effect on the application's own data is not modelled.

### Not modelled

| Part | Why |
|---|---|
| `RabbitMqConnectionProvider`, but for `PublisherConfirms`, and its registration | one `Lazy` value and a disposal; EasyNetQ reconnects on its own, and a connection that cannot be made is a host that does not start |
| Cache of declared exchanges in the publisher and subscriber | saves a call that is idempotent |
| Servers, examples, headers schema and JSON writer of the document | copy options and reflection data into the document; nothing reads them back |
| Correlation id, parsing of a malformed time | passed through; a caller's mistake gives a default |
| Serialization | a call of `System.Text.Json` without state; its failure is an action of `Publishing` and a failing handler elsewhere |
| Metrics counters, activity tags, OpenTelemetry registration | written and never read by the bus; the trace context that travels is in `Publishing` |
| DI builders and the scan for handlers | container registration at start-up, once, in one thread; its outcome is a constant of the models |
| Tests, benchmarks, stress tests, samples | programs that use the library, read as its documentation; the only scripts among them are vendored plug-ins and a web template's `site.js` without statements |

The library itself is C#, some 3,970 lines without tests, benchmarks and samples. The definitions of the models stand
for about 1,370 of them in 21 files: nearly all of `BackgroundQueue`, `InMemoryEventSubscriber`,
`RabbitMqEventSubscriber`, `DefaultEventHandlerInvoker`, `EventNameRegistry`, `Headers` and `AbstractEventPublisher`.
The rest is interfaces, options, registration and what the table above lists.

## 7. Plan

Done, in order of importance: the in-memory transport with its abstract queue; the RabbitMQ transport over an external
broker; dispatch; subscriptions with names and the document provider; the envelope; the abstract life of an event,
which joins dispatch and both transports; and the theorems of section 5, which cover every property of the passing runs
but liveness.

What could follow: a stock like `Ahead` for the in-memory transport and for RabbitMQ up to the last fault, so that there
too only fairness is left to TLC; and two first `Initialize` calls at once, should the code ever allow requests before
the host has started.
