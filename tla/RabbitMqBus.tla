---------------------------- MODULE RabbitMqBus ----------------------------
(***************************************************************************)
(* The RabbitMQ transport: publishers, and processes that subscribe their  *)
(* queues, consume, retry by publishing a copy back to the queue before    *)
(* acknowledging the delivery, and give up without requeue.                *)
(*                                                                         *)
(* Handlers succeed or fail as they like.  A connection may be lost (the   *)
(* broker takes back what it has not seen acknowledged, the handlers run   *)
(* on), a publish may be lost on the way, and a process may crash and      *)
(* start again, MaxFaults times in all.                                    *)
(*                                                                         *)
(* An awaited publish has reached the broker only if the bus was opened    *)
(* with publisher confirms; RabbitMqConnectionProvider opens it without.   *)
(* Whether a copy is lost is decided when it is sent: one that arrives     *)
(* late is one that is delivered late.                                     *)
(***************************************************************************)
EXTENDS RabbitMqBroker

CONSTANTS
    Processes,           \* the processes that subscribe
    Subscribes,          \* the event names the profiles of each process subscribe
    ExchangeBindings,    \* RabbitMqBindingOption.ExchangeBindings, shared by all
    GlobalExchange,      \* .GlobalExchange
    DefaultExchange,     \* "eventbus.topic"
    QueueBindings,       \* .QueueBindings of each process
    GlobalQueue,         \* .GlobalQueue of each process
    DefaultQueue,        \* "{service}.{environment}" of each process
    DeadLetterExchangeBindings, GlobalDeadLetterExchange,  \* of each process
    DeadLetterQueueBindings, GlobalDeadLetterQueue,        \* of each process
    Blank,               \* an option left empty
    PublisherConfirms,   \* publisherConfirms of the connection string: FALSE
    NameOf,              \* the event name of each message
    Slots,               \* the unacknowledged deliveries a consumer may hold
    ProcessOf,           \* the process and the event name whose consumer
    EventOf,             \* each slot belongs to
    MaxFaults

VARIABLES
    boot,      \* "subscribing", "attached" or "failed", for each process
    consumers, \* <<process, event name>>: consumers that are running
    work,      \* the delivery in each slot
    sent,      \* how PublishAsync ended for each message
    routed,    \* <<queue, message>>: what publishers have sent to the queues
    vanished,  \* <<queue, message>>: what was lost by a publish that had returned
    handled,   \* <<queue, message>>: what some handler run has succeeded on
    parked,    \* <<queue, message>>: what EasyNetQ put into its error queue
    runs,      \* how many times the handlers of a process ran for <<queue, message>>
    failures,  \* how many deliveries of <<queue, message>> failed
    faults     \* how many faults there have been

busVars == <<boot, consumers, work, sent, routed, vanished, handled, parked, runs, failures, faults>>
vars == <<declared, bindings, ready, deadLettered, dropped,
          boot, consumers, work, sent, routed, vanished, handled, parked, runs, failures, faults>>

Entries == Queues \X Messages

\* Where the consumer's callback is; the last three are the answers it returns.
Steps == {"received", "republishing", "Ack", "NackWithRequeue", "NackWithoutRequeue"}

\* "live": the broker still waits for the answer to this delivery.
Deliveries == [copy : Copies, live : BOOLEAN, step : Steps]
Free == [copy |-> None, live |-> FALSE, step |-> "free"]

-----------------------------------------------------------------------------
(* RabbitMqBindingOption: the binding of the event, else the global one. *)

Resolve(theBindings, global, n) ==
    IF n \in DOMAIN theBindings THEN theBindings[n] ELSE global

OrDefault(value, default) == IF value = Blank THEN default ELSE value

PublishExchange(n) == Resolve(ExchangeBindings, GlobalExchange, n)
SubscribeExchange(n) == OrDefault(PublishExchange(n), DefaultExchange)
QueueOf(p, n) == OrDefault(Resolve(QueueBindings[p], GlobalQueue[p], n), DefaultQueue[p])

\* Only with both, an exchange and a queue.
DeadLetterOf(p, n) ==
    LET exchange == Resolve(DeadLetterExchangeBindings[p], GlobalDeadLetterExchange[p], n)
        queue == Resolve(DeadLetterQueueBindings[p], GlobalDeadLetterQueue[p], n)
    IN  IF Blank \in {exchange, queue} THEN None ELSE exchange

ASSUME RabbitAssumption ==
    /\ IsFiniteSet(Messages) /\ IsFiniteSet(Slots)
    /\ MaxRetry \in Nat /\ MaxFaults \in Nat /\ PublisherConfirms \in BOOLEAN
    /\ None \notin DeadLetters /\ Undeclared \notin DeadLetters \cup {None}
    /\ Subscribes \in [Processes -> SUBSET Names]
    /\ NameOf \in [Messages -> Names]
    /\ ProcessOf \in [Slots -> Processes]
    /\ EventOf \in [Slots -> Names]
    /\ \A n \in Names : /\ PublishExchange(n) \in Exchanges \cup {Blank}
                        /\ SubscribeExchange(n) \in Exchanges
    /\ \A p \in Processes, n \in Names : /\ QueueOf(p, n) \in Queues
                                         /\ DeadLetterOf(p, n) \in DeadLetters \cup {None}

SlotQueue(s) == QueueOf(ProcessOf[s], EventOf[s])
Entry(s) == <<SlotQueue(s), work[s].copy.id>>

-----------------------------------------------------------------------------

\* A delivery is republished only while retries are left: the header of the copy
\* stays within the limit.
RepublishHasRetries ==
    \A s \in Slots : work[s].step = "republishing" => work[s].copy.retry < MaxRetry

TypeOK ==
    /\ BrokerTypeOK
    /\ boot \in [Processes -> {"subscribing", "attached", "failed"}]
    /\ consumers \subseteq Processes \X Names
    /\ work \in [Slots -> Deliveries \cup {Free}]
    /\ sent \in [Messages -> {"new", "published", "rejected"}]
    /\ routed \subseteq Entries
    /\ vanished \subseteq Entries
    /\ handled \subseteq Entries
    /\ parked \subseteq Entries
    /\ runs \in [Entries -> Nat]
    /\ failures \in [Entries -> Nat]
    /\ faults \in 0..MaxFaults
    /\ RepublishHasRetries

Init ==
    /\ BrokerInit
    /\ boot = [p \in Processes |-> "subscribing"]
    /\ consumers = {}
    /\ work = [s \in Slots |-> Free]
    /\ sent = [m \in Messages |-> "new"]
    /\ routed = {}
    /\ vanished = {}
    /\ handled = {}
    /\ parked = {}
    /\ runs = [x \in Entries |-> 0]
    /\ failures = [x \in Entries |-> 0]
    /\ faults = 0

-----------------------------------------------------------------------------
(* RabbitMqEventPublisher.PublishEventAsync *)

\* The publisher has no default for an empty exchange: it throws.
PublishRejected(m) ==
    /\ sent[m] = "new"
    /\ PublishExchange(NameOf[m]) = Blank
    /\ sent' = [sent EXCEPT ![m] = "rejected"]
    /\ UNCHANGED <<brokerVars, boot, consumers, work, routed, vanished, handled, parked, runs, failures, faults>>

\* The exchange is declared if this is its first use, then the message is
\* routed by its event name; mandatory is false, so it may reach no queue.
Publish(m) ==
    /\ sent[m] = "new"
    /\ PublishExchange(NameOf[m]) # Blank
    /\ LET qs == Bound(PublishExchange(NameOf[m]), NameOf[m])
       IN  /\ Put(qs, [id |-> m, key |-> NameOf[m], retry |-> 0])
           /\ routed' = routed \cup (qs \X {m})
    /\ sent' = [sent EXCEPT ![m] = "published"]
    /\ UNCHANGED <<declared, bindings, deadLettered, dropped,
                   boot, consumers, work, vanished, handled, parked, runs, failures, faults>>

\* PublishAsync returns, and the connection is lost with the message.
PublishDropped(m) ==
    /\ ~PublisherConfirms
    /\ sent[m] = "new"
    /\ PublishExchange(NameOf[m]) # Blank
    /\ faults < MaxFaults
    /\ faults' = faults + 1
    /\ LET lost == Bound(PublishExchange(NameOf[m]), NameOf[m]) \X {m}
       IN  routed' = routed \cup lost /\ vanished' = vanished \cup lost
    /\ sent' = [sent EXCEPT ![m] = "published"]
    /\ UNCHANGED <<brokerVars, boot, consumers, work, handled, parked, runs, failures>>

-----------------------------------------------------------------------------
(* RabbitMqEventSubscriber.SubscribeEventsAsync and EventSubscribeInitializer *)

\* One round of the loop: declare, bind, consume.
SubscribeEvent(p, n) ==
    LET q == QueueOf(p, n)
    IN  /\ boot[p] = "subscribing"
        /\ n \in Subscribes[p]
        /\ <<p, n>> \notin consumers
        /\ MayDeclare(q, DeadLetterOf(p, n))
        /\ declared' = [declared EXCEPT ![q] = DeadLetterOf(p, n)]
        /\ bindings' = bindings \cup {<<SubscribeExchange(n), n, q>>}
        /\ consumers' = consumers \cup {<<p, n>>}
        /\ UNCHANGED <<ready, deadLettered, dropped,
                       boot, work, sent, routed, vanished, handled, parked, runs, failures, faults>>

\* Every name is subscribed: InitializeAsync sets ConsumerReceived.
AttachConsumer(p) ==
    /\ boot[p] = "subscribing"
    /\ \A n \in Subscribes[p] : <<p, n>> \in consumers
    /\ boot' = [boot EXCEPT ![p] = "attached"]
    /\ UNCHANGED <<brokerVars, consumers, work, sent, routed, vanished, handled, parked, runs, failures, faults>>

\* The deliveries of p that the broker has not seen answered.
Unanswered(p, q, c) ==
    {s \in Slots : /\ ProcessOf[s] = p /\ SlotQueue(s) = q
                   /\ work[s] # Free /\ work[s].live /\ work[s].copy = c}

\* The broker makes them ready again.
TakeBack(p) ==
    ready' = [q \in Queues |-> [c \in Copies |->
                 ready[q][c] + Cardinality(Unanswered(p, q, c))]]

\* The process ends, with its consumers and whatever its handlers were doing.
ProcessEnds(p) ==
    /\ TakeBack(p)
    /\ consumers' = {x \in consumers : x[1] # p}
    /\ work' = [s \in Slots |-> IF ProcessOf[s] = p THEN Free ELSE work[s]]

\* The queue exists with another dead-letter argument: the declaration throws,
\* StartAsync fails and the host does not start.
SubscribeFails(p, n) ==
    /\ boot[p] = "subscribing"
    /\ n \in Subscribes[p]
    /\ <<p, n>> \notin consumers
    /\ ~MayDeclare(QueueOf(p, n), DeadLetterOf(p, n))
    /\ ProcessEnds(p)
    /\ boot' = [boot EXCEPT ![p] = "failed"]
    /\ UNCHANGED <<declared, bindings, deadLettered, dropped,
                   sent, routed, vanished, handled, parked, runs, failures, faults>>

-----------------------------------------------------------------------------
(* The callback of Consume *)

MoveTo(s, step) == work' = [work EXCEPT ![s].step = step]

Deliver(s, c) ==
    /\ work[s] = Free
    /\ <<ProcessOf[s], EventOf[s]>> \in consumers
    /\ Take(SlotQueue(s), c)
    /\ work' = [work EXCEPT ![s] = [copy |-> c, live |-> TRUE, step |-> "received"]]
    /\ UNCHANGED <<declared, bindings, deadLettered, dropped,
                   boot, consumers, sent, routed, vanished, handled, parked, runs, failures, faults>>

\* Mutated form: a delivery that comes too early is acked.
SkipNoConsumerAcks(s) ==
    /\ work[s].step = "received"
    /\ boot[ProcessOf[s]] # "attached"
    /\ MoveTo(s, "Ack")
    /\ UNCHANGED <<brokerVars, boot, consumers, sent, routed, vanished, handled, parked, runs, failures, faults>>

\* ConsumerReceived is still null.
SkipNoConsumer(s) ==
    /\ work[s].step = "received"
    /\ boot[ProcessOf[s]] # "attached"
    /\ MoveTo(s, "NackWithRequeue")
    /\ UNCHANGED <<brokerVars, boot, consumers, sent, routed, vanished, handled, parked, runs, failures, faults>>

\* GetEventType finds the routing key of the delivery in the registry, which
\* holds the names this process subscribes.
Known(s) == work[s].copy.key \in Subscribes[ProcessOf[s]]

HandlerReturns(s) ==
    /\ work[s].step = "received"
    /\ boot[ProcessOf[s]] = "attached"
    /\ Known(s)
    /\ runs' = [runs EXCEPT ![Entry(s)] = @ + 1]
    /\ handled' = handled \cup {Entry(s)}
    /\ MoveTo(s, "Ack")
    /\ UNCHANGED <<brokerVars, boot, consumers, sent, routed, vanished, parked, failures, faults>>

\* Mutated form: one retry too many.
AfterFailureOneMore(c) ==
    IF c.retry <= MaxRetry THEN "republishing" ELSE "NackWithoutRequeue"

\* Mutated form: one retry too few.
AfterFailureTooFew(c) ==
    IF c.retry + 1 < MaxRetry THEN "republishing" ELSE "NackWithoutRequeue"

\* GetRetryCount against MaxRetryCount.
AfterFailure(c) == IF c.retry < MaxRetry THEN "republishing" ELSE "NackWithoutRequeue"

\* Mutated form: the delivery is acked before the retry is published.
HandlerThrowsAcked(s) ==
    /\ work[s].step = "received"
    /\ boot[ProcessOf[s]] = "attached"
    /\ runs' = IF Known(s) THEN [runs EXCEPT ![Entry(s)] = @ + 1] ELSE runs
    /\ failures' = [failures EXCEPT ![Entry(s)] = @ + 1]
    /\ work' = [work EXCEPT ![s].step = AfterFailure(work[s].copy), ![s].live = FALSE]
    /\ UNCHANGED <<brokerVars, boot, consumers, sent, routed, vanished, handled, parked, faults>>

\* ConsumerReceived throws: the event name is unknown, or the handlers threw.
HandlerThrows(s) ==
    /\ work[s].step = "received"
    /\ boot[ProcessOf[s]] = "attached"
    /\ runs' = IF Known(s) THEN [runs EXCEPT ![Entry(s)] = @ + 1] ELSE runs
    /\ failures' = [failures EXCEPT ![Entry(s)] = @ + 1]
    /\ MoveTo(s, AfterFailure(work[s].copy))
    /\ UNCHANGED <<brokerVars, boot, consumers, sent, routed, vanished, handled, parked, faults>>

\* Mutated form: the header is copied as it is.
RetryCopyUncounted(s) == [work[s].copy EXCEPT !.key = SlotQueue(s)]

\* HandleConsumeFailureAsync publishes to the default exchange, whose routing
\* key is the name of the queue.
RetryCopy(s) ==
    [work[s].copy EXCEPT !.key = SlotQueue(s), !.retry = @ + 1]

\* Mutated form: the delivery is requeued as well.
RepublishAndRequeue(s) ==
    /\ work[s].step = "republishing"
    /\ Put({SlotQueue(s)}, RetryCopy(s))
    /\ MoveTo(s, "NackWithRequeue")
    /\ UNCHANGED <<declared, bindings, deadLettered, dropped,
                   boot, consumers, sent, routed, vanished, handled, parked, runs, failures, faults>>

Republish(s) ==
    /\ work[s].step = "republishing"
    /\ Put({SlotQueue(s)}, RetryCopy(s))
    /\ MoveTo(s, "Ack")
    /\ UNCHANGED <<declared, bindings, deadLettered, dropped,
                   boot, consumers, sent, routed, vanished, handled, parked, runs, failures, faults>>

\* The await returns, the connection that publishes is lost with the copy, and the
\* delivery is acked on the one that consumes.
RepublishDropped(s) ==
    /\ ~PublisherConfirms
    /\ work[s].step = "republishing"
    /\ faults < MaxFaults
    /\ faults' = faults + 1
    /\ vanished' = vanished \cup {Entry(s)}
    /\ MoveTo(s, "Ack")
    /\ UNCHANGED <<brokerVars, boot, consumers, sent, routed, handled, parked, runs, failures>>

\* The republish throws out of the callback, whether or not the broker has the copy;
\* EasyNetQ parks the message in its error queue and acks it, or, when it cannot,
\* requeues it.
RepublishThrows(s) ==
    /\ work[s].step = "republishing"
    /\ faults < MaxFaults
    /\ faults' = faults + 1
    /\ Put({SlotQueue(s)}, RetryCopy(s)) \/ UNCHANGED ready
    /\ \/ parked' = parked \cup {Entry(s)} /\ MoveTo(s, "Ack")
       \/ UNCHANGED parked /\ MoveTo(s, "NackWithRequeue")
    /\ UNCHANGED <<declared, bindings, deadLettered, dropped,
                   boot, consumers, sent, routed, vanished, handled, runs, failures>>

\* The answer reaches the broker; one to a delivery it has taken back is void.
Answer(s) ==
    /\ work[s].step \in {"Ack", "NackWithRequeue", "NackWithoutRequeue"}
    /\ IF work[s].live /\ work[s].step = "NackWithRequeue"
       THEN Put({SlotQueue(s)}, work[s].copy) ELSE UNCHANGED ready
    /\ IF work[s].live /\ work[s].step = "NackWithoutRequeue"
       THEN Discard(SlotQueue(s), work[s].copy)
       ELSE UNCHANGED <<deadLettered, dropped>>
    /\ work' = [work EXCEPT ![s] = Free]
    /\ UNCHANGED <<declared, bindings,
                   boot, consumers, sent, routed, vanished, handled, parked, runs, failures, faults>>

-----------------------------------------------------------------------------
(* Faults *)

\* EasyNetQ reconnects and consumes again; the handlers never notice.
ConnectionLost(p) ==
    /\ faults < MaxFaults
    /\ faults' = faults + 1
    /\ TakeBack(p)
    /\ work' = [s \in Slots |-> IF ProcessOf[s] = p /\ work[s] # Free
                                THEN [work[s] EXCEPT !.live = FALSE] ELSE work[s]]
    /\ UNCHANGED <<declared, bindings, deadLettered, dropped,
                   boot, consumers, sent, routed, vanished, handled, parked, runs, failures>>

\* The process dies and is started again.
Crash(p) ==
    /\ boot[p] # "failed"
    /\ faults < MaxFaults
    /\ faults' = faults + 1
    /\ ProcessEnds(p)
    /\ boot' = [boot EXCEPT ![p] = "subscribing"]
    /\ UNCHANGED <<declared, bindings, deadLettered, dropped,
                   sent, routed, vanished, handled, parked, runs, failures>>

-----------------------------------------------------------------------------

BootStep(p) ==
    \/ \E n \in Names : SubscribeEvent(p, n) \/ SubscribeFails(p, n)
    \/ AttachConsumer(p)

SlotStep(s) ==
    \/ \E c \in Copies : Deliver(s, c)
    \/ SkipNoConsumer(s)
    \/ HandlerReturns(s) \/ HandlerThrows(s)
    \/ Republish(s) \/ RepublishDropped(s) \/ RepublishThrows(s)
    \/ Answer(s)

Next ==
    \/ \E m \in Messages : Publish(m) \/ PublishDropped(m) \/ PublishRejected(m)
    \/ \E p \in Processes : BootStep(p) \/ ConnectionLost(p) \/ Crash(p)
    \/ \E s \in Slots : SlotStep(s)

Spec == Init /\ [][Next]_vars

\* Processes start up, the broker delivers and callbacks end; nothing makes
\* anyone publish.
FairSpec ==
    /\ Spec
    /\ \A p \in Processes : WF_vars(BootStep(p))
    /\ \A s \in Slots : WF_vars(SlotStep(s))

-----------------------------------------------------------------------------
(* Safety *)

\* A delivery whose message still depends on it.
Pending(s, x) ==
    /\ work[s] # Free
    /\ work[s].live
    /\ work[s].step # "Ack"
    /\ Entry(s) = x

GivenUp(x) ==
    \E c \in Copies : c.id = x[2] /\ <<x[1], c>> \in deadLettered \cup dropped

Settled(x) == x \in handled \/ x \in parked \/ GivenUp(x)

Waiting(x) == \E c \in Copies : c.id = x[2] /\ ready[x[1]][c] > 0

\* Where a message still is, or how it ended.
Accounted(x) == Settled(x) \/ Waiting(x) \/ \E s \in Slots : Pending(s, x)

\* Nothing but an unconfirmed publish loses a message: what was sent to a queue is
\* ready in it, or in a delivery the broker will take back if its process dies, until
\* a handler has succeeded on it or it was given up, across crashes, lost connections
\* and republishes that throw.
NothingLost == \A x \in routed \ vanished : Accounted(x)

\* Where the message of x is: copies of it in its queue, deliveries that depend on
\* it, or how it ended.
Places(x) ==
    {<<"queue", c>> : c \in {c \in Copies : c.id = x[2] /\ ready[x[1]][c] > 0}}
      \cup {<<"slot", s>> : s \in {s \in Slots : Pending(s, x)}}
      \cup (IF x \in handled THEN {<<"end", "handled">>} ELSE {})
      \cup (IF GivenUp(x) THEN {<<"end", "given up">>} ELSE {})

\* Exactly once without faults: whatever its retries, a message is in one place only,
\* and in its queue once only.
NoFaultNoDuplicate ==
    faults = 0 =>
        \A x \in routed :
            /\ Cardinality(Places(x)) = 1
            /\ \A c \in Copies : ready[x[1]][c] <= 1

\* A message is given up only after MaxRetry + 1 failed deliveries of it, and
\* without faults it never has more of them.
GivenUpAfterAllTries ==
    \A x \in routed :
        /\ GivenUp(x) => failures[x] >= MaxRetry + 1
        /\ faults = 0 => failures[x] <= MaxRetry + 1

\* How a message ends in a queue it reached, as EventLife has it; InMemoryBus and
\* HandlerDispatch implement the same promise.
Fate ==
    [x \in Entries |->
        IF x \in handled THEN "handled"
        ELSE IF failures[x] > MaxRetry THEN "poisoned" ELSE "open"]

Life == INSTANCE EventLife WITH
            Events <- Entries, Budgeted <- Entries, tries <- failures, fate <- Fate

\* Until the first fault a message leads that life in each queue it reached: a failed
\* try is counted once, in the header of one copy, and nothing runs for a message that
\* has been handled or given up.
LivesUntilFault ==
    Life!Init /\ [][faults' = 0 => [Life!Next]_<<failures, Fate>>]_vars

-----------------------------------------------------------------------------
(* Liveness *)

\* What was sent to a queue is settled in the end, however often processes crash and
\* connections are lost, unless an unconfirmed publish lost it or every process that
\* reads the queue fails to start.
Reads(p, q) == \E n \in Subscribes[p] : QueueOf(p, n) = q

EventuallySettled ==
    \A x \in Entries :
        x \in routed ~> \/ Settled(x)
                        \/ x \in vanished
                        \/ \A p \in Processes : Reads(p, x[1]) => boot[p] = "failed"

-----------------------------------------------------------------------------
(* What the documentation says of the transport, each stated as it is read. *)

\* eventbus-routing.md: delivery is at least once, a failed handler propagates its
\* exception to the transport, which retries the message: what has failed is still
\* there to be handled, or has ended.
AtLeastOnce == \A x \in Entries : failures[x] > 0 => Accounted(x)

\* eventbus-routing.md: a failed handler propagates its exception to the
\* transport, which retries the message: every failed try ran the handlers.
EveryTryRunsHandlers ==
    \A x \in routed : GivenUp(x) => runs[x] >= MaxRetry + 1

\* eventbus-routing.md: WithDeadLetter overrides the global dead letter of one
\* event, and several events share a queue: such a host starts.
HostStarts == \A p \in Processes : boot[p] # "failed"
=============================================================================
