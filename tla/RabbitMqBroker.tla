--------------------------- MODULE RabbitMqBroker ---------------------------
(***************************************************************************)
(* The broker, as far as FluentEventBus.RabbitMq uses it: topic exchanges  *)
(* with bindings, durable queues with an optional dead-letter exchange,    *)
(* publishing with mandatory = false, and deliveries that are acknowledged *)
(* or not.  It is external to the repository.                              *)
(*                                                                         *)
(* A queue is a bag: how many equal copies of a message are ready in it.   *)
(* The order in which they are delivered is left open, since redelivered   *)
(* ones overtake and prefetched ones are handled concurrently.             *)
(***************************************************************************)
EXTENDS Integers, FiniteSets

CONSTANTS
    Names,        \* the event names
    Queues,
    Exchanges,
    DeadLetters,  \* the dead-letter exchanges, each with its queue
    None,         \* no dead-letter exchange
    Undeclared,   \* no such queue yet
    Messages,     \* the messages that are published
    MaxRetry      \* RabbitMqBindingOption.MaxRetryCount

\* A copy of a message on the wire: the routing key it was last published with,
\* and its retry-count header.
Copies == [id : Messages, key : Names \cup Queues, retry : 0..MaxRetry]

VARIABLES
    declared,     \* the x-dead-letter-exchange argument of each queue
    bindings,     \* <<exchange, key, queue>>
    ready,        \* how many copies of each kind are ready in each queue
    deadLettered, \* <<queue, copy>>: what left a queue for its dead-letter exchange
    dropped       \* <<queue, copy>>: what was nacked with nowhere to go

brokerVars == <<declared, bindings, ready, deadLettered, dropped>>

BrokerTypeOK ==
    /\ declared \in [Queues -> DeadLetters \cup {None, Undeclared}]
    /\ bindings \subseteq Exchanges \X Names \X Queues
    /\ ready \in [Queues -> [Copies -> Nat]]
    /\ deadLettered \subseteq Queues \X Copies
    /\ dropped \subseteq Queues \X Copies

BrokerInit ==
    /\ declared = [q \in Queues |-> Undeclared]
    /\ bindings = {}
    /\ ready = [q \in Queues |-> [c \in Copies |-> 0]]
    /\ deadLettered = {}
    /\ dropped = {}

\* Declaring a queue again is refused when the argument differs.
MayDeclare(q, argument) == declared[q] \in {Undeclared, argument}

Bound(exchange, key) == {q \in Queues : <<exchange, key, q>> \in bindings}

\* One more copy is ready in each of the queues.
Put(qs, c) ==
    ready' = [q \in Queues |->
                 IF q \in qs THEN [ready[q] EXCEPT ![c] = @ + 1] ELSE ready[q]]

\* A copy is handed to a consumer.
Take(q, c) ==
    /\ ready[q][c] > 0
    /\ ready' = [ready EXCEPT ![q][c] = @ - 1]

\* A nack without requeue: the copy keeps the key it was last published with.
Discard(q, c) ==
    IF declared[q] \in DeadLetters
    THEN deadLettered' = deadLettered \cup {<<q, c>>} /\ UNCHANGED dropped
    ELSE dropped' = dropped \cup {<<q, c>>} /\ UNCHANGED deadLettered
=============================================================================
