----------------------------- MODULE Publishing -----------------------------
(***************************************************************************)
(* What PublishAsync puts into the envelope of an event, and what becomes  *)
(* of it: callers that pass no Headers, their own, or one object to        *)
(* several publications, handlers that publish with the Headers they were  *)
(* given, a send that throws and is tried again, deliveries that are       *)
(* repeated, and a consumer that drops the message ids it knows, as the    *)
(* documentation asks of handlers.                                         *)
(*                                                                         *)
(* The in-memory transport passes the Headers object on, RabbitMQ sends a  *)
(* copy.  Up to the call of the transport PublishAsync awaits nothing, so  *)
(* that it is one step of the thread it is called on; one object in two    *)
(* threads at a time, an unsynchronized dictionary, is left out.           *)
(***************************************************************************)
EXTENDS Integers, FiniteSets

CONSTANTS
    Publications,
    NoHeader,      \* what a missing header has for a value
    MaxAttempts,   \* bound: the times a caller calls PublishAsync for an event
    MaxDeliveries  \* bound: the times a message is delivered

VARIABLES
    transport,
    way,        \* what the caller passes: nothing, an object, or what a handler got
    headers,    \* the Headers objects
    object,     \* the one that is used for a publication
    attempt,    \* how often PublishAsync was called for it
    stage,      \* where the last call is
    spans,      \* the attempts that had a producer span
    wire,       \* the messages that are with the transport
    received,   \* what the handlers of an event were given, copied by RabbitMQ
    seen,       \* the message ids the consumer knows
    processed   \* how often it has processed a publication

publisherVars == <<headers, object, attempt, stage, spans>>
consumerVars == <<received, seen, processed>>
vars == <<transport, way, headers, object, attempt, stage, spans, wire,
          received, seen, processed>>

\* Guids, times and spans are told apart by the attempt that made them.
Attempts == Publications \X (1..MaxAttempts)

ASSUME PublishingAssumption ==
    /\ {MaxAttempts, MaxDeliveries} \subseteq Nat \ {0}
    /\ NoHeader \notin Attempts

Contents == [id : Attempts \cup {NoHeader}, time : Attempts \cup {NoHeader},
             trace : Attempts \cup {NoHeader}]
EmptyHeaders == [id |-> NoHeader, time |-> NoHeader, trace |-> NoHeader]

\* The objects of callers, and those the library makes for a publication.
Objects == {"caller", "new"} \X Publications

Ways(p) == {<<"nothing", p>>} \cup ({"caller"} \X Publications)
               \cup ({"handler"} \X (Publications \ {p}))

\* The headers of a message when it is delivered.
Carried(m) == IF transport = "inMemory" THEN headers[object[m.pub]] ELSE m.contents

-----------------------------------------------------------------------------

TypeOK ==
    /\ transport \in {"inMemory", "rabbitMq"}
    /\ \A p \in Publications : way[p] \in Ways(p)
    /\ headers \in [Objects -> Contents]
    /\ object \in [Publications -> Objects]
    /\ attempt \in [Publications -> 0..MaxAttempts]
    /\ stage \in [Publications -> {"idle", "publishing", "sent", "threw"}]
    /\ spans \subseteq Attempts
    /\ \A m \in wire : /\ <<m.pub, m.attempt>> \in Attempts
                       /\ m.deliveries \in 0..(MaxDeliveries - 1)
                       /\ NoHeader \notin {Carried(m).id, Carried(m).time}
    /\ received \in [Publications -> Contents]
    /\ seen \subseteq Attempts
    /\ processed \in [Publications -> Nat]

Init ==
    /\ transport \in {"inMemory", "rabbitMq"}
    /\ way \in {w \in [Publications -> UNION {Ways(p) : p \in Publications}] :
                   \A p \in Publications : w[p] \in Ways(p)}
    /\ headers = [o \in Objects |-> EmptyHeaders]
    /\ object = [p \in Publications |-> <<"new", p>>]
    /\ attempt = [p \in Publications |-> 0]
    /\ stage = [p \in Publications |-> "idle"]
    /\ spans = {} /\ wire = {} /\ seen = {}
    /\ received = [p \in Publications |-> EmptyHeaders]
    /\ processed = [p \in Publications |-> 0]

-----------------------------------------------------------------------------
(* AbstractEventPublisher.PublishAsync *)

MayPublish(p) ==
    /\ stage[p] \in {"idle", "threw"}
    /\ attempt[p] < MaxAttempts
    /\ way[p][1] = "handler" => processed[way[p][2]] > 0

\* Mutated form: the publisher keeps one Headers object for callers that pass none.
ObjectPassedShared(p) ==
    CASE way[p][1] = "nothing" -> <<"new", CHOOSE q \in Publications : TRUE>>
      [] way[p][1] = "caller" -> way[p]
      [] way[p][1] = "handler" -> IF transport = "inMemory" THEN object[way[p][2]] ELSE <<"new", p>>

\* The object a call of PublishAsync works on, a new one if it got none.
ObjectPassed(p) ==
    CASE way[p][1] = "nothing" -> <<"new", p>>
      [] way[p][1] = "caller" -> way[p]
      [] way[p][1] = "handler" -> IF transport = "inMemory" THEN object[way[p][2]] ELSE <<"new", p>>

ContentsPassed(p) ==
    CASE way[p][1] = "nothing" -> EmptyHeaders
      [] way[p][1] = "handler" /\ transport = "rabbitMq" -> received[way[p][2]]
      [] OTHER -> headers[ObjectPassed(p)]

\* Mutated form: the id is made anew by every call.
StampAnew(contents, k) ==
    [contents EXCEPT !.id = k, !.time = IF @ = NoHeader THEN k ELSE @]

\* Mutated form: the time is forgotten.
StampIdOnly(contents, k) == [contents EXCEPT !.id = IF @ = NoHeader THEN k ELSE @]

\* The id and the time, where they are absent.
Stamp(contents, k) ==
    [contents EXCEPT !.id = IF @ = NoHeader THEN k ELSE @, !.time = IF @ = NoHeader THEN k ELSE @]

\* Mutated form: a trace context that is there is kept.
StartPublishOnce(contents, k) == [contents EXCEPT !.trace = IF @ = NoHeader THEN k ELSE @]

\* EventBusActivitySource.StartPublish, if somebody listens.
StartPublish(contents, k) == [contents EXCEPT !.trace = k]

Begin(p, contents) ==
    /\ attempt' = [attempt EXCEPT ![p] = @ + 1]
    /\ object' = [object EXCEPT ![p] = ObjectPassed(p)]
    /\ headers' = [headers EXCEPT ![ObjectPassed(p)] = contents]

\* With a producer span or without, up to the call of PublishEventAsync.
PublishAsync(p, traced) ==
    LET k == <<p, attempt[p] + 1>>
        stamped == Stamp(ContentsPassed(p), k)
    IN  /\ MayPublish(p)
        /\ Begin(p, IF traced THEN StartPublish(stamped, k) ELSE stamped)
        /\ spans' = IF traced THEN spans \cup {k} ELSE spans
        /\ stage' = [stage EXCEPT ![p] = "publishing"]
        /\ UNCHANGED <<transport, way, wire, consumerVars>>

\* The event cannot be serialized: the object has its id and time by then.
SerializeThrows(p) ==
    /\ MayPublish(p)
    /\ Begin(p, Stamp(ContentsPassed(p), <<p, attempt[p] + 1>>))
    /\ stage' = [stage EXCEPT ![p] = "threw"]
    /\ UNCHANGED <<transport, way, spans, wire, consumerVars>>

\* EventContext keeps the object, MessageProperties are sent as they are by then.
Message(p) ==
    [pub |-> p, attempt |-> attempt[p], deliveries |-> 0,
     contents |-> IF transport = "inMemory" THEN EmptyHeaders ELSE headers[object[p]]]

PublishEventAsync(p) ==
    /\ stage[p] = "publishing"
    /\ wire' = wire \cup {Message(p)}
    /\ stage' = [stage EXCEPT ![p] = "sent"]
    /\ UNCHANGED <<transport, way, headers, object, attempt, spans, consumerVars>>

\* EnqueueAsync was cancelled before it wrote; a broker may have the message all the same.
PublishEventThrows(p) ==
    /\ stage[p] = "publishing"
    /\ \/ UNCHANGED wire
       \/ transport = "rabbitMq" /\ wire' = wire \cup {Message(p)}
    /\ stage' = [stage EXCEPT ![p] = "threw"]
    /\ UNCHANGED <<transport, way, headers, object, attempt, spans, consumerVars>>

-----------------------------------------------------------------------------
(* EventSubscribeInitializer.ConsumerReceived, and a handler that drops duplicates *)

\* The consumer has processed a message with this id.
Known(m) == Carried(m).id \in seen

\* EventBusActivitySource.StartConsume: the parent of the consumer's span.
Parent(m) == Carried(m).trace

\* What a consumer does with a message: it skips an id that it knows, and knows the
\* ids of what it has processed.
Consume(m, fails) ==
    IF Known(m) \/ fails
    THEN UNCHANGED consumerVars
    ELSE /\ seen' = seen \cup ({Carried(m).id} \ {NoHeader})
         /\ processed' = [processed EXCEPT ![m.pub] = @ + 1]
         /\ received' = [received EXCEPT ![m.pub] = m.contents]

\* The message is answered, or it will come once more, with the envelope it has:
\* a handler has thrown, of this event or after this one, or the answer is lost.
Deliver(m, fails, again) ==
    /\ m \in wire
    /\ again => m.deliveries + 1 < MaxDeliveries
    /\ Consume(m, fails)
    /\ wire' = (wire \ {m}) \cup (IF again THEN {[m EXCEPT !.deliveries = @ + 1]} ELSE {})
    /\ UNCHANGED <<transport, way, publisherVars>>

-----------------------------------------------------------------------------

Next ==
    \/ \E p \in Publications :
          \/ \E traced \in BOOLEAN : PublishAsync(p, traced)
          \/ SerializeThrows(p) \/ PublishEventAsync(p) \/ PublishEventThrows(p)
    \/ \E m \in wire, fails, again \in BOOLEAN : Deliver(m, fails, again)

Spec == Init /\ [][Next]_vars

-----------------------------------------------------------------------------

\* No other publication gets the Headers of this one.
OwnHeaders(p) ==
    /\ way[p][1] # "handler"
    /\ \A q \in Publications \ {p} : way[q] # way[p]

\* A consumer that drops the message ids it knows loses no event that was published
\* with Headers of its own: what it would skip, it has processed before.
NoFalseDuplicate ==
    \A m \in wire : OwnHeaders(m.pub) /\ Known(m) => processed[m.pub] > 0

\* It processes an event once, however often the transport delivers it and the caller
\* tries to publish it, for a caller that tries with the same Headers; one that
\* passes none gets an id for each try.
ProcessedOnce ==
    \A p \in Publications :
        processed[p] <= IF way[p][1] = "nothing" THEN attempt[p] ELSE 1

\* The consumer's span is a child of the span of the very call of PublishAsync that
\* sent the message, and of no other event's if that call had none; unless others
\* publish with its Headers, handlers in the same process included.
TraceFollowsPublish ==
    \A m \in wire :
        (OwnHeaders(m.pub) /\ \A q \in Publications : way[q] # <<"handler", m.pub>>) =>
            /\ <<m.pub, m.attempt>> \in spans => Parent(m) = <<m.pub, m.attempt>>
            /\ Parent(m) \in {NoHeader} \cup {k \in spans : k[1] = m.pub}

=============================================================================
