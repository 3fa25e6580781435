--------------------------- MODULE MCRabbitMqBus ---------------------------
(***************************************************************************)
(* Instances of RabbitMqBus for TLC: process p1 subscribes both events on  *)
(* its default queue, p2 one of them on a queue of its own.                *)
(***************************************************************************)
EXTENDS RabbitMqBus

CONSTANTS n1, n2, p1, p2, p3, q1, q2, m1, m2, s1, s2, s3, topic, dlx, dlx2, dlq

MCSubscribes == [p \in Processes |-> IF p = p1 THEN {n1, n2} ELSE {n1}]
NoBindings == [n \in {} |-> Blank]
MCQueueBindings == [p \in Processes |-> IF p = p1 THEN NoBindings ELSE [n \in {n1} |-> q2]]
MCNoGlobal == [p \in Processes |-> Blank]
MCDefaultQueue == [p \in Processes |-> q1]
MCNoneOfIts == [p \in Processes |-> NoBindings]
MCGlobalDeadLetter == [p \in Processes |-> IF p = p1 THEN dlx ELSE Blank]
MCDeadLetterQueue == [p \in Processes |-> dlq]
\* Two instances of one service and one deployed without its dead-letter queue, all
\* on one queue; the second event has no exchange.
MCSameSubscribes == [p \in Processes |-> {n1}]
MCOneExchange == [n \in {n1} |-> topic]
MCSameDeadLetter == [p \in Processes |-> dlx]
MCDeadLetterQueueOfSome == [p \in Processes |-> IF p = p3 THEN Blank ELSE dlq]
MCOneSlotEach == [s \in Slots |-> CASE s = s1 -> p1 [] s = s2 -> p2 [] OTHER -> p3]
MCOneEvent == [s \in Slots |-> n1]
\* One event of p1 overrides the dead letter.
MCDeadLetterOfOne == [p \in Processes |-> IF p = p1 THEN [n \in {n2} |-> dlx2] ELSE NoBindings]
MCDeadLetterQueueOfOne == [p \in Processes |-> IF p = p1 THEN [n \in {n2} |-> dlq] ELSE NoBindings]
MCNameOf == [m \in Messages |-> IF m = m1 THEN n1 ELSE n2]
MCProcessOf == [s \in Slots |-> IF s = s3 THEN p2 ELSE p1]
MCEventOf == [s \in Slots |-> IF s = s2 THEN n2 ELSE n1]
=============================================================================
