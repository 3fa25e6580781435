------------------------- MODULE RabbitMqCalmProofs -------------------------
(***************************************************************************)
(* Theorems about the RabbitMQ transport as long as no connection is lost, *)
(* no process crashes and no publish is lost or throws, for any processes, *)
(* bindings, queues and messages: a message is in one place only, and      *)
(* fails at most MaxRetry + 1 times.                                       *)
(***************************************************************************)
EXTENDS RabbitMqProofs

-----------------------------------------------------------------------------
(* Where a message of a queue is *)

CopiesOf(x) == {c \in Copies : c.id = x[2]}

\* No copy in the queue, no delivery that depends on it, no end.
Unqueued(x) == \A c \in CopiesOf(x) : ready[x[1]][c] = 0
Unheld(x) == \A s \in Slots : ~Pending(s, x)
Unended(x) == x \notin handled /\ ~GivenUp(x)

\* How many deliveries of the message in slot s have failed.
TriesIn(s) ==
    IF work[s].step \in {"republishing", "NackWithoutRequeue"}
    THEN work[s].copy.retry + 1 ELSE work[s].copy.retry

Nowhere(x) == Unqueued(x) /\ Unheld(x) /\ Unended(x) /\ failures[x] = 0

OnlyQueued(x, c) ==
    /\ \A d \in CopiesOf(x) : ready[x[1]][d] = IF d = c THEN 1 ELSE 0
    /\ Unheld(x) /\ Unended(x)
    /\ failures[x] = c.retry

OnlyPending(x, s) ==
    /\ Unqueued(x) /\ Unended(x)
    /\ \A t \in Slots : Pending(t, x) <=> t = s
    /\ failures[x] = TriesIn(s)

OnlyEnded(x) ==
    /\ Unqueued(x) /\ Unheld(x)
    /\ x \in handled <=> ~GivenUp(x)
    /\ failures[x] <= MaxRetry + 1

InOnePlace(x) ==
    \/ \E c \in CopiesOf(x) : OnlyQueued(x, c)
    \/ \E s \in Slots : OnlyPending(x, s)
    \/ OnlyEnded(x)

Located(x) == IF x \in routed THEN InOnePlace(x) ELSE Nowhere(x)

\* The broker waits for every delivery, a process that has not yet attached its
\* consumer requeues, and what no publisher has sent is in no queue.
AllLive == \A s \in Slots : work[s] # Free => work[s].live
EarlyDeliveries ==
    \A s \in Slots : boot[ProcessOf[s]] # "attached" =>
                        work[s].step \in {"free", "received", "NackWithRequeue"}
UnsentUnrouted == \A x \in routed : sent[x[2]] # "new"

Calm == AllLive /\ EarlyDeliveries /\ UnsentUnrouted /\ \A x \in Entries : Located(x)

\* A step that does not concern x.
Same(x) ==
    /\ \A c \in CopiesOf(x) :
          /\ ready'[x[1]][c] = ready[x[1]][c]
          /\ <<x[1], c>> \in deadLettered' \cup dropped' <=> <<x[1], c>> \in deadLettered \cup dropped
    /\ \A s \in Slots : /\ Pending(s, x)' <=> Pending(s, x)
                        /\ Pending(s, x) => work'[s] = work[s]
    /\ x \in handled' <=> x \in handled
    /\ x \in routed' <=> x \in routed
    /\ failures'[x] = failures[x]

LEMMA LocatedStays ==
    ASSUME NEW x \in Entries, Located(x), Same(x)
    PROVE  Located(x)'
<1>1. Unqueued(x)' <=> Unqueued(x)
  BY DEF Same, Unqueued, CopiesOf
<1>2. Unheld(x)' <=> Unheld(x)
  BY DEF Same, Unheld
<1>3. GivenUp(x)' <=> GivenUp(x)
  BY DEF Same, GivenUp, CopiesOf
<1>4. Unended(x)' <=> Unended(x)
  BY <1>3 DEF Same, Unended
<1>5. ASSUME NEW c \in CopiesOf(x), OnlyQueued(x, c)
      PROVE  OnlyQueued(x, c)'
  BY <1>2, <1>4, <1>5 DEF Same, OnlyQueued, CopiesOf
<1>6. ASSUME NEW s \in Slots, OnlyPending(x, s)
      PROVE  OnlyPending(x, s)'
  <2>1. work'[s] = work[s]
    BY <1>6 DEF Same, OnlyPending
  <2>2. \A t \in Slots : Pending(t, x)' <=> t = s
    BY <1>6 DEF Same, OnlyPending
  <2>3. failures'[x] = TriesIn(s)'
    BY <1>6, <2>1 DEF Same, OnlyPending, TriesIn
  <2> QED  BY <1>1, <1>4, <1>6, <2>2, <2>3 DEF OnlyPending
<1>7. ASSUME OnlyEnded(x)
      PROVE  OnlyEnded(x)'
  BY <1>1, <1>2, <1>3, <1>7 DEF Same, OnlyEnded
<1>8. ASSUME InOnePlace(x)
      PROVE  InOnePlace(x)'
  <2>1. CopiesOf(x)' = CopiesOf(x)
    BY DEF CopiesOf
  <2> QED  BY <1>5, <1>6, <1>7, <1>8, <2>1 DEF InOnePlace
<1>9. ASSUME Nowhere(x)
      PROVE  Nowhere(x)'
  BY <1>1, <1>2, <1>4, <1>9 DEF Same, Nowhere
<1> QED  BY <1>8, <1>9 DEF Same, Located

\* A copy in its queue is all there is of its message there.
LEMMA QueuedAs ==
    ASSUME TypeOK, Calm, NEW q \in Queues, NEW c \in Copies, ready[q][c] > 0, NEW x, x = <<q, c.id>>
    PROVE  x \in Entries /\ x \in routed /\ OnlyQueued(x, c)
<1>1. /\ x \in Entries /\ x[1] = q /\ x[2] = c.id /\ c \in CopiesOf(x)
  BY DEF Entries, Copies, CopiesOf
<1>2. Located(x)
  BY <1>1 DEF Calm
<1>3. ~Unqueued(x)
  BY <1>1 DEF Unqueued
<1>4. x \in routed /\ \E d \in CopiesOf(x) : OnlyQueued(x, d)
  BY <1>2, <1>3 DEF Located, InOnePlace, Nowhere, OnlyPending, OnlyEnded
<1>5. PICK d \in CopiesOf(x) : OnlyQueued(x, d)
  BY <1>4
<1>6. d = c
  BY <1>1, <1>5 DEF OnlyQueued
<1> QED  BY <1>1, <1>4, <1>5, <1>6

\* So is a delivery that is not acked.
LEMMA HeldBy ==
    ASSUME TypeOK, Calm, NEW s \in Slots, work[s].step \notin {"free", "Ack"}, NEW x, x = Entry(s)
    PROVE  /\ x \in Entries /\ x \in routed /\ OnlyPending(x, s)
           /\ work[s] \in Deliveries /\ work[s].live
           /\ work[s].copy \in CopiesOf(x)
           /\ x[1] = SlotQueue(s) /\ x[2] = work[s].copy.id
<1>1. /\ x \in Entries /\ work[s] # Free /\ work[s] \in Deliveries
      /\ work[s].copy \in CopiesOf(x)
      /\ x[1] = SlotQueue(s) /\ x[2] = work[s].copy.id
  BY SlotFacts DEF CopiesOf, Entries
<1>2. work[s].live
  BY <1>1 DEF Calm, AllLive
<1>3. Pending(s, x)
  BY <1>1, <1>2 DEF Pending
<1>4. Located(x)
  BY <1>1 DEF Calm
<1>5. ~Unheld(x)
  BY <1>3 DEF Unheld
<1>6. x \in routed /\ \E t \in Slots : OnlyPending(x, t)
  BY <1>4, <1>5 DEF Located, InOnePlace, Nowhere, OnlyQueued, OnlyEnded
<1>7. PICK t \in Slots : OnlyPending(x, t)
  BY <1>6
<1>8. t = s
  BY <1>3, <1>7 DEF OnlyPending
<1> QED  BY <1>1, <1>2, <1>6, <1>7, <1>8

\* A step of slot s concerns only the message delivered in it.
LEMMA SameElsewhere ==
    ASSUME TypeOK, NEW s \in Slots, NEW x \in Entries,
           work[s].step # "free" => x # Entry(s),
           \A t \in Slots : t # s => work'[t] = work[t],
           work'[s] = Free \/ x # <<SlotQueue(s), work'[s].copy.id>>,
           \A c \in CopiesOf(x) :
              /\ ready'[x[1]][c] = ready[x[1]][c]
              /\ <<x[1], c>> \in deadLettered' \cup dropped' <=> <<x[1], c>> \in deadLettered \cup dropped,
           x \in handled' <=> x \in handled,
           x \in routed' <=> x \in routed,
           failures'[x] = failures[x]
    PROVE  Same(x)
<1>1. ASSUME NEW t \in Slots
      PROVE  /\ Pending(t, x)' <=> Pending(t, x)
             /\ Pending(t, x) => work'[t] = work[t]
  <2>1. CASE t # s
    BY <2>1 DEF Pending, Entry
  <2>2. CASE t = s
    <3>1. ~Pending(s, x)
      BY SlotFacts DEF Pending
    <3>2. ~Pending(s, x)'
      BY DEF Pending, Entry
    <3> QED  BY <2>2, <3>1, <3>2
  <2> QED  BY <2>1, <2>2
<1> QED  BY <1>1 DEF Same

\* A delivery that goes on in its slot, its message with it.
LEMMA LocatedAfterMove ==
    ASSUME TypeOK, Calm, NEW s \in Slots, NEW step \in Steps \ {"Ack"},
           work[s].step \notin {"free", "Ack"}, MoveTo(s, step),
           step = "republishing" => work[s].copy.retry < MaxRetry,
           UNCHANGED <<brokerVars, routed, handled>>,
           \A x \in Entries : x # Entry(s) => failures'[x] = failures[x],
           \A x : x = Entry(s) => failures'[x] = TriesIn(s)',
           NEW x \in Entries
    PROVE  Located(x)'
<1>1. /\ work'[s] = [copy |-> work[s].copy, live |-> work[s].live, step |-> step]
      /\ \A t \in Slots : t # s => work'[t] = work[t]
  BY MoveToFacts
<1>2. CASE x = Entry(s)
  <2>1. /\ x \in routed /\ OnlyPending(x, s)
        /\ work[s].live /\ x[1] = SlotQueue(s) /\ x[2] = work[s].copy.id
    BY <1>2, HeldBy
  <2>2. work'[s] # Free /\ work'[s].live /\ work'[s].step # "Ack" /\ work'[s].copy = work[s].copy
    BY <1>1, <2>1 DEF Free, Steps
  <2>3. Pending(s, x)'
    BY <1>2, <2>2 DEF Pending, Entry
  <2>4. \A t \in Slots : Pending(t, x)' <=> t = s
    BY <1>1, <2>1, <2>3 DEF OnlyPending, Pending, Entry
  <2>5. Unqueued(x)' /\ Unended(x)'
    BY <2>1 DEF OnlyPending, Unqueued, Unended, GivenUp, brokerVars, CopiesOf
  <2>6. OnlyPending(x, s)'
    BY <1>2, <2>4, <2>5 DEF OnlyPending
  <2> QED  BY <2>1, <2>6 DEF Located, InOnePlace
<1>3. CASE x # Entry(s)
  <2>1. Entry(s) = <<SlotQueue(s), work'[s].copy.id>>
    BY <1>1, SlotFacts
  <2>2. Same(x)
    BY <1>1, <1>3, <2>1, SameElsewhere DEF brokerVars
  <2> QED  BY <2>2, LocatedStays DEF Calm
<1> QED  BY <1>2, <1>3

\* A delivery that goes back to its queue as one copy.
LEMMA LocatedAfterRequeue ==
    ASSUME TypeOK, Calm, NEW s \in Slots, work[s].step \notin {"free", "Ack"},
           NEW c \in Copies, c.id = work[s].copy.id, c.retry = TriesIn(s),
           Put({SlotQueue(s)}, c),
           \A t \in Slots : t # s => work'[t] = work[t],
           work'[s] = Free \/ (work'[s].step = "Ack" /\ work'[s].copy = work[s].copy),
           UNCHANGED <<routed, handled, failures, deadLettered, dropped>>,
           NEW x \in Entries
    PROVE  Located(x)'
<1>0. ReadyTypeOK /\ SlotQueue(s) \in Queues
  BY SlotFacts DEF TypeOK, BrokerTypeOK, ReadyTypeOK
<1>1. \A q \in Queues, d \in Copies :
         /\ ready[q][d] \in Nat
         /\ ready'[q][d] = IF q = SlotQueue(s) /\ d = c THEN ready[q][d] + 1 ELSE ready[q][d]
  BY <1>0, PutFacts DEF ReadyTypeOK
<1>2. CASE x = Entry(s)
  <2>1. /\ x \in routed /\ OnlyPending(x, s)
        /\ x[1] = SlotQueue(s) /\ x[2] = work[s].copy.id
    BY <1>2, HeldBy
  <2>2. c \in CopiesOf(x) /\ \A d \in CopiesOf(x) : d \in Copies
    BY <2>1 DEF CopiesOf
  <2>3. \A d \in CopiesOf(x) : ready'[x[1]][d] = IF d = c THEN 1 ELSE 0
    BY <1>0, <1>1, <2>1, <2>2 DEF OnlyPending, Unqueued
  <2>4. Unheld(x)'
    BY <2>1 DEF OnlyPending, Unheld, Pending, Entry
  <2>5. Unended(x)'
    BY <2>1 DEF OnlyPending, Unended, GivenUp
  <2>6. OnlyQueued(x, c)'
    BY <2>1, <2>3, <2>4, <2>5 DEF OnlyPending, OnlyQueued, CopiesOf
  <2>7. c \in CopiesOf(x)'
    BY <2>2 DEF CopiesOf
  <2> QED  BY <2>1, <2>6, <2>7 DEF Located, InOnePlace
<1>3. CASE x # Entry(s)
  <2>1. Entry(s) = <<SlotQueue(s), c.id>>
    BY SlotFacts
  <2>2. \A d \in CopiesOf(x) : ready'[x[1]][d] = ready[x[1]][d]
    <3>1. x \in Queues \X Messages
      BY DEF Entries
    <3> QED  BY <1>1, <1>3, <2>1, <3>1 DEF CopiesOf
  <2>3. Same(x)
    BY <1>3, <2>1, <2>2, SameElsewhere
  <2> QED  BY <2>3, LocatedStays DEF Calm
<1> QED  BY <1>2, <1>3

\* A delivery that ends: its message was handled, or given up.
LEMMA LocatedAfterEnd ==
    ASSUME TypeOK, Calm, NEW s \in Slots, work[s].step \notin {"free", "Ack"},
           \A t \in Slots : t # s => work'[t] = work[t],
           work'[s] = Free \/ (work'[s].step = "Ack" /\ work'[s].copy = work[s].copy),
           UNCHANGED <<routed, failures, ready>>,
           \/ handled' = handled \cup {Entry(s)} /\ UNCHANGED <<deadLettered, dropped>>
           \/ /\ UNCHANGED handled
              /\ deadLettered' \cup dropped' = deadLettered \cup dropped \cup {<<SlotQueue(s), work[s].copy>>},
           NEW x \in Entries
    PROVE  Located(x)'
<1>1. CASE x = Entry(s)
  <2>1. /\ x \in routed /\ OnlyPending(x, s)
        /\ x[1] = SlotQueue(s) /\ x[2] = work[s].copy.id
        /\ work[s] \in Deliveries /\ work[s].copy \in CopiesOf(x)
    BY <1>1, HeldBy
  <2>2. Unheld(x)'
    BY <2>1 DEF OnlyPending, Unheld, Pending, Entry
  <2>3. Unqueued(x)'
    BY <2>1 DEF OnlyPending, Unqueued, CopiesOf
  <2>4. x \in handled' <=> ~GivenUp(x)'
    BY <1>1, <2>1 DEF OnlyPending, Unended, GivenUp, CopiesOf
  <2>5. failures'[x] <= MaxRetry + 1
    <3>1. work[s].copy.retry \in 0..MaxRetry /\ MaxRetry \in Nat
      BY <2>1, RabbitAssumption DEF Deliveries, Copies
    <3>2. failures'[x] = TriesIn(s)
      BY <2>1 DEF OnlyPending
    <3> QED  BY <3>1, <3>2 DEF TriesIn
  <2>6. OnlyEnded(x)'
    BY <2>2, <2>3, <2>4, <2>5 DEF OnlyEnded
  <2> QED  BY <2>1, <2>6 DEF Located, InOnePlace
<1>2. CASE x # Entry(s)
  <2>1. Entry(s) = <<SlotQueue(s), work[s].copy.id>>
    BY SlotFacts
  <2>2. \A d \in CopiesOf(x) : <<x[1], d>> # <<SlotQueue(s), work[s].copy>>
    <3>1. x = <<x[1], x[2]>>
      BY DEF Entries
    <3> QED  BY <1>2, <2>1, <3>1 DEF CopiesOf
  <2>3. Same(x)
    BY <1>2, <2>1, <2>2, SameElsewhere
  <2> QED  BY <2>3, LocatedStays DEF Calm
<1> QED  BY <1>1, <1>2

\* A process that fails to start had only deliveries it has not handled: each goes
\* back to its queue as the one copy of its message.
LEMMA LocatedAfterFailedStart ==
    ASSUME TypeOK, Calm, NEW p \in Processes, NEW n \in Names, SubscribeFails(p, n), NEW x \in Entries
    PROVE  Located(x)'
<1>0. ReadyTypeOK /\ x[1] \in Queues /\ x[2] \in Messages /\ x = <<x[1], x[2]>>
  BY DEF TypeOK, BrokerTypeOK, ReadyTypeOK, Entries
<1>1. /\ TakeBack(p) /\ boot[p] = "subscribing"
      /\ work' = [s \in Slots |-> IF ProcessOf[s] = p THEN Free ELSE work[s]]
      /\ UNCHANGED <<deadLettered, dropped, routed, handled, failures>>
  BY DEF SubscribeFails, ProcessEnds
<1>2. \A s \in Slots : ProcessOf[s] = p => work[s].step \in {"free", "received", "NackWithRequeue"}
  BY <1>1 DEF Calm, EarlyDeliveries
<1>3. ASSUME NEW c \in CopiesOf(x)
      PROVE  /\ c \in Copies
             /\ ready'[x[1]][c] = ready[x[1]][c] + Cardinality(Unanswered(p, x[1], c))
             /\ Unanswered(p, x[1], c) = {s \in Slots : ProcessOf[s] = p /\ Pending(s, x) /\ work[s].copy = c}
  <2>1. c \in Copies /\ c.id = x[2]
    BY DEF CopiesOf
  <2>2. ASSUME NEW s \in Slots, ProcessOf[s] = p, work[s] # Free, work[s].copy = c
        PROVE  work[s].step # "Ack" /\ (SlotQueue(s) = x[1] <=> Entry(s) = x)
    BY <1>0, <1>2, <2>1, <2>2 DEF Entry
  <2>3. Unanswered(p, x[1], c) = {s \in Slots : ProcessOf[s] = p /\ Pending(s, x) /\ work[s].copy = c}
    BY <2>2 DEF Unanswered, Pending
  <2> QED  BY <1>0, <1>1, <2>1, <2>3, TakeBackFacts
<1>4. CASE \E s \in Slots : ProcessOf[s] = p /\ Pending(s, x)
  <2>1. PICK s \in Slots : ProcessOf[s] = p /\ Pending(s, x)
    BY <1>4
  <2>2. /\ x = Entry(s) /\ work[s] # Free /\ work[s].step # "Ack" /\ work[s].step # "free"
    BY <2>1, SlotFacts DEF Pending
  <2>3. /\ x \in routed /\ OnlyPending(x, s) /\ work[s].copy \in CopiesOf(x)
    BY <2>2, HeldBy
  <2>4. ASSUME NEW c \in CopiesOf(x)
        PROVE  ready'[x[1]][c] = IF c = work[s].copy THEN 1 ELSE 0
    <3>1. ready[x[1]][c] = 0
      BY <2>3 DEF OnlyPending, Unqueued
    <3>2. Unanswered(p, x[1], c) = IF c = work[s].copy THEN {s} ELSE {}
      <4>1. \A t \in Slots : Pending(t, x) <=> t = s
        BY <2>3 DEF OnlyPending
      <4>2. Unanswered(p, x[1], c) = {t \in Slots : ProcessOf[t] = p /\ Pending(t, x) /\ work[t].copy = c}
        BY <1>3
      <4> QED  BY <2>1, <4>1, <4>2
    <3>3. Cardinality(Unanswered(p, x[1], c)) = IF c = work[s].copy THEN 1 ELSE 0
      BY <3>2, FS_Singleton, FS_EmptySet
    <3> QED  BY <1>3, <3>1, <3>3
  <2>5. Unheld(x)'
    BY <1>1, <2>1, <2>3 DEF OnlyPending, Unheld, Pending, Entry
  <2>6. Unended(x)'
    BY <1>1, <2>3 DEF OnlyPending, Unended, GivenUp
  <2>7. failures'[x] = work[s].copy.retry
    BY <1>1, <1>2, <2>1, <2>3 DEF OnlyPending, TriesIn
  <2>8. \E c \in CopiesOf(x)' : OnlyQueued(x, c)'
    <3>1. PICK c : c = work[s].copy
      OBVIOUS
    <3>2. OnlyQueued(x, c)' /\ c \in CopiesOf(x)'
      BY <2>3, <2>4, <2>5, <2>6, <2>7, <3>1 DEF OnlyQueued, CopiesOf
    <3> QED  BY <3>2
  <2> QED  BY <1>1, <2>3, <2>8 DEF Located, InOnePlace
<1>5. CASE \A s \in Slots : ProcessOf[s] = p => ~Pending(s, x)
  <2>1. \A c \in CopiesOf(x) : ready'[x[1]][c] = ready[x[1]][c]
    <3>1. ASSUME NEW c \in CopiesOf(x)
          PROVE  ready'[x[1]][c] = ready[x[1]][c]
      <4>1. Unanswered(p, x[1], c) = {}
        BY <1>3, <1>5
      <4>2. Cardinality(Unanswered(p, x[1], c)) = 0
        BY <4>1, FS_EmptySet
      <4> QED  BY <1>0, <1>3, <4>2 DEF ReadyTypeOK
    <3> QED  BY <3>1
  <2>2. ASSUME NEW s \in Slots
        PROVE  /\ Pending(s, x)' <=> Pending(s, x)
               /\ Pending(s, x) => work'[s] = work[s]
    BY <1>1, <1>5 DEF Pending, Entry
  <2>3. Same(x)
    BY <1>1, <2>1, <2>2 DEF Same
  <2> QED  BY <2>3, LocatedStays DEF Calm
<1> QED  BY <1>4, <1>5

\* A first copy of a message where there was none.
LEMMA LocatedAfterPublish ==
    ASSUME TypeOK, Calm, NEW m \in Messages, Publish(m), NEW x \in Entries
    PROVE  Located(x)'
<1>0. ReadyTypeOK /\ x[1] \in Queues /\ x = <<x[1], x[2]>>
  BY DEF TypeOK, BrokerTypeOK, ReadyTypeOK, Entries
<1> DEFINE c0 == [id |-> m, key |-> NameOf[m], retry |-> 0]
<1>1. c0 \in Copies /\ c0.id = m /\ c0.retry = 0
  BY RabbitAssumption DEF Copies
<1>2. PICK qs : Put(qs, c0) /\ routed' = routed \cup (qs \X {m})
  BY DEF Publish
<1>3. /\ sent[m] = "new"
      /\ UNCHANGED <<deadLettered, dropped, work, handled, failures>>
  BY DEF Publish
<1> HIDE DEF c0
<1>4. \A q \in Queues, d \in Copies :
         ready'[q][d] = IF q \in qs /\ d = c0 THEN ready[q][d] + 1 ELSE ready[q][d]
  BY <1>0, <1>1, <1>2, PutFacts
<1>5. \A s \in Slots : Pending(s, x)' <=> Pending(s, x)
  BY <1>3 DEF Pending, Entry
<1>6. CASE x[1] \in qs /\ x[2] = m
  <2>1. x \notin routed
    BY <1>3, <1>6 DEF Calm, UnsentUnrouted
  <2>2. Nowhere(x)
    BY <2>1 DEF Calm, Located
  <2>3. x \in routed'
    BY <1>0, <1>2, <1>6
  <2>4. c0 \in CopiesOf(x) /\ c0 \in CopiesOf(x)'
    BY <1>1, <1>6 DEF CopiesOf
  <2>5. \A d \in CopiesOf(x) : ready'[x[1]][d] = IF d = c0 THEN 1 ELSE 0
    BY <1>0, <1>4, <1>6, <2>2 DEF Nowhere, Unqueued, CopiesOf
  <2>6. Unheld(x)' /\ Unended(x)' /\ failures'[x] = 0
    BY <1>3, <1>5, <2>2 DEF Nowhere, Unheld, Unended, GivenUp
  <2>7. OnlyQueued(x, c0)'
    BY <1>1, <2>5, <2>6 DEF OnlyQueued, CopiesOf
  <2> QED  BY <2>3, <2>4, <2>7 DEF Located, InOnePlace
<1>7. CASE ~(x[1] \in qs /\ x[2] = m)
  <2>1. \A d \in CopiesOf(x) : ready'[x[1]][d] = ready[x[1]][d]
    BY <1>0, <1>1, <1>4, <1>7 DEF CopiesOf
  <2>2. x \in routed' <=> x \in routed
    BY <1>0, <1>2, <1>7
  <2>3. Same(x)
    BY <1>3, <1>5, <2>1, <2>2 DEF Same
  <2> QED  BY <2>3, LocatedStays DEF Calm
<1> QED  BY <1>6, <1>7

\* The copy leaves its queue for the slot.
LEMMA LocatedAfterDeliver ==
    ASSUME TypeOK, Calm, NEW s \in Slots, NEW c \in Copies, Deliver(s, c), NEW x \in Entries
    PROVE  Located(x)'
<1>0. /\ ReadyTypeOK /\ SlotQueue(s) \in Queues
      /\ x[1] \in Queues /\ x = <<x[1], x[2]>>
  BY SlotFacts DEF TypeOK, BrokerTypeOK, ReadyTypeOK, Entries
<1>1. /\ work[s] = Free /\ work[s].step = "free" /\ Take(SlotQueue(s), c)
      /\ work'[s] = [copy |-> c, live |-> TRUE, step |-> "received"]
      /\ \A t \in Slots : t # s => work'[t] = work[t]
      /\ UNCHANGED <<deadLettered, dropped, routed, handled, failures>>
  BY DEF Deliver, TypeOK, Free
<1>2. /\ ready[SlotQueue(s)][c] > 0
      /\ \A q \in Queues, d \in Copies :
            ready'[q][d] = IF q = SlotQueue(s) /\ d = c THEN ready[q][d] - 1 ELSE ready[q][d]
  BY <1>0, <1>1, TakeFacts
<1>3. CASE x = <<SlotQueue(s), c.id>>
  <2>1. x \in routed /\ OnlyQueued(x, c) /\ c \in CopiesOf(x)
    BY <1>0, <1>2, <1>3, QueuedAs DEF CopiesOf
  <2>2. \A d \in CopiesOf(x) : ready'[x[1]][d] = 0
    BY <1>0, <1>2, <1>3, <2>1 DEF OnlyQueued, CopiesOf
  <2>3. \A t \in Slots : Pending(t, x)' <=> t = s
    <3>1. Pending(s, x)'
      <4>1. work'[s] # Free
        BY <1>1 DEF Free
      <4> QED  BY <1>1, <1>3, <4>1 DEF Pending, Entry
    <3> QED  BY <1>1, <2>1, <3>1 DEF OnlyQueued, Unheld, Pending, Entry
  <2>4. Unqueued(x)' /\ Unended(x)'
    BY <1>1, <2>1, <2>2 DEF OnlyQueued, Unqueued, Unended, GivenUp, CopiesOf
  <2>5. failures'[x] = TriesIn(s)'
    BY <1>1, <2>1 DEF OnlyQueued, TriesIn
  <2>6. OnlyPending(x, s)'
    BY <2>3, <2>4, <2>5 DEF OnlyPending
  <2> QED  BY <1>1, <2>1, <2>6 DEF Located, InOnePlace
<1>4. CASE x # <<SlotQueue(s), c.id>>
  <2>1. \A d \in CopiesOf(x) : ready'[x[1]][d] = ready[x[1]][d]
    BY <1>0, <1>2, <1>4 DEF CopiesOf
  <2>2. Same(x)
    BY <1>1, <1>4, <2>1, SameElsewhere
  <2> QED  BY <2>2, LocatedStays DEF Calm
<1> QED  BY <1>3, <1>4

\* No step but a fault leaves the deliveries of processes that have not attached
\* anything but unhandled, or takes the broker's wait away.
LEMMA SlotsStayCalm ==
    ASSUME TypeOK, Calm, faults = 0, [Next]_vars, faults' = 0
    PROVE  AllLive' /\ EarlyDeliveries'
<1>0. work \in [Slots -> Deliveries \cup {Free}] /\ AllLive /\ EarlyDeliveries
  BY DEF TypeOK, Calm
<1>1. CASE UNCHANGED <<work, boot>>
  BY <1>0, <1>1 DEF AllLive, EarlyDeliveries
<1>2. ASSUME NEW s \in Slots, UNCHANGED boot, \A t \in Slots : t # s => work'[t] = work[t],
             work'[s] # Free => work'[s].live,
             boot[ProcessOf[s]] # "attached" => work'[s].step \in {"free", "received", "NackWithRequeue"}
      PROVE  AllLive' /\ EarlyDeliveries'
  BY <1>0, <1>2 DEF AllLive, EarlyDeliveries
<1>3. ASSUME NEW s \in Slots, NEW step \in Steps, work[s].step # "free", MoveTo(s, step), UNCHANGED boot,
             step = "republishing" => work[s].copy.retry < MaxRetry,
             boot[ProcessOf[s]] # "attached" => step = "NackWithRequeue"
      PROVE  AllLive' /\ EarlyDeliveries'
  <2>1. /\ work'[s] = [copy |-> work[s].copy, live |-> work[s].live, step |-> step]
        /\ \A t \in Slots : t # s => work'[t] = work[t]
    BY <1>3, MoveToFacts
  <2>2. work[s].live
    BY <1>0, <1>3, SlotFacts DEF AllLive
  <2> QED  BY <1>2, <1>3, <2>1, <2>2
<1>4. /\ \A m \in Messages : ~PublishDropped(m)
      /\ \A s \in Slots : ~RepublishDropped(s) /\ ~RepublishThrows(s)
  BY DEF PublishDropped, RepublishDropped, RepublishThrows
<1>5. CASE UNCHANGED vars \/ \E m \in Messages : Publish(m) \/ PublishRejected(m)
  BY <1>1, <1>5 DEF vars, Publish, PublishRejected
<1>6. ASSUME NEW p \in Processes, NEW n \in Names, SubscribeEvent(p, n)
      PROVE  AllLive' /\ EarlyDeliveries'
  BY <1>1, <1>6 DEF SubscribeEvent
<1>7. ASSUME NEW p \in Processes, AttachConsumer(p)
      PROVE  AllLive' /\ EarlyDeliveries'
  <2>1. UNCHANGED work /\ \A r : boot'[r] # "attached" => boot[r] # "attached"
    BY <1>7 DEF AttachConsumer, TypeOK
  <2> QED  BY <1>0, <2>1 DEF AllLive, EarlyDeliveries
<1>8. ASSUME NEW p \in Processes, NEW n \in Names, SubscribeFails(p, n)
      PROVE  AllLive' /\ EarlyDeliveries'
  <2>1. /\ work' = [s \in Slots |-> IF ProcessOf[s] = p THEN Free ELSE work[s]]
        /\ \A r : r # p => boot'[r] = boot[r]
    BY <1>8 DEF SubscribeFails, ProcessEnds, TypeOK
  <2> QED  BY <1>0, <2>1 DEF AllLive, EarlyDeliveries, Free
<1>9. ASSUME NEW p \in Processes, ConnectionLost(p) \/ Crash(p)
      PROVE  FALSE
  BY <1>9 DEF ConnectionLost, Crash
<1>10. ASSUME NEW s \in Slots, NEW c \in Copies, Deliver(s, c)
      PROVE  AllLive' /\ EarlyDeliveries'
  <2>1. /\ work'[s] = [copy |-> c, live |-> TRUE, step |-> "received"]
        /\ \A t \in Slots : t # s => work'[t] = work[t]
        /\ UNCHANGED boot
    BY <1>0, <1>10 DEF Deliver
  <2> QED  BY <1>2, <2>1
<1>11. ASSUME NEW s \in Slots, SkipNoConsumer(s)
       PROVE  AllLive' /\ EarlyDeliveries'
  BY <1>3, <1>11 DEF SkipNoConsumer, Steps
<1>12. ASSUME NEW s \in Slots, HandlerReturns(s)
       PROVE  AllLive' /\ EarlyDeliveries'
  BY <1>3, <1>12 DEF HandlerReturns, Steps
<1>13. ASSUME NEW s \in Slots, HandlerThrows(s)
       PROVE  AllLive' /\ EarlyDeliveries'
  <2>1. /\ AfterFailure(work[s].copy) \in Steps
        /\ AfterFailure(work[s].copy) = "republishing" => work[s].copy.retry < MaxRetry
    BY DEF AfterFailure, Steps
  <2> QED  BY <1>3, <1>13, <2>1 DEF HandlerThrows
<1>14. ASSUME NEW s \in Slots, Republish(s)
       PROVE  AllLive' /\ EarlyDeliveries'
  <2>1. boot[ProcessOf[s]] = "attached"
    BY <1>0, <1>14 DEF Republish, EarlyDeliveries
  <2> QED  BY <1>3, <1>14, <2>1 DEF Republish, Steps
<1>15. ASSUME NEW s \in Slots, Answer(s)
       PROVE  AllLive' /\ EarlyDeliveries'
  <2>1. /\ work'[s] = Free /\ Free.step = "free" /\ UNCHANGED boot
        /\ \A t \in Slots : t # s => work'[t] = work[t]
    BY <1>0, <1>15 DEF Answer, Free
  <2> QED  BY <1>2, <2>1
<1>16. CASE \E p \in Processes : BootStep(p) \/ ConnectionLost(p) \/ Crash(p)
  BY <1>6, <1>7, <1>8, <1>9, <1>16 DEF BootStep
<1>17. CASE \E s \in Slots : SlotStep(s)
  <2>1. PICK s \in Slots : SlotStep(s)
    BY <1>17
  <2> QED  BY <1>4, <1>10, <1>11, <1>12, <1>13, <1>14, <1>15, <2>1 DEF SlotStep
<1> QED  BY <1>4, <1>5, <1>16, <1>17 DEF Next

\* Each message stays in one place.
LEMMA LocatedAfterStep ==
    ASSUME TypeOK, Calm, faults = 0, [Next]_vars, faults' = 0, NEW x \in Entries
    PROVE  Located(x)'
<1>1. ASSUME UNCHANGED <<ready, deadLettered, dropped, work, handled, routed, failures>>
      PROVE  Located(x)'
  <2>1. Same(x)
    BY <1>1 DEF Same, Pending, Entry
  <2> QED  BY <2>1, LocatedStays DEF Calm
<1>2. CASE UNCHANGED vars \/ \E m \in Messages : PublishRejected(m)
  BY <1>1, <1>2 DEF vars, PublishRejected, brokerVars
<1>3. CASE \E m \in Messages : Publish(m)
  BY <1>3, LocatedAfterPublish
<1>4. ASSUME NEW p \in Processes, AttachConsumer(p) \/ \E n \in Names : SubscribeEvent(p, n)
      PROVE  Located(x)'
  BY <1>1, <1>4 DEF AttachConsumer, SubscribeEvent, brokerVars
<1>5. CASE \E p \in Processes, n \in Names : SubscribeFails(p, n)
  BY <1>5, LocatedAfterFailedStart
<1>6. ASSUME NEW p \in Processes, ConnectionLost(p) \/ Crash(p)
      PROVE  FALSE
  BY <1>6 DEF ConnectionLost, Crash
<1>7. CASE \E s \in Slots, c \in Copies : Deliver(s, c)
  BY <1>7, LocatedAfterDeliver
<1>8. ASSUME NEW s \in Slots, work[s].step # "free"
      PROVE  work[s] \in Deliveries /\ work[s].copy \in Copies /\ work[s].live
  BY <1>8, SlotFacts DEF Calm, AllLive
<1>9. ASSUME NEW s \in Slots, SkipNoConsumer(s)
      PROVE  Located(x)'
  <2>1. /\ work[s].step = "received" /\ MoveTo(s, "NackWithRequeue")
        /\ UNCHANGED <<brokerVars, routed, handled, failures>>
    BY <1>9 DEF SkipNoConsumer
  <2>2. work'[s] = [copy |-> work[s].copy, live |-> work[s].live, step |-> "NackWithRequeue"]
    BY <2>1, MoveToFacts DEF Steps
  <2>3. \A y : y = Entry(s) => failures'[y] = TriesIn(s)'
    BY <2>1, <2>2, HeldBy DEF OnlyPending, TriesIn
  <2> QED  BY <2>1, <2>3, LocatedAfterMove DEF Steps
<1>10. ASSUME NEW s \in Slots, HandlerReturns(s)
       PROVE  Located(x)'
  <2>1. /\ work[s].step = "received" /\ MoveTo(s, "Ack") /\ handled' = handled \cup {Entry(s)}
        /\ UNCHANGED <<ready, deadLettered, dropped, routed, failures>>
    BY <1>10 DEF HandlerReturns, brokerVars
  <2>2. /\ work'[s] = [copy |-> work[s].copy, live |-> work[s].live, step |-> "Ack"]
        /\ \A t \in Slots : t # s => work'[t] = work[t]
    BY <2>1, MoveToFacts DEF Steps
  <2> QED  BY <2>1, <2>2, LocatedAfterEnd
<1>11. ASSUME NEW s \in Slots, HandlerThrows(s)
       PROVE  Located(x)'
  <2> DEFINE step == AfterFailure(work[s].copy)
  <2>1. /\ work[s].step = "received" /\ MoveTo(s, step)
        /\ failures' = [failures EXCEPT ![Entry(s)] = @ + 1]
        /\ UNCHANGED <<brokerVars, routed, handled>>
    BY <1>11 DEF HandlerThrows
  <2>2. /\ step \in {"republishing", "NackWithoutRequeue"} /\ step \in Steps \ {"Ack"}
        /\ step = "republishing" => work[s].copy.retry < MaxRetry
    BY DEF AfterFailure, Steps
  <2>3. failures \in [Entries -> Nat]
    BY DEF TypeOK
  <2> HIDE DEF step
  <2>4. work'[s] = [copy |-> work[s].copy, live |-> work[s].live, step |-> step]
    BY <2>1, <2>2, MoveToFacts
  <2>5. ASSUME NEW y, y = Entry(s)
        PROVE  failures'[y] = TriesIn(s)'
    <3>1. y \in Entries /\ failures[y] = work[s].copy.retry
      BY <2>1, <2>5, HeldBy DEF OnlyPending, TriesIn
    <3>2. failures'[y] = work[s].copy.retry + 1
      BY <2>1, <2>3, <2>5, <3>1
    <3> QED  BY <2>2, <2>4, <3>2 DEF TriesIn
  <2>6. \A y \in Entries : y # Entry(s) => failures'[y] = failures[y]
    BY <2>1, <2>3
  <2> QED  BY <2>1, <2>2, <2>5, <2>6, LocatedAfterMove
<1>12. ASSUME NEW s \in Slots, Republish(s)
       PROVE  Located(x)'
  <2>1. /\ work[s].step = "republishing" /\ MoveTo(s, "Ack") /\ Put({SlotQueue(s)}, RetryCopy(s))
        /\ UNCHANGED <<deadLettered, dropped, routed, handled, failures>>
    BY <1>12 DEF Republish
  <2>2. /\ work'[s] = [copy |-> work[s].copy, live |-> work[s].live, step |-> "Ack"]
        /\ \A t \in Slots : t # s => work'[t] = work[t]
    BY <2>1, MoveToFacts DEF Steps
  <2>3. /\ RetryCopy(s) \in Copies /\ RetryCopy(s).id = work[s].copy.id
        /\ RetryCopy(s).retry = TriesIn(s)
    BY <2>1, RetryCopyFacts DEF TriesIn
  <2> QED  BY <2>1, <2>2, <2>3, LocatedAfterRequeue
<1>13. ASSUME \/ \E m \in Messages : PublishDropped(m)
              \/ \E s \in Slots : RepublishDropped(s) \/ RepublishThrows(s)
       PROVE  FALSE
  BY <1>13 DEF PublishDropped, RepublishDropped, RepublishThrows
<1>14. ASSUME NEW s \in Slots, Answer(s)
       PROVE  Located(x)'
  <2>1. /\ work[s].step \in {"Ack", "NackWithRequeue", "NackWithoutRequeue"}
        /\ work'[s] = Free /\ \A t \in Slots : t # s => work'[t] = work[t]
        /\ UNCHANGED <<routed, handled, failures>>
    BY <1>14 DEF Answer, TypeOK
  <2>2. work[s].live /\ work[s].copy \in Copies
    BY <1>8, <2>1
  <2>3. CASE work[s].step = "Ack"
    <3>1. UNCHANGED <<ready, deadLettered, dropped>>
      BY <1>14, <2>3 DEF Answer
    <3>2. \A t \in Slots : /\ Pending(t, x)' <=> Pending(t, x)
                           /\ Pending(t, x) => work'[t] = work[t]
      BY <2>1, <2>3 DEF Pending, Entry
    <3>3. Same(x)
      BY <2>1, <3>1, <3>2 DEF Same
    <3> QED  BY <3>3, LocatedStays DEF Calm
  <2>4. CASE work[s].step = "NackWithRequeue"
    <3>1. Put({SlotQueue(s)}, work[s].copy) /\ UNCHANGED <<deadLettered, dropped>>
      BY <1>14, <2>2, <2>4 DEF Answer
    <3>2. work[s].copy.retry = TriesIn(s)
      BY <2>4 DEF TriesIn
    <3> QED  BY <2>1, <2>2, <2>4, <3>1, <3>2, LocatedAfterRequeue
  <2>5. CASE work[s].step = "NackWithoutRequeue"
    <3>1. /\ UNCHANGED ready
          /\ deadLettered' \cup dropped' = deadLettered \cup dropped \cup {<<SlotQueue(s), work[s].copy>>}
      BY <1>14, <2>2, <2>5 DEF Answer, Discard
    <3> QED  BY <2>1, <2>5, <3>1, LocatedAfterEnd
  <2> QED  BY <2>1, <2>3, <2>4, <2>5
<1>15. CASE \E p \in Processes : BootStep(p) \/ ConnectionLost(p) \/ Crash(p)
  BY <1>4, <1>5, <1>6, <1>15 DEF BootStep
<1>16. CASE \E s \in Slots : SlotStep(s)
  BY <1>7, <1>9, <1>10, <1>11, <1>12, <1>13, <1>14, <1>16 DEF SlotStep
<1> QED  BY <1>2, <1>3, <1>13, <1>15, <1>16 DEF Next

\* A message is in a queue only once it was sent.
LEMMA UnsentStays ==
    ASSUME TypeOK, Calm, [Next]_vars
    PROVE  UnsentUnrouted'
<1>0. /\ UnsentUnrouted /\ routed \subseteq Entries
      /\ sent \in [Messages -> {"new", "published", "rejected"}]
  BY DEF Calm, TypeOK
<1>1. CASE UNCHANGED <<routed, sent>>
  BY <1>0, <1>1 DEF UnsentUnrouted
<1>2. ASSUME NEW m \in Messages, PublishRejected(m)
      PROVE  UnsentUnrouted'
  <2>1. UNCHANGED routed /\ \A k \in Messages : sent'[k] = "new" => sent[k] = "new"
    BY <1>0, <1>2 DEF PublishRejected
  <2> QED  BY <1>0, <2>1 DEF UnsentUnrouted, Entries
<1>3. ASSUME NEW m \in Messages, Publish(m) \/ PublishDropped(m)
      PROVE  UnsentUnrouted'
  <2>1. /\ sent'[m] = "published"
        /\ \A k \in Messages : sent'[k] = "new" => sent[k] = "new"
        /\ \A x \in routed' : x \in routed \/ x[2] = m
    BY <1>0, <1>3 DEF Publish, PublishDropped
  <2> QED  BY <1>0, <2>1 DEF UnsentUnrouted, Entries
<1> QED  BY <1>1, <1>2, <1>3
         DEF Next, vars, BootStep, SubscribeEvent, SubscribeFails, AttachConsumer, ConnectionLost, Crash,
             SlotStep, Deliver, SkipNoConsumer, HandlerReturns, HandlerThrows, Republish, RepublishDropped,
             RepublishThrows, Answer

CalmUntilFault == faults = 0 => Calm

LEMMA CalmInitially == Init => CalmUntilFault
<1> SUFFICES ASSUME Init PROVE Calm
  BY DEF CalmUntilFault
<1>1. \A x \in Entries : Located(x)
  <2>1. ASSUME NEW x \in Entries
        PROVE  Located(x)
    <3>1. x[1] \in Queues
      BY DEF Entries
    <3> QED  BY <3>1 DEF Init, BrokerInit, Located, Nowhere, Unqueued, Unheld, Unended, CopiesOf, Pending,
                         GivenUp
  <2> QED  BY <2>1
<1> QED  BY <1>1 DEF Init, Calm, AllLive, EarlyDeliveries, UnsentUnrouted, Free

\* A step without a fault follows no fault.
LEMMA NoFaultBefore ==
    ASSUME TypeOK, [Next]_vars, faults' = 0
    PROVE  faults = 0
<1>1. faults \in Nat
  BY RabbitAssumption DEF TypeOK
<1>2. UNCHANGED faults \/ faults' = faults + 1
  BY DEF Next, vars, Publish, PublishDropped, PublishRejected, BootStep, SubscribeEvent, SubscribeFails,
         AttachConsumer, ConnectionLost, Crash, SlotStep, Deliver, SkipNoConsumer, HandlerReturns,
         HandlerThrows, Republish, RepublishDropped, RepublishThrows, Answer
<1> QED  BY <1>1, <1>2

LEMMA CalmInductive == TypeOK /\ CalmUntilFault /\ [Next]_vars => CalmUntilFault'
<1> SUFFICES ASSUME TypeOK, CalmUntilFault, [Next]_vars, faults' = 0 PROVE Calm'
  BY DEF CalmUntilFault
<1>1. faults = 0
  BY NoFaultBefore
<1>2. Calm
  BY <1>1 DEF CalmUntilFault
<1>3. AllLive' /\ EarlyDeliveries' /\ UnsentUnrouted'
  BY <1>1, <1>2, SlotsStayCalm, UnsentStays
<1>4. \A x \in Entries : Located(x)'
  BY <1>1, <1>2, LocatedAfterStep
<1> QED  BY <1>3, <1>4 DEF Calm, Entries

-----------------------------------------------------------------------------
(* What follows *)

\* A message in one place has one place, where there is one of it.
LEMMA OnePlace ==
    ASSUME TypeOK, Calm, NEW x \in routed
    PROVE  /\ Cardinality(Places(x)) = 1
           /\ \A c \in Copies : ready[x[1]][c] <= 1
           /\ failures[x] <= MaxRetry + 1
<1>0. x \in Entries /\ x[1] \in Queues /\ ReadyTypeOK /\ MaxRetry \in Nat
  BY RabbitAssumption DEF TypeOK, Entries, BrokerTypeOK, ReadyTypeOK
<1>1. InOnePlace(x)
  BY <1>0 DEF Calm, Located
<1>2. /\ \E place : Places(x) = {place}
      /\ failures[x] <= MaxRetry + 1
  <2>1. ASSUME NEW c \in CopiesOf(x), OnlyQueued(x, c)
        PROVE  Places(x) = {<<"queue", c>>} /\ failures[x] <= MaxRetry + 1
    <3>1. {d \in Copies : d.id = x[2] /\ ready[x[1]][d] > 0} = {c}
      BY <2>1 DEF OnlyQueued, CopiesOf
    <3>2. {s \in Slots : Pending(s, x)} = {} /\ x \notin handled /\ ~GivenUp(x)
      BY <2>1 DEF OnlyQueued, Unheld, Unended
    <3>3. c.retry \in 0..MaxRetry
      BY DEF CopiesOf, Copies
    <3> QED  BY <1>0, <2>1, <3>1, <3>2, <3>3 DEF Places, OnlyQueued
  <2>2. ASSUME NEW s \in Slots, OnlyPending(x, s)
        PROVE  Places(x) = {<<"slot", s>>} /\ failures[x] <= MaxRetry + 1
    <3>1. {d \in Copies : d.id = x[2] /\ ready[x[1]][d] > 0} = {}
      BY <2>2 DEF OnlyPending, Unqueued, CopiesOf
    <3>2. {t \in Slots : Pending(t, x)} = {s} /\ x \notin handled /\ ~GivenUp(x)
      BY <2>2 DEF OnlyPending, Unended
    <3>3. Pending(s, x)
      BY <2>2 DEF OnlyPending
    <3>4. work[s].copy.retry \in 0..MaxRetry
      BY <3>3, SlotFacts DEF Pending, Copies
    <3>5. failures[x] <= MaxRetry + 1
      BY <1>0, <2>2, <3>4 DEF OnlyPending, TriesIn
    <3> QED  BY <3>1, <3>2, <3>5 DEF Places
  <2>3. ASSUME OnlyEnded(x)
        PROVE  (\E place : Places(x) = {place}) /\ failures[x] <= MaxRetry + 1
    <3>1. {d \in Copies : d.id = x[2] /\ ready[x[1]][d] > 0} = {}
      BY <2>3 DEF OnlyEnded, Unqueued, CopiesOf
    <3>2. {t \in Slots : Pending(t, x)} = {} /\ (x \in handled <=> ~GivenUp(x))
      BY <2>3 DEF OnlyEnded, Unheld
    <3>3. Places(x) = {<<"end", "handled">>} \/ Places(x) = {<<"end", "given up">>}
      BY <3>1, <3>2 DEF Places
    <3> QED  BY <2>3, <3>3 DEF OnlyEnded
  <2> QED  BY <1>1, <2>1, <2>2, <2>3 DEF InOnePlace
<1>3. \A c \in Copies : ready[x[1]][c] <= 1
  <2>1. ASSUME NEW c \in Copies, ready[x[1]][c] > 0
        PROVE  ready[x[1]][c] = 1
    <3>1. PICK y : y = <<x[1], c.id>>
      OBVIOUS
    <3>2. OnlyQueued(y, c) /\ c \in CopiesOf(y) /\ y[1] = x[1]
      BY <1>0, <2>1, <3>1, QueuedAs DEF CopiesOf
    <3> QED  BY <3>2 DEF OnlyQueued
  <2> QED  BY <1>0, <2>1 DEF ReadyTypeOK
<1> QED  BY <1>2, <1>3, FS_Singleton

\* Exactly once without faults: whatever is republished, requeued or taken back from
\* a process that does not start, there is one copy, one delivery or one end of a
\* message in each queue (SubscribeEventAsync and HandleConsumeFailureAsync).
THEOREM NoFaultNoDuplicateAlways == Spec => []NoFaultNoDuplicate
<1>1. TypeOK /\ CalmUntilFault => NoFaultNoDuplicate
  BY OnePlace DEF CalmUntilFault, NoFaultNoDuplicate
<1> QED  BY <1>1, TypeInitially, TypeInductive, CalmInitially, CalmInductive, PTL DEF Spec

\* A message is given up after MaxRetry + 1 failed tries, not before, whatever faults
\* there are; and tried no more often when there are none (GetRetryCount,
\* HandleConsumeFailureAsync).
THEOREM GivenUpAfterAllTriesAlways == Spec => []GivenUpAfterAllTries
<1>1. TypeOK /\ TriesCounted /\ CalmUntilFault => GivenUpAfterAllTries
  <2> SUFFICES ASSUME TypeOK, TriesCounted, CalmUntilFault, NEW x \in routed
               PROVE  /\ GivenUp(x) => failures[x] >= MaxRetry + 1
                      /\ faults = 0 => failures[x] <= MaxRetry + 1
    BY DEF GivenUpAfterAllTries
  <2>1. x \in Queues \X Messages
    BY DEF TypeOK, Entries
  <2>2. GivenUp(x) => failures[x] >= MaxRetry + 1
    BY <2>1 DEF GivenUp, TriesCounted, TriesOfGivenUp
  <2> QED  BY <2>2, OnePlace DEF CalmUntilFault
<1> QED  BY <1>1, TypeInitially, TypeInductive, TriesInitially, TriesInductive, CalmInitially, CalmInductive,
            PTL DEF Spec

-----------------------------------------------------------------------------
(* The life of a message in a queue *)

\* A message whose handlers are about to run is open, and its header counts its tries.
LEMMA OpenWhenReceived ==
    ASSUME TypeOK, Calm, NEW s \in Slots, work[s].step = "received", NEW x, x = Entry(s)
    PROVE  /\ x \in Entries
           /\ work[s].copy.retry \in 0..MaxRetry
           /\ failures[x] = work[s].copy.retry
           /\ x \notin handled
           /\ Fate[x] = "open"
<1>1. x \in Entries /\ OnlyPending(x, s) /\ work[s].copy \in CopiesOf(x)
  BY HeldBy
<1>2. failures[x] = work[s].copy.retry /\ x \notin handled
  BY <1>1 DEF OnlyPending, TriesIn, Unended
<1>3. work[s].copy.retry \in 0..MaxRetry /\ MaxRetry \in Nat
  BY <1>1, RabbitAssumption DEF CopiesOf, Copies
<1>4. Fate[x] = "open"
  <2>1. ~(failures[x] > MaxRetry)
    BY <1>2, <1>3
  <2> QED  BY <1>1, <1>2, <2>1 DEF Fate
<1> QED  BY <1>1, <1>2, <1>3, <1>4

LEMMA HandlersEndLife ==
    ASSUME TypeOK, Calm, NEW s \in Slots, HandlerReturns(s)
    PROVE  Life!Next
<1>1. PICK x : x = Entry(s)
  OBVIOUS
<1>2. x \in Entries /\ x \notin handled /\ Fate[x] = "open"
  BY <1>1, OpenWhenReceived DEF HandlerReturns
<1>3. handled' = handled \cup {x} /\ failures' = failures
  BY <1>1 DEF HandlerReturns
<1>4. Fate' = [Fate EXCEPT ![x] = "handled"]
  BY <1>2, <1>3 DEF Fate
<1>5. Life!Handle(x)
  BY <1>2, <1>3, <1>4 DEF Life!Handle
<1> QED  BY <1>2, <1>5 DEF Life!Next

LEMMA FailureInLife ==
    ASSUME TypeOK, Calm, NEW s \in Slots, HandlerThrows(s)
    PROVE  Life!Next
<1>1. PICK x : x = Entry(s)
  OBVIOUS
<1>2. /\ x \in Entries /\ x \notin handled /\ Fate[x] = "open"
      /\ failures[x] \in 0..MaxRetry
  BY <1>1, OpenWhenReceived DEF HandlerThrows
<1>3. /\ failures \in [Entries -> Nat] /\ MaxRetry \in Nat
      /\ failures' = [failures EXCEPT ![x] = @ + 1]
      /\ handled' = handled
  BY <1>1, RabbitAssumption DEF HandlerThrows, TypeOK
<1>4. /\ failures'[x] = failures[x] + 1
      /\ \A y \in Entries : y # x => failures'[y] = failures[y]
  BY <1>2, <1>3
<1>5. CASE failures[x] < MaxRetry
  <2>1. ~(failures'[x] > MaxRetry) /\ ~(failures[x] > MaxRetry)
    BY <1>2, <1>3, <1>4, <1>5
  <2>2. Fate' = Fate
    BY <1>3, <1>4, <2>1 DEF Fate
  <2>3. Life!Retry(x)
    BY <1>2, <1>3, <1>5, <2>2 DEF Life!Retry
  <2> QED  BY <1>2, <2>3 DEF Life!Next
<1>6. CASE ~(failures[x] < MaxRetry)
  <2>1. failures[x] = MaxRetry /\ failures'[x] > MaxRetry
    BY <1>2, <1>3, <1>4, <1>6
  <2>2. Fate' = [Fate EXCEPT ![x] = "poisoned"]
    BY <1>2, <1>3, <1>4, <2>1 DEF Fate
  <2>3. Life!GiveUp(x)
    BY <1>2, <1>3, <2>1, <2>2 DEF Life!GiveUp
  <2> QED  BY <1>2, <2>3 DEF Life!Next
<1> QED  BY <1>5, <1>6

\* The RabbitMQ transport is a third implementation of EventLife, until the first
\* fault: in each queue a message is retried within its budget and ends once, whatever
\* processes, consumers and queues share it (the callback of Consume and
\* HandleConsumeFailureAsync).
THEOREM LivesUntilFaultAlways == Spec => LivesUntilFault
<1>1. Init => Life!Init
  <2> SUFFICES ASSUME Init PROVE Life!Init
    OBVIOUS
  <2>1. failures = [x \in Entries |-> 0] /\ handled = {} /\ MaxRetry \in Nat
    BY RabbitAssumption DEF Init
  <2>2. \A x \in Entries : ~(failures[x] > MaxRetry)
    BY <2>1
  <2>3. Fate = [x \in Entries |-> "open"]
    BY <2>1, <2>2 DEF Fate
  <2> QED  BY <2>1, <2>3 DEF Life!Init
<1>2. TypeOK /\ CalmUntilFault /\ [Next]_vars => (faults' = 0 => [Life!Next]_<<failures, Fate>>)
  <2> SUFFICES ASSUME TypeOK, CalmUntilFault, [Next]_vars, faults' = 0
               PROVE  [Life!Next]_<<failures, Fate>>
    OBVIOUS
  <2>1. Calm
    BY NoFaultBefore DEF CalmUntilFault
  <2>2. CASE \E s \in Slots : HandlerReturns(s) \/ HandlerThrows(s)
    BY <2>1, <2>2, HandlersEndLife, FailureInLife
  <2>3. CASE ~ \E s \in Slots : HandlerReturns(s) \/ HandlerThrows(s)
    <3>1. UNCHANGED <<failures, handled>>
      BY <2>3 DEF Next, vars, Publish, PublishDropped, PublishRejected, BootStep, SubscribeEvent,
                  SubscribeFails, AttachConsumer, ConnectionLost, Crash, SlotStep, Deliver, SkipNoConsumer,
                  Republish, RepublishDropped, RepublishThrows, Answer
    <3>2. Fate' = Fate
      BY <3>1 DEF Fate
    <3> QED  BY <3>1, <3>2
  <2> QED  BY <2>2, <2>3
<1> QED  BY <1>1, <1>2, TypeInitially, TypeInductive, CalmInitially, CalmInductive, PTL
         DEF Spec, LivesUntilFault
=============================================================================
