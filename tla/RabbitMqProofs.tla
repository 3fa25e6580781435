--------------------------- MODULE RabbitMqProofs ---------------------------
(***************************************************************************)
(* Theorems about the RabbitMQ transport, for any processes, bindings,     *)
(* queues and messages, any number of consumers and slots, any retry limit *)
(* and any number of crashes, lost connections and failed republishes: the *)
(* types, that no message is lost but by a publish the broker never        *)
(* confirmed, and that none is given up before its retries are used up.    *)
(***************************************************************************)
EXTENDS RabbitMqBus, FiniteSetTheorems, TLAPS

-----------------------------------------------------------------------------
(* The queues *)

ReadyTypeOK == ready \in [Queues -> [Copies -> Nat]]

\* What a publish adds.
LEMMA PutFacts ==
    ASSUME ReadyTypeOK, NEW qs, NEW c \in Copies, Put(qs, c)
    PROVE  /\ ReadyTypeOK'
           /\ \A q \in Queues, d \in Copies :
                 ready'[q][d] = IF q \in qs /\ d = c THEN ready[q][d] + 1 ELSE ready[q][d]
BY DEF ReadyTypeOK, Put

\* What a delivery takes away.
LEMMA TakeFacts ==
    ASSUME ReadyTypeOK, NEW q \in Queues, NEW c \in Copies, Take(q, c)
    PROVE  /\ ReadyTypeOK'
           /\ ready[q][c] > 0
           /\ \A r \in Queues, d \in Copies :
                 ready'[r][d] = IF r = q /\ d = c THEN ready[r][d] - 1 ELSE ready[r][d]
<1>1. ready[q][c] \in Nat \ {0} /\ ready' = [ready EXCEPT ![q][c] = @ - 1]
  BY DEF ReadyTypeOK, Take
<1>2. \A r \in Queues, d \in Copies :
         ready'[r][d] = IF r = q /\ d = c THEN ready[r][d] - 1 ELSE ready[r][d]
  BY <1>1 DEF ReadyTypeOK
<1>3. ReadyTypeOK'
  <2>1. ready[q][c] - 1 \in Nat
    BY <1>1
  <2>2. [ready[q] EXCEPT ![c] = ready[q][c] - 1] \in [Copies -> Nat]
    BY <2>1 DEF ReadyTypeOK
  <2>3. ready' = [ready EXCEPT ![q] = [ready[q] EXCEPT ![c] = ready[q][c] - 1]]
    BY <1>1 DEF ReadyTypeOK
  <2> QED  BY <2>2, <2>3 DEF ReadyTypeOK
<1> QED  BY <1>1, <1>2, <1>3

\* What the broker takes back: at least one copy for each delivery it waits for.
LEMMA TakeBackFacts ==
    ASSUME ReadyTypeOK, NEW p, TakeBack(p)
    PROVE  /\ ReadyTypeOK'
           /\ \A q \in Queues, c \in Copies :
                 /\ ready'[q][c] = ready[q][c] + Cardinality(Unanswered(p, q, c))
                 /\ ready'[q][c] >= ready[q][c]
                 /\ Unanswered(p, q, c) # {} => ready'[q][c] > 0
<1>1. ASSUME NEW q \in Queues, NEW c \in Copies
      PROVE  /\ Cardinality(Unanswered(p, q, c)) \in Nat
             /\ Unanswered(p, q, c) # {} => Cardinality(Unanswered(p, q, c)) > 0
             /\ ready[q][c] \in Nat
             /\ ready'[q][c] = ready[q][c] + Cardinality(Unanswered(p, q, c))
  <2>1. Unanswered(p, q, c) \in SUBSET Slots /\ IsFiniteSet(Slots)
    BY RabbitAssumption DEF Unanswered
  <2>2. IsFiniteSet(Unanswered(p, q, c))
    BY <2>1, FS_Subset
  <2>3. Cardinality(Unanswered(p, q, c)) \in Nat
    BY <2>2, FS_CardinalityType
  <2>4. Unanswered(p, q, c) # {} => Cardinality(Unanswered(p, q, c)) # 0
    BY <2>2, FS_EmptySet
  <2> QED  BY <2>3, <2>4 DEF TakeBack, ReadyTypeOK
<1>2. ReadyTypeOK'
  <2>1. ready' = [q \in Queues |-> [c \in Copies |-> ready[q][c] + Cardinality(Unanswered(p, q, c))]]
    BY DEF TakeBack
  <2>2. \A q \in Queues, c \in Copies : ready[q][c] + Cardinality(Unanswered(p, q, c)) \in Nat
    BY <1>1
  <2> QED  BY <2>1, <2>2 DEF ReadyTypeOK
<1> QED  BY <1>1, <1>2

-----------------------------------------------------------------------------
(* Types *)

\* The queue of a slot, and what is delivered in it.
LEMMA SlotFacts ==
    ASSUME TypeOK, NEW s \in Slots
    PROVE  /\ SlotQueue(s) \in Queues
           /\ work[s] \in Deliveries \cup {Free}
           /\ work[s].step # "free" =>
                 /\ work[s] \in Deliveries /\ work[s] # Free
                 /\ work[s].copy \in Copies /\ work[s].live \in BOOLEAN
                 /\ Entry(s) \in Entries
                 /\ Entry(s) = <<SlotQueue(s), work[s].copy.id>>
           /\ work[s].step = "free" => work[s] = Free
<1>1. SlotQueue(s) \in Queues
  BY RabbitAssumption DEF SlotQueue
<1>2. work[s] \in Deliveries \cup {Free}
  BY DEF TypeOK
<1>3. CASE work[s] = Free
  <2>1. work[s].step = "free"
    BY <1>3 DEF Free
  <2> QED  BY <1>1, <1>2, <1>3, <2>1
<1>4. CASE work[s] \in Deliveries
  <2>1. work[s].copy \in Copies /\ work[s].live \in BOOLEAN /\ work[s].step \in Steps
    BY <1>4 DEF Deliveries
  <2>2. work[s].step # "free" /\ work[s] # Free
    BY <2>1 DEF Steps, Free
  <2>3. Entry(s) = <<SlotQueue(s), work[s].copy.id>> /\ work[s].copy.id \in Messages
    BY <2>1 DEF Entry, Copies
  <2> QED  BY <1>1, <1>2, <1>4, <2>1, <2>2, <2>3 DEF Entries
<1> QED  BY <1>2, <1>3, <1>4

\* No queue, no consumer, no delivery.
LEMMA TypeInitially == Init => TypeOK
<1> SUFFICES ASSUME Init PROVE TypeOK
  OBVIOUS
<1>1. BrokerTypeOK
  BY DEF Init, BrokerInit, BrokerTypeOK
<1>2. 0 \in 0..MaxFaults
  BY RabbitAssumption
<1>3. RepublishHasRetries
  BY DEF Init, Free, RepublishHasRetries
<1> QED  BY <1>1, <1>2, <1>3 DEF Init, TypeOK

\* A step of the callback in a slot leaves the slot well-typed.
LEMMA MoveToFacts ==
    ASSUME TypeOK, NEW s \in Slots, NEW step \in Steps, work[s].step # "free", MoveTo(s, step),
           step = "republishing" => work[s].copy.retry < MaxRetry
    PROVE  /\ work' \in [Slots -> Deliveries \cup {Free}]
           /\ RepublishHasRetries'
           /\ work'[s] = [copy |-> work[s].copy, live |-> work[s].live, step |-> step]
           /\ \A t \in Slots : t # s => work'[t] = work[t]
<1>1. work[s] \in Deliveries /\ work \in [Slots -> Deliveries \cup {Free}]
  BY SlotFacts DEF TypeOK
<1>2. work' = [work EXCEPT ![s] = [work[s] EXCEPT !.step = step]]
  BY DEF MoveTo
<1>3. [work[s] EXCEPT !.step = step] = [copy |-> work[s].copy, live |-> work[s].live, step |-> step]
  BY <1>1 DEF Deliveries
<1>4. [copy |-> work[s].copy, live |-> work[s].live, step |-> step] \in Deliveries
  BY <1>1 DEF Deliveries
<1>5. /\ work'[s] = [copy |-> work[s].copy, live |-> work[s].live, step |-> step]
      /\ \A t \in Slots : t # s => work'[t] = work[t]
  BY <1>1, <1>2, <1>3
<1>6. work' \in [Slots -> Deliveries \cup {Free}]
  BY <1>1, <1>2, <1>3, <1>4
<1>7. RepublishHasRetries'
  BY <1>5 DEF TypeOK, RepublishHasRetries
<1> QED  BY <1>5, <1>6, <1>7

\* The retry is a copy of the message with one retry more, addressed to the queue.
LEMMA RetryCopyFacts ==
    ASSUME TypeOK, NEW s \in Slots, work[s].step = "republishing"
    PROVE  /\ RetryCopy(s) \in Copies
           /\ RetryCopy(s).id = work[s].copy.id
           /\ RetryCopy(s).retry = work[s].copy.retry + 1
<1>1. work[s].copy \in Copies /\ SlotQueue(s) \in Queues
  BY SlotFacts
<1>2. work[s].copy.retry \in 0..MaxRetry /\ work[s].copy.retry < MaxRetry /\ MaxRetry \in Nat
  BY <1>1, RabbitAssumption DEF Copies, TypeOK, RepublishHasRetries
<1>3. ASSUME NEW c \in Copies, NEW k \in Names \cup Queues, c.retry < MaxRetry
      PROVE  /\ [c EXCEPT !.key = k, !.retry = @ + 1] \in Copies
             /\ [c EXCEPT !.key = k, !.retry = @ + 1].id = c.id
             /\ [c EXCEPT !.key = k, !.retry = @ + 1].retry = c.retry + 1
  <2>1. /\ c.retry + 1 \in 0..MaxRetry
        /\ c \in [id : Messages, key : Names \cup Queues, retry : 0..MaxRetry]
    BY <1>2, <1>3 DEF Copies
  <2>2. [c EXCEPT !.key = k] \in [id : Messages, key : Names \cup Queues, retry : 0..MaxRetry]
    BY <2>1
  <2> QED  BY <2>1, <2>2 DEF Copies
<1> QED  BY <1>1, <1>2, <1>3 DEF RetryCopy

\* The end of a process frees its slots.
LEMMA ProcessEndsFacts ==
    ASSUME TypeOK, NEW p, ProcessEnds(p)
    PROVE  /\ ReadyTypeOK'
           /\ consumers' \subseteq consumers
           /\ work' \in [Slots -> Deliveries \cup {Free}]
           /\ RepublishHasRetries'
<1>1. ReadyTypeOK
  BY DEF TypeOK, BrokerTypeOK, ReadyTypeOK
<1>2. ReadyTypeOK'
  BY <1>1, TakeBackFacts DEF ProcessEnds
<1>3. work' = [s \in Slots |-> IF ProcessOf[s] = p THEN Free ELSE work[s]]
  BY DEF ProcessEnds
<1>4. \A s \in Slots : work'[s] \in {Free, work[s]}
  BY <1>3
<1>5. work' \in [Slots -> Deliveries \cup {Free}]
  BY <1>3 DEF TypeOK
<1>6. RepublishHasRetries'
  <2>1. Free.step # "republishing"
    BY DEF Free
  <2> QED  BY <1>4, <2>1 DEF TypeOK, RepublishHasRetries
<1> QED  BY <1>2, <1>5, <1>6 DEF ProcessEnds

\* Every operation keeps the types.
LEMMA TypeInductive == TypeOK /\ [Next]_vars => TypeOK'
<1> SUFFICES ASSUME TypeOK, [Next]_vars PROVE TypeOK'
  OBVIOUS
<1>0. /\ MaxRetry \in Nat /\ MaxFaults \in Nat
      /\ ReadyTypeOK
      /\ runs \in [Entries -> Nat] /\ failures \in [Entries -> Nat]
      /\ faults \in 0..MaxFaults
      /\ consumers \subseteq Processes \X Names
  BY RabbitAssumption DEF TypeOK, BrokerTypeOK, ReadyTypeOK
<1>r. ReadyTypeOK' <=> ready' \in [Queues -> [Copies -> Nat]]
  BY DEF ReadyTypeOK
<1> USE DEF TypeOK, BrokerTypeOK
<1>1. CASE UNCHANGED vars
  BY <1>1 DEF vars, RepublishHasRetries
<1>2. ASSUME NEW m \in Messages, PublishRejected(m)
      PROVE  TypeOK'
  BY <1>2 DEF PublishRejected, brokerVars, RepublishHasRetries
<1>3. ASSUME NEW m \in Messages, Publish(m)
      PROVE  TypeOK'
  <2>1. PICK qs : /\ qs \subseteq Queues
                  /\ Put(qs, [id |-> m, key |-> NameOf[m], retry |-> 0])
                  /\ routed' = routed \cup (qs \X {m})
    BY <1>3 DEF Publish, Bound
  <2>2. [id |-> m, key |-> NameOf[m], retry |-> 0] \in Copies
    BY <1>0, RabbitAssumption DEF Copies
  <2>3. ReadyTypeOK'
    BY <1>0, <2>1, <2>2, PutFacts
  <2>4. routed' \subseteq Entries
    BY <2>1 DEF Entries
  <2> QED  BY <1>3, <1>r, <2>3, <2>4 DEF Publish, RepublishHasRetries
<1>4. ASSUME NEW m \in Messages, PublishDropped(m)
       PROVE  TypeOK'
  <2>1. PICK lost \in SUBSET Entries : routed' = routed \cup lost /\ vanished' = vanished \cup lost
    BY <1>4 DEF PublishDropped, Bound, Entries
  <2>2. faults' \in 0..MaxFaults
    BY <1>0, <1>4 DEF PublishDropped
  <2> QED  BY <1>4, <2>1, <2>2 DEF PublishDropped, brokerVars, RepublishHasRetries
<1>5. ASSUME NEW p \in Processes, NEW n \in Names, SubscribeEvent(p, n)
      PROVE  TypeOK'
  <2>1. /\ QueueOf(p, n) \in Queues /\ DeadLetterOf(p, n) \in DeadLetters \cup {None}
        /\ SubscribeExchange(n) \in Exchanges
    BY RabbitAssumption
  <2>2. /\ declared' \in [Queues -> DeadLetters \cup {None, Undeclared}]
        /\ bindings' \subseteq Exchanges \X Names \X Queues
        /\ consumers' \subseteq Processes \X Names
    BY <1>0, <1>5, <2>1 DEF SubscribeEvent
  <2> QED  BY <1>5, <2>2 DEF SubscribeEvent, RepublishHasRetries
<1>6. ASSUME NEW p \in Processes, AttachConsumer(p)
      PROVE  TypeOK'
  BY <1>6 DEF AttachConsumer, brokerVars, RepublishHasRetries
<1>7. ASSUME NEW p \in Processes, NEW n \in Names, SubscribeFails(p, n)
      PROVE  TypeOK'
  <2>1. /\ ReadyTypeOK' /\ consumers' \subseteq consumers
        /\ work' \in [Slots -> Deliveries \cup {Free}] /\ RepublishHasRetries'
    BY <1>7, ProcessEndsFacts DEF SubscribeFails
  <2> QED  BY <1>0, <1>7, <1>r, <2>1 DEF SubscribeFails
<1>8. ASSUME NEW p \in Processes, Crash(p)
      PROVE  TypeOK'
  <2>1. /\ ReadyTypeOK' /\ consumers' \subseteq consumers
        /\ work' \in [Slots -> Deliveries \cup {Free}] /\ RepublishHasRetries'
    BY <1>8, ProcessEndsFacts DEF Crash
  <2>2. faults' \in 0..MaxFaults
    BY <1>0, <1>8 DEF Crash
  <2> QED  BY <1>0, <1>8, <1>r, <2>1, <2>2 DEF Crash
<1>9. ASSUME NEW p \in Processes, ConnectionLost(p)
      PROVE  TypeOK'
  <2>1. ReadyTypeOK' /\ faults' \in 0..MaxFaults
    BY <1>0, <1>9, TakeBackFacts DEF ConnectionLost
  <2>2. ASSUME NEW s \in Slots
        PROVE  /\ work'[s] \in Deliveries \cup {Free}
               /\ work'[s].step = "republishing" => work'[s].copy.retry < MaxRetry
    <3>1. CASE work[s] = Free \/ ProcessOf[s] # p
      BY <1>9, <3>1 DEF ConnectionLost, RepublishHasRetries
    <3>2. CASE ProcessOf[s] = p /\ work[s] # Free
      <4>1. work[s] \in Deliveries /\ work'[s] = [work[s] EXCEPT !.live = FALSE]
        BY <1>9, <3>2 DEF ConnectionLost
      <4>2. work'[s] = [copy |-> work[s].copy, live |-> FALSE, step |-> work[s].step]
        BY <4>1 DEF Deliveries
      <4>3. work'[s] \in Deliveries
        BY <4>1, <4>2 DEF Deliveries
      <4> QED  BY <4>2, <4>3 DEF RepublishHasRetries
    <3> QED  BY <3>1, <3>2
  <2>3. work' \in [Slots -> Deliveries \cup {Free}] /\ RepublishHasRetries'
    BY <1>9, <2>2 DEF ConnectionLost, RepublishHasRetries
  <2> QED  BY <1>9, <1>r, <2>1, <2>3 DEF ConnectionLost
<1>10. ASSUME NEW s \in Slots, NEW c \in Copies, Deliver(s, c)
      PROVE  TypeOK'
  <2>1. SlotQueue(s) \in Queues
    BY SlotFacts
  <2>2. ReadyTypeOK'
    BY <1>0, <1>10, <2>1, TakeFacts DEF Deliver
  <2>3. /\ [copy |-> c, live |-> TRUE, step |-> "received"] \in Deliveries
        /\ work' = [work EXCEPT ![s] = [copy |-> c, live |-> TRUE, step |-> "received"]]
    BY <1>10 DEF Deliver, Deliveries, Steps
  <2>4. work' \in [Slots -> Deliveries \cup {Free}]
    BY <2>3
  <2>5. RepublishHasRetries'
    BY <2>3 DEF RepublishHasRetries
  <2> QED  BY <1>10, <1>r, <2>2, <2>4, <2>5 DEF Deliver
<1>11. ASSUME NEW s \in Slots, SkipNoConsumer(s)
       PROVE  TypeOK'
  <2>1. work' \in [Slots -> Deliveries \cup {Free}] /\ RepublishHasRetries'
    BY <1>11, MoveToFacts DEF SkipNoConsumer, Steps
  <2> QED  BY <1>11, <2>1 DEF SkipNoConsumer, brokerVars
<1>12. ASSUME NEW s \in Slots, HandlerReturns(s)
       PROVE  TypeOK'
  <2>1. work' \in [Slots -> Deliveries \cup {Free}] /\ RepublishHasRetries' /\ Entry(s) \in Entries
    BY <1>12, MoveToFacts, SlotFacts DEF HandlerReturns, Steps
  <2>2. runs' \in [Entries -> Nat]
    BY <1>0, <1>12, <2>1 DEF HandlerReturns
  <2> QED  BY <1>12, <2>1, <2>2 DEF HandlerReturns, brokerVars
<1>13. ASSUME NEW s \in Slots, HandlerThrows(s)
       PROVE  TypeOK'
  <2>1. /\ AfterFailure(work[s].copy) \in Steps
        /\ AfterFailure(work[s].copy) = "republishing" => work[s].copy.retry < MaxRetry
    BY DEF AfterFailure, Steps
  <2>2. work' \in [Slots -> Deliveries \cup {Free}] /\ RepublishHasRetries' /\ Entry(s) \in Entries
    BY <1>13, <2>1, MoveToFacts, SlotFacts DEF HandlerThrows
  <2>3. runs' \in [Entries -> Nat] /\ failures' \in [Entries -> Nat]
    BY <1>0, <1>13, <2>2 DEF HandlerThrows
  <2> QED  BY <1>13, <2>2, <2>3 DEF HandlerThrows, brokerVars
<1>14. ASSUME NEW s \in Slots, Republish(s)
       PROVE  TypeOK'
  <2>1. work' \in [Slots -> Deliveries \cup {Free}] /\ RepublishHasRetries'
    BY <1>14, MoveToFacts DEF Republish, Steps
  <2>2. RetryCopy(s) \in Copies
    BY <1>14, RetryCopyFacts DEF Republish
  <2>3. ReadyTypeOK'
    BY <1>0, <1>14, <2>2, PutFacts DEF Republish
  <2> QED  BY <1>14, <1>r, <2>1, <2>3 DEF Republish
<1>15. ASSUME NEW s \in Slots, RepublishThrows(s)
       PROVE  TypeOK'
  <2>1. work' \in [Slots -> Deliveries \cup {Free}] /\ RepublishHasRetries' /\ Entry(s) \in Entries
    BY <1>15, MoveToFacts, SlotFacts DEF RepublishThrows, Steps
  <2>2. faults' \in 0..MaxFaults /\ parked' \subseteq Entries
    BY <1>0, <1>15, <2>1 DEF RepublishThrows
  <2>3. RetryCopy(s) \in Copies
    BY <1>15, RetryCopyFacts DEF RepublishThrows
  <2>4. ReadyTypeOK'
    BY <1>0, <1>15, <2>3, PutFacts DEF RepublishThrows, ReadyTypeOK
  <2> QED  BY <1>15, <1>r, <2>1, <2>2, <2>4 DEF RepublishThrows
<1>16. ASSUME NEW s \in Slots, RepublishDropped(s)
       PROVE  TypeOK'
  <2>1. work' \in [Slots -> Deliveries \cup {Free}] /\ RepublishHasRetries' /\ Entry(s) \in Entries
    BY <1>16, MoveToFacts, SlotFacts DEF RepublishDropped, Steps
  <2>2. faults' \in 0..MaxFaults /\ vanished' \subseteq Entries
    BY <1>0, <1>16, <2>1 DEF RepublishDropped
  <2> QED  BY <1>16, <2>1, <2>2 DEF RepublishDropped, brokerVars
<1>17. ASSUME NEW s \in Slots, Answer(s)
       PROVE  TypeOK'
  <2>1. SlotQueue(s) \in Queues /\ work[s].copy \in Copies
    BY <1>17, SlotFacts DEF Answer
  <2>2. ReadyTypeOK'
    BY <1>0, <1>17, <2>1, PutFacts DEF Answer, ReadyTypeOK
  <2>3. deadLettered' \subseteq Queues \X Copies /\ dropped' \subseteq Queues \X Copies
    BY <1>17, <2>1 DEF Answer, Discard
  <2>4. work' = [work EXCEPT ![s] = Free]
    BY <1>17 DEF Answer
  <2>5. work' \in [Slots -> Deliveries \cup {Free}]
    BY <2>4
  <2>6. RepublishHasRetries'
    BY <2>4 DEF RepublishHasRetries, Free
  <2> QED  BY <1>17, <1>r, <2>2, <2>3, <2>5, <2>6 DEF Answer
<1>18. CASE \E p \in Processes : BootStep(p) \/ ConnectionLost(p) \/ Crash(p)
  BY <1>5, <1>6, <1>7, <1>8, <1>9, <1>18 DEF BootStep
<1>19. CASE \E s \in Slots : SlotStep(s)
  BY <1>10, <1>11, <1>12, <1>13, <1>14, <1>15, <1>16, <1>17, <1>19 DEF SlotStep
<1> QED  BY <1>1, <1>2, <1>3, <1>4, <1>18, <1>19 DEF Next

\* Every variable of the transport and of the broker keeps its type, and the
\* retry-count header never passes the limit (GetRetryCount, HandleConsumeFailureAsync).
THEOREM TypeOKAlways == Spec => []TypeOK
BY TypeInitially, TypeInductive, PTL DEF Spec

-----------------------------------------------------------------------------
(* At least once *)

\* No step takes back that a message was handled, parked or given up.
SettledGrows ==
    /\ handled \subseteq handled' /\ parked \subseteq parked'
    /\ deadLettered \subseteq deadLettered' /\ dropped \subseteq dropped'

LEMMA SettledStays ==
    ASSUME SettledGrows, NEW x
    PROVE  Settled(x) => Settled(x)'
BY DEF SettledGrows, Settled, GivenUp

\* What is ready stays ready when copies are only added.
ReadyGrows == \A q \in Queues, c \in Copies : ready[q][c] > 0 => ready'[q][c] > 0

LEMMA WaitingStays ==
    ASSUME ReadyGrows, NEW x \in Entries
    PROVE  Waiting(x) => Waiting(x)'
<1>1. x[1] \in Queues
  BY DEF Entries
<1> QED  BY <1>1 DEF ReadyGrows, Waiting

\* A message is accounted for after a step if it was, and each delivery it depended on
\* still holds it, or the queue does, or it is settled.
LEMMA AccountedStays ==
    ASSUME NEW x \in Entries, Accounted(x), SettledGrows, ReadyGrows,
           \A s \in Slots : Pending(s, x) => Accounted(x)'
    PROVE  Accounted(x)'
BY SettledStays, WaitingStays DEF Accounted

\* A delivery in another slot than the one that moves stays what it is.
LEMMA OtherSlotKeeps ==
    ASSUME NEW s \in Slots, work'[s] = work[s], NEW x
    PROVE  Pending(s, x) => Pending(s, x)'
BY DEF Pending, Entry

\* A delivery whose answer is not yet decided, or is a nack, holds its message.
LEMMA HoldsAfterMove ==
    ASSUME TypeOK, NEW s \in Slots, NEW step \in Steps \ {"Ack"},
           work[s].step # "free", MoveTo(s, step),
           step = "republishing" => work[s].copy.retry < MaxRetry,
           NEW x
    PROVE  \A t \in Slots : Pending(t, x) => Pending(t, x)'
<1> SUFFICES ASSUME NEW t \in Slots, Pending(t, x) PROVE Pending(t, x)'
  OBVIOUS
<1>1. /\ work'[s] = [copy |-> work[s].copy, live |-> work[s].live, step |-> step]
      /\ t # s => work'[t] = work[t]
  BY MoveToFacts
<1>2. CASE t # s
  BY <1>1, <1>2, OtherSlotKeeps
<1>3. CASE t = s
  <2>1. work'[s] # Free /\ work'[s].live = work[s].live /\ work'[s].step = step
        /\ work'[s].copy = work[s].copy
    BY <1>1 DEF Free, Steps
  <2> QED  BY <1>3, <2>1 DEF Pending, Entry
<1> QED  BY <1>2, <1>3

\* Of the delivery that moves to Ack nothing depends on it any more: only its own
\* message has to be accounted for elsewhere.
LEMMA AckReleasesItsOwn ==
    ASSUME TypeOK, NEW s \in Slots, work[s].step # "free", MoveTo(s, "Ack"),
           NEW x, x # Entry(s)
    PROVE  \A t \in Slots : Pending(t, x) => Pending(t, x)'
<1> SUFFICES ASSUME NEW t \in Slots, Pending(t, x) PROVE Pending(t, x)'
  OBVIOUS
<1>1. t # s
  BY DEF Pending
<1>2. work'[t] = work[t]
  BY <1>1, MoveToFacts DEF Steps
<1> QED  BY <1>2, OtherSlotKeeps

\* What the broker takes back of a delivery that is pending is ready again.
LEMMA TakenBackWaits ==
    ASSUME TypeOK, NEW p, TakeBack(p), NEW s \in Slots, ProcessOf[s] = p, NEW x \in Entries, Pending(s, x)
    PROVE  Waiting(x)'
<1>1. /\ work[s] # Free /\ work[s].live /\ x = Entry(s)
  BY DEF Pending
<1>2. work[s].step # "free"
  BY <1>1, SlotFacts
<1>3. /\ SlotQueue(s) \in Queues /\ work[s].copy \in Copies
      /\ x = <<SlotQueue(s), work[s].copy.id>>
  BY <1>1, <1>2, SlotFacts
<1>4. s \in Unanswered(p, SlotQueue(s), work[s].copy)
  BY <1>1 DEF Unanswered
<1>5. ready'[SlotQueue(s)][work[s].copy] > 0
  <2>1. ReadyTypeOK
    BY DEF TypeOK, BrokerTypeOK, ReadyTypeOK
  <2> QED  BY <1>3, <1>4, <2>1, TakeBackFacts
<1> QED  BY <1>3, <1>5 DEF Waiting

\* Whatever happens, a message that was accounted for still is, unless an unconfirmed
\* publish lost it.
LEMMA NobodyLoses ==
    ASSUME TypeOK, [Next]_vars, NEW x \in Entries, Accounted(x), x \notin vanished'
    PROVE  Accounted(x)'
<1>0. ReadyTypeOK
  BY DEF TypeOK, BrokerTypeOK, ReadyTypeOK
<1>1. CASE UNCHANGED vars
  BY <1>1 DEF vars, Accounted, Settled, GivenUp, Waiting, Pending, Entry
<1>2. ASSUME SettledGrows, ReadyGrows, UNCHANGED work
      PROVE  Accounted(x)'
  <2>1. \A s \in Slots : Pending(s, x) => Pending(s, x)'
    BY <1>2, OtherSlotKeeps
  <2> QED  BY <1>2, <2>1, AccountedStays DEF Accounted
<1>3. ASSUME NEW m \in Messages, Publish(m) \/ PublishDropped(m) \/ PublishRejected(m)
      PROVE  Accounted(x)'
  <2>1. CASE PublishDropped(m) \/ PublishRejected(m)
    BY <1>2, <2>1 DEF PublishDropped, PublishRejected, brokerVars, SettledGrows, ReadyGrows
  <2>2. CASE Publish(m)
    <3>1. [id |-> m, key |-> NameOf[m], retry |-> 0] \in Copies
      BY RabbitAssumption DEF Copies
    <3>2. PICK qs : Put(qs, [id |-> m, key |-> NameOf[m], retry |-> 0])
      BY <2>2 DEF Publish
    <3>3. ReadyGrows
      BY <1>0, <3>1, <3>2, PutFacts DEF ReadyGrows, ReadyTypeOK
    <3> QED  BY <1>2, <2>2, <3>3 DEF Publish, SettledGrows
  <2> QED  BY <1>3, <2>1, <2>2
<1>4. ASSUME NEW p \in Processes, NEW n \in Names, SubscribeEvent(p, n)
      PROVE  Accounted(x)'
  BY <1>2, <1>4 DEF SubscribeEvent, SettledGrows, ReadyGrows
<1>5. ASSUME NEW p \in Processes, AttachConsumer(p)
      PROVE  Accounted(x)'
  BY <1>2, <1>5 DEF AttachConsumer, brokerVars, SettledGrows, ReadyGrows
<1>6. ASSUME NEW p, TakeBack(p), SettledGrows, \A s \in Slots : ProcessOf[s] # p => work'[s] = work[s]
      PROVE  Accounted(x)'
  <2>1. ReadyGrows
    BY <1>0, <1>6, TakeBackFacts DEF ReadyGrows, ReadyTypeOK
  <2>2. ASSUME NEW s \in Slots, Pending(s, x)
        PROVE  Accounted(x)'
    <3>1. CASE ProcessOf[s] = p
      BY <1>6, <2>2, <3>1, TakenBackWaits DEF Accounted
    <3>2. CASE ProcessOf[s] # p
      BY <1>6, <2>2, <3>2, OtherSlotKeeps DEF Accounted
    <3> QED  BY <3>1, <3>2
  <2> QED  BY <1>6, <2>1, <2>2, AccountedStays
<1>7. ASSUME NEW p \in Processes, ConnectionLost(p) \/ Crash(p) \/ \E n \in Names : SubscribeFails(p, n)
      PROVE  Accounted(x)'
  <2>1. TakeBack(p) /\ SettledGrows
    BY <1>7 DEF ConnectionLost, Crash, SubscribeFails, ProcessEnds, SettledGrows
  <2>2. \A s \in Slots : ProcessOf[s] # p => work'[s] = work[s]
    BY <1>7 DEF ConnectionLost, Crash, SubscribeFails, ProcessEnds
  <2> QED  BY <1>6, <2>1, <2>2
<1>8. ASSUME NEW s \in Slots, NEW c \in Copies, Deliver(s, c)
      PROVE  Accounted(x)'
  <2>1. /\ SlotQueue(s) \in Queues /\ work[s] = Free /\ Take(SlotQueue(s), c)
        /\ work'[s] = [copy |-> c, live |-> TRUE, step |-> "received"]
        /\ \A t \in Slots : t # s => work'[t] = work[t]
        /\ SettledGrows
    BY <1>8, SlotFacts DEF Deliver, TypeOK, SettledGrows
  <2>2. CASE x = <<SlotQueue(s), c.id>>
    <3>1. work'[s] # Free
      BY <2>1 DEF Free
    <3>2. Pending(s, x)'
      BY <2>1, <2>2, <3>1 DEF Pending, Entry
    <3> QED  BY <3>2 DEF Accounted
  <2>3. CASE x # <<SlotQueue(s), c.id>>
    <3>1. CASE Settled(x)
      BY <2>1, <3>1, SettledStays DEF Accounted
    <3>2. CASE Waiting(x)
      <4>1. x[1] \in Queues /\ x = <<x[1], x[2]>>
        BY DEF Entries
      <4>2. PICK d \in Copies : d.id = x[2] /\ ready[x[1]][d] > 0
        BY <3>2 DEF Waiting
      <4>3. ~(x[1] = SlotQueue(s) /\ d = c)
        BY <2>3, <4>1, <4>2
      <4>4. ready'[x[1]][d] > 0
        BY <1>0, <2>1, <4>1, <4>2, <4>3, TakeFacts
      <4> QED  BY <4>2, <4>4 DEF Accounted, Waiting
    <3>3. ASSUME NEW t \in Slots, Pending(t, x)
          PROVE  Accounted(x)'
      <4>1. t # s
        BY <2>1, <3>3 DEF Pending
      <4> QED  BY <2>1, <3>3, <4>1, OtherSlotKeeps DEF Accounted
    <3> QED  BY <3>1, <3>2, <3>3 DEF Accounted
  <2> QED  BY <2>2, <2>3
<1>9. ASSUME NEW s \in Slots, SkipNoConsumer(s) \/ HandlerThrows(s)
      PROVE  Accounted(x)'
  <2>1. PICK step \in Steps \ {"Ack"} :
           MoveTo(s, step) /\ (step = "republishing" => work[s].copy.retry < MaxRetry)
    BY <1>9 DEF SkipNoConsumer, HandlerThrows, AfterFailure, Steps
  <2>2. work[s].step # "free" /\ SettledGrows /\ ReadyGrows
    BY <1>9 DEF SkipNoConsumer, HandlerThrows, brokerVars, SettledGrows, ReadyGrows
  <2>3. \A t \in Slots : Pending(t, x) => Pending(t, x)'
    BY <2>1, <2>2, HoldsAfterMove
  <2> QED  BY <2>2, <2>3, AccountedStays DEF Accounted
<1>10. ASSUME NEW s \in Slots, HandlerReturns(s)
       PROVE  Accounted(x)'
  <2>1. work[s].step # "free" /\ SettledGrows /\ ReadyGrows /\ MoveTo(s, "Ack") /\ Entry(s) \in handled'
    BY <1>10 DEF HandlerReturns, brokerVars, SettledGrows, ReadyGrows
  <2>2. CASE x = Entry(s)
    BY <2>1, <2>2 DEF Accounted, Settled
  <2>3. CASE x # Entry(s)
    BY <2>1, <2>3, AckReleasesItsOwn, AccountedStays DEF Accounted
  <2> QED  BY <2>2, <2>3
<1>11. ASSUME NEW s \in Slots, Republish(s)
       PROVE  Accounted(x)'
  <2>1. /\ work[s].step # "free" /\ work[s].step = "republishing" /\ MoveTo(s, "Ack")
        /\ Put({SlotQueue(s)}, RetryCopy(s)) /\ SettledGrows
    BY <1>11 DEF Republish, SettledGrows
  <2>2. /\ RetryCopy(s) \in Copies /\ RetryCopy(s).id = work[s].copy.id /\ SlotQueue(s) \in Queues
        /\ Entry(s) = <<SlotQueue(s), work[s].copy.id>>
    BY <2>1, RetryCopyFacts, SlotFacts
  <2>3. ReadyGrows
    BY <1>0, <2>1, <2>2, PutFacts DEF ReadyGrows, ReadyTypeOK
  <2>4. CASE x = Entry(s)
    <3>1. ready'[SlotQueue(s)][RetryCopy(s)] > 0
      BY <1>0, <2>1, <2>2, PutFacts DEF ReadyTypeOK
    <3>2. Waiting(x)'
      BY <2>2, <2>4, <3>1 DEF Waiting
    <3> QED  BY <3>2 DEF Accounted
  <2>5. CASE x # Entry(s)
    BY <2>1, <2>3, <2>5, AckReleasesItsOwn, AccountedStays DEF Accounted
  <2> QED  BY <2>4, <2>5
<1>12. ASSUME NEW s \in Slots, RepublishThrows(s)
       PROVE  Accounted(x)'
  <2>1. work[s].step # "free" /\ SettledGrows
    BY <1>12 DEF RepublishThrows, SettledGrows
  <2>4. ReadyGrows
    <3>1. CASE UNCHANGED ready
      BY <3>1 DEF ReadyGrows
    <3>2. CASE Put({SlotQueue(s)}, RetryCopy(s))
      <4>1. RetryCopy(s) \in Copies
        BY <1>12, RetryCopyFacts DEF RepublishThrows
      <4> QED  BY <1>0, <3>2, <4>1, PutFacts DEF ReadyGrows, ReadyTypeOK
    <3> QED  BY <1>12, <3>1, <3>2 DEF RepublishThrows
  <2>2. CASE MoveTo(s, "NackWithRequeue")
    <3>1. \A t \in Slots : Pending(t, x) => Pending(t, x)'
      BY <2>1, <2>2, HoldsAfterMove DEF Steps
    <3> QED  BY <2>1, <2>4, <3>1, AccountedStays DEF Accounted
  <2>3. CASE MoveTo(s, "Ack") /\ Entry(s) \in parked'
    <3>1. CASE x = Entry(s)
      BY <2>3, <3>1 DEF Accounted, Settled
    <3>2. CASE x # Entry(s)
      BY <2>1, <2>3, <2>4, <3>2, AckReleasesItsOwn, AccountedStays DEF Accounted
    <3> QED  BY <3>1, <3>2
  <2> QED  BY <1>12, <2>2, <2>3 DEF RepublishThrows
<1>13. ASSUME NEW s \in Slots, RepublishDropped(s)
       PROVE  Accounted(x)'
  <2>1. work[s].step # "free" /\ SettledGrows /\ ReadyGrows /\ MoveTo(s, "Ack") /\ Entry(s) \in vanished'
    BY <1>13 DEF RepublishDropped, brokerVars, SettledGrows, ReadyGrows
  <2>2. x # Entry(s)
    BY <2>1
  <2> QED  BY <2>1, <2>2, AckReleasesItsOwn, AccountedStays DEF Accounted
<1>14. ASSUME NEW s \in Slots, Answer(s)
       PROVE  Accounted(x)'
  <2>1. /\ work[s].step \in {"Ack", "NackWithRequeue", "NackWithoutRequeue"}
        /\ SlotQueue(s) \in Queues /\ work[s].copy \in Copies
        /\ Entry(s) = <<SlotQueue(s), work[s].copy.id>>
    BY <1>14, SlotFacts DEF Answer
  <2>2. SettledGrows
    BY <1>14 DEF Answer, Discard, SettledGrows
  <2>3. ReadyGrows
    BY <1>0, <1>14, <2>1, PutFacts DEF Answer, ReadyGrows, ReadyTypeOK
  <2>4. ASSUME NEW t \in Slots, Pending(t, x)
        PROVE  Accounted(x)'
    <3>1. CASE t # s
      <4>1. work'[t] = work[t]
        BY <1>14, <3>1 DEF Answer, TypeOK
      <4> QED  BY <2>4, <4>1, OtherSlotKeeps DEF Accounted
    <3>2. CASE t = s /\ work[s].step = "NackWithRequeue"
      <4>1. work[s].live /\ x = Entry(s)
        BY <2>4, <3>2 DEF Pending
      <4>2. Put({SlotQueue(s)}, work[s].copy)
        BY <1>14, <3>2, <4>1 DEF Answer
      <4>3. ready'[SlotQueue(s)][work[s].copy] > 0
        BY <1>0, <2>1, <4>2, PutFacts DEF ReadyTypeOK
      <4>4. Waiting(x)'
        BY <2>1, <4>1, <4>3 DEF Waiting
      <4> QED  BY <4>4 DEF Accounted
    <3>3. CASE t = s /\ work[s].step = "NackWithoutRequeue"
      <4>1. work[s].live /\ x = Entry(s)
        BY <2>4, <3>3 DEF Pending
      <4>2. Discard(SlotQueue(s), work[s].copy)
        BY <1>14, <3>3, <4>1 DEF Answer
      <4>3. <<SlotQueue(s), work[s].copy>> \in deadLettered' \cup dropped'
        BY <4>2 DEF Discard
      <4>4. x[1] = SlotQueue(s) /\ x[2] = work[s].copy.id
        BY <2>1, <4>1
      <4>5. GivenUp(x)'
        BY <2>1, <4>3, <4>4, Zenon DEF GivenUp
      <4> QED  BY <4>5 DEF Accounted, Settled
    <3>4. ~(t = s /\ work[s].step = "Ack")
      BY <2>4 DEF Pending
    <3> QED  BY <2>1, <3>1, <3>2, <3>3, <3>4
  <2> QED  BY <2>2, <2>3, <2>4, AccountedStays
<1>15. CASE \E p \in Processes : BootStep(p) \/ ConnectionLost(p) \/ Crash(p)
  BY <1>4, <1>5, <1>7, <1>15 DEF BootStep
<1>16. CASE \E s \in Slots : SlotStep(s)
  BY <1>8, <1>9, <1>10, <1>11, <1>12, <1>13, <1>14, <1>16 DEF SlotStep
<1> QED  BY <1>1, <1>3, <1>15, <1>16 DEF Next

\* A message enters a queue with a copy that is ready, if it arrives.
LEMMA RoutedIsReady ==
    ASSUME TypeOK, [Next]_vars, NEW x \in Entries, x \in routed', x \notin routed, x \notin vanished'
    PROVE  Accounted(x)'
<1>1. PICK m \in Messages : Publish(m)
  <2>1. \E m \in Messages : Publish(m) \/ PublishDropped(m)
    BY DEF Next, vars, PublishRejected, BootStep, SubscribeEvent, SubscribeFails, AttachConsumer,
           ConnectionLost, Crash, SlotStep, Deliver, SkipNoConsumer, HandlerReturns, HandlerThrows,
           Republish, RepublishDropped, RepublishThrows, Answer
  <2>2. ASSUME NEW m \in Messages, PublishDropped(m)
        PROVE  FALSE
    BY <2>2 DEF PublishDropped
  <2> QED  BY <2>1, <2>2
<1> DEFINE c == [id |-> m, key |-> NameOf[m], retry |-> 0]
<1>2. PICK qs : Put(qs, c) /\ routed' = routed \cup (qs \X {m})
  BY <1>1 DEF Publish
<1>3. c \in Copies /\ c.id = m
  BY RabbitAssumption DEF Copies
<1>4. x[1] \in qs /\ x[2] = m /\ x[1] \in Queues
  BY <1>2 DEF Entries
<1>5. ready'[x[1]][c] > 0
  <2>1. ReadyTypeOK
    BY DEF TypeOK, BrokerTypeOK, ReadyTypeOK
  <2> HIDE DEF c
  <2> QED  BY <1>2, <1>3, <1>4, <2>1, PutFacts DEF ReadyTypeOK
<1>6. Waiting(x)'
  <2> HIDE DEF c
  <2> QED  BY <1>3, <1>4, <1>5 DEF Waiting
<1> QED  BY <1>6 DEF Accounted

\* What an unconfirmed publish has lost stays lost.
LEMMA VanishedGrows ==
    ASSUME [Next]_vars
    PROVE  vanished \subseteq vanished'
BY DEF Next, vars, Publish, PublishDropped, PublishRejected, BootStep, SubscribeEvent, SubscribeFails,
       AttachConsumer, ConnectionLost, Crash, SlotStep, Deliver, SkipNoConsumer, HandlerReturns, HandlerThrows,
       Republish, RepublishDropped, RepublishThrows, Answer

\* Publishes and everything else together.
LEMMA NothingLostInductive == TypeOK /\ NothingLost /\ [Next]_vars => NothingLost'
<1> SUFFICES ASSUME TypeOK, NothingLost, [Next]_vars, NEW x \in routed', x \notin vanished'
             PROVE  Accounted(x)'
  BY DEF NothingLost
<1>1. TypeOK'
  BY TypeInductive
<1>2. x \in Entries /\ x \notin vanished
  BY <1>1, VanishedGrows DEF TypeOK
<1>3. CASE x \in routed
  <2>1. Accounted(x)
    BY <1>2, <1>3 DEF NothingLost
  <2> QED  BY <1>2, <2>1, NobodyLoses
<1>4. CASE x \notin routed
  BY <1>2, <1>4, RoutedIsReady
<1> QED  BY <1>3, <1>4

\* Nothing but an unconfirmed publish loses a message: across crashes, lost connections
\* and republishes that throw, what was sent to a queue is in it, or in a delivery the
\* broker will take back, until it was handled, parked or given up
\* (HandleConsumeFailureAsync acks the delivery only after the retry was published).
THEOREM NothingLostAlways == Spec => []NothingLost
<1>1. Init => NothingLost
  BY DEF Init, NothingLost
<1> QED  BY <1>1, TypeInitially, TypeInductive, NothingLostInductive, PTL DEF Spec

NothingVanished == PublisherConfirms => vanished = {}

\* At least once, for a bus that is opened with publisher confirms: whatever faults there
\* are, each message that was sent to a queue is accounted for.  The connection string of
\* RabbitMqConnectionProvider asks for none, and then it is not so.
THEOREM ConfirmsKeepAtLeastOnce == Spec => [](PublisherConfirms => \A x \in routed : Accounted(x))
<1>1. Init => NothingVanished
  BY DEF Init, NothingVanished
<1>2. NothingVanished /\ [Next]_vars => NothingVanished'
  BY DEF NothingVanished, Next, vars, Publish, PublishDropped, PublishRejected, BootStep, SubscribeEvent,
         SubscribeFails, AttachConsumer, ConnectionLost, Crash, SlotStep, Deliver, SkipNoConsumer,
         HandlerReturns, HandlerThrows, Republish, RepublishDropped, RepublishThrows, Answer
<1>3. NothingVanished /\ NothingLost => (PublisherConfirms => \A x \in routed : Accounted(x))
  BY DEF NothingVanished, NothingLost
<1> QED  BY <1>1, <1>2, <1>3, NothingLostAlways, PTL DEF Spec

-----------------------------------------------------------------------------
(* How often a message was tried *)

\* The retry-count header of a copy is backed by as many failed deliveries, one more
\* while its failure is being dealt with, and MaxRetry + 1 once it is given up.
TriesOfReady ==
    \A q \in Queues, c \in Copies : ready[q][c] > 0 => failures[<<q, c.id>>] >= c.retry
TriesInWork ==
    \A s \in Slots :
        /\ work[s].step # "free" => failures[Entry(s)] >= work[s].copy.retry
        /\ work[s].step = "republishing" => failures[Entry(s)] >= work[s].copy.retry + 1
        /\ work[s].step = "NackWithoutRequeue" => failures[Entry(s)] >= MaxRetry + 1
TriesOfGivenUp ==
    \A q \in Queues, c \in Copies :
        <<q, c>> \in deadLettered \cup dropped => failures[<<q, c.id>>] >= MaxRetry + 1
TriesCounted == TriesOfReady /\ TriesInWork /\ TriesOfGivenUp

\* Nothing in the queues, in the slots or given up.
LEMMA TriesInitially == Init => TriesCounted
BY DEF Init, BrokerInit, TriesCounted, TriesOfReady, TriesInWork, TriesOfGivenUp, Free

\* Failures are never taken back.
LEMMA FailuresGrow ==
    ASSUME TypeOK, [Next]_vars, NEW x \in Entries
    PROVE  failures[x] \in Nat /\ failures'[x] \in Nat /\ failures'[x] >= failures[x]
<1>0. failures \in [Entries -> Nat]
  BY DEF TypeOK
<1>1. UNCHANGED failures \/ \E s \in Slots : HandlerThrows(s)
  BY DEF Next, vars, Publish, PublishDropped, PublishRejected, BootStep, SubscribeEvent, SubscribeFails,
         AttachConsumer, ConnectionLost, Crash, SlotStep, Deliver, SkipNoConsumer, HandlerReturns,
         Republish, RepublishDropped, RepublishThrows, Answer
<1>2. ASSUME NEW s \in Slots, HandlerThrows(s)
      PROVE  failures'[x] \in Nat /\ failures'[x] >= failures[x]
  <2>1. failures' = [failures EXCEPT ![Entry(s)] = @ + 1]
    BY <1>2 DEF HandlerThrows
  <2> QED  BY <1>0, <2>1
<1> QED  BY <1>0, <1>1, <1>2

\* A step of a slot that leaves the queues alone keeps the counts, if it keeps the
\* one of its own slot.
LEMMA TriesAfterMove ==
    ASSUME TypeOK, TriesCounted, [Next]_vars, NEW s \in Slots, NEW step \in Steps,
           work[s].step # "free", MoveTo(s, step), UNCHANGED brokerVars,
           step = "republishing" => failures'[Entry(s)] >= work[s].copy.retry + 1 /\ work[s].copy.retry < MaxRetry,
           step = "NackWithoutRequeue" => failures'[Entry(s)] >= MaxRetry + 1
    PROVE  TriesCounted'
<1>1. /\ work'[s] = [copy |-> work[s].copy, live |-> work[s].live, step |-> step]
      /\ \A t \in Slots : t # s => work'[t] = work[t]
  BY MoveToFacts
<1>2. MaxRetry \in Nat /\ \A c \in Copies : c.retry \in Nat /\ c.id \in Messages
  BY RabbitAssumption DEF Copies
<1>3. ASSUME NEW q \in Queues, NEW c \in Copies
      PROVE  <<q, c.id>> \in Entries
  BY <1>2 DEF Entries
<1>4. TriesOfReady' /\ TriesOfGivenUp'
  <2>1. UNCHANGED <<ready, deadLettered, dropped>>
    BY DEF brokerVars
  <2>2. TriesOfReady'
    BY <1>2, <1>3, <2>1, FailuresGrow DEF TriesCounted, TriesOfReady
  <2>3. TriesOfGivenUp'
    BY <1>2, <1>3, <2>1, FailuresGrow DEF TriesCounted, TriesOfGivenUp
  <2> QED  BY <2>2, <2>3
<1>5. ASSUME NEW t \in Slots, work'[t].step # "free"
      PROVE  /\ Entry(t)' = Entry(t) /\ Entry(t) \in Entries /\ work'[t].copy = work[t].copy
             /\ work[t].copy.retry \in Nat
             /\ failures'[Entry(t)] >= failures[Entry(t)] /\ failures[Entry(t)] \in Nat
             /\ failures'[Entry(t)] \in Nat
             /\ failures[Entry(t)] >= work[t].copy.retry
  <2>1. work[t].step # "free" /\ work'[t].copy = work[t].copy
    BY <1>1, <1>5
  <2>2. Entry(t) \in Entries /\ work[t].copy \in Copies
    BY <2>1, SlotFacts
  <2> QED  BY <1>2, <2>1, <2>2, FailuresGrow DEF Entry, TriesCounted, TriesInWork
<1>6. ASSUME NEW t \in Slots
      PROVE  /\ work'[t].step # "free" => failures'[Entry(t)'] >= work'[t].copy.retry
             /\ work'[t].step = "republishing" => failures'[Entry(t)'] >= work'[t].copy.retry + 1
             /\ work'[t].step = "NackWithoutRequeue" => failures'[Entry(t)'] >= MaxRetry + 1
  <2>1. CASE work'[t].step = "free"
    BY <2>1
  <2>2. CASE work'[t].step # "free" /\ t = s
    BY <1>1, <1>5, <2>2
  <2>3. CASE work'[t].step # "free" /\ t # s
    BY <1>1, <1>2, <1>5, <2>3 DEF TriesCounted, TriesInWork
  <2> QED  BY <2>1, <2>2, <2>3
<1>7. TriesInWork'
  BY <1>6 DEF TriesInWork
<1> QED  BY <1>4, <1>7 DEF TriesCounted

\* Slots that are freed, or keep their copy and step, keep their counts.
LEMMA TriesKeptInWork ==
    ASSUME TriesCounted, UNCHANGED failures,
           \A t \in Slots : \/ work'[t] = Free
                            \/ work'[t].copy = work[t].copy /\ work'[t].step = work[t].step
    PROVE  TriesInWork'
<1>1. ASSUME NEW t \in Slots
      PROVE  /\ work'[t].step # "free" => failures'[Entry(t)'] >= work'[t].copy.retry
             /\ work'[t].step = "republishing" => failures'[Entry(t)'] >= work'[t].copy.retry + 1
             /\ work'[t].step = "NackWithoutRequeue" => failures'[Entry(t)'] >= MaxRetry + 1
  <2>1. CASE work'[t] = Free
    BY <2>1 DEF Free
  <2>2. CASE work'[t].copy = work[t].copy /\ work'[t].step = work[t].step
    <3>1. Entry(t)' = Entry(t)
      BY <2>2 DEF Entry
    <3> QED  BY <2>2, <3>1 DEF TriesCounted, TriesInWork
  <2> QED  BY <2>1, <2>2
<1> QED  BY <1>1 DEF TriesInWork

\* So do copies that were ready, or are as old as the failures of their message say.
LEMMA TriesKeptInQueues ==
    ASSUME TriesCounted, UNCHANGED failures,
           \A q \in Queues, c \in Copies :
              ready'[q][c] > 0 => ready[q][c] > 0 \/ failures[<<q, c.id>>] >= c.retry
    PROVE  TriesOfReady'
BY DEF TriesCounted, TriesOfReady

\* Every operation keeps the counts; the republish is the one that raises a header,
\* after the failure that pays for it.
LEMMA TriesInductive == TypeOK /\ TriesCounted /\ [Next]_vars => TriesCounted'
<1> SUFFICES ASSUME TypeOK, TriesCounted, [Next]_vars PROVE TriesCounted'
  OBVIOUS
<1>0. /\ ReadyTypeOK /\ MaxRetry \in Nat
      /\ failures \in [Entries -> Nat]
      /\ \A c \in Copies : c.retry \in Nat /\ c.retry <= MaxRetry /\ c.id \in Messages
  BY RabbitAssumption DEF TypeOK, BrokerTypeOK, ReadyTypeOK, Copies
<1>1. CASE UNCHANGED <<ready, deadLettered, dropped, work, failures>>
  BY <1>1 DEF TriesCounted, TriesOfReady, TriesInWork, TriesOfGivenUp, Entry
<1>2. CASE UNCHANGED vars \/ \E m \in Messages : PublishDropped(m) \/ PublishRejected(m)
  BY <1>1, <1>2 DEF vars, PublishDropped, PublishRejected, brokerVars
<1>3. ASSUME NEW m \in Messages, Publish(m)
      PROVE  TriesCounted'
  <2> DEFINE c0 == [id |-> m, key |-> NameOf[m], retry |-> 0]
  <2>1. /\ UNCHANGED <<work, failures, deadLettered, dropped>>
        /\ \E qs : Put(qs, c0)
    BY <1>3 DEF Publish
  <2>2. c0 \in Copies /\ c0.retry = 0 /\ c0.id = m
    BY <1>0, RabbitAssumption DEF Copies
  <2> HIDE DEF c0
  <2>3. \A q \in Queues, c \in Copies : ready'[q][c] > 0 => ready[q][c] > 0 \/ c = c0
    BY <1>0, <2>1, <2>2, PutFacts
  <2>4. \A q \in Queues : failures[<<q, c0.id>>] >= c0.retry
    BY <1>0, <2>2 DEF Entries
  <2>5. TriesOfReady'
    BY <2>1, <2>3, <2>4, TriesKeptInQueues
  <2>6. TriesInWork' /\ TriesOfGivenUp'
    BY <2>1, TriesKeptInWork DEF TriesCounted, TriesOfGivenUp
  <2> QED  BY <2>5, <2>6 DEF TriesCounted
<1>4. ASSUME NEW p \in Processes, AttachConsumer(p) \/ \E n \in Names : SubscribeEvent(p, n)
      PROVE  TriesCounted'
  BY <1>1, <1>4 DEF AttachConsumer, SubscribeEvent, brokerVars
<1>5. ASSUME NEW p \in Processes, ConnectionLost(p) \/ Crash(p) \/ \E n \in Names : SubscribeFails(p, n)
      PROVE  TriesCounted'
  <2>1. TakeBack(p) /\ UNCHANGED <<failures, deadLettered, dropped>>
    BY <1>5 DEF ConnectionLost, Crash, SubscribeFails, ProcessEnds
  <2>2. ASSUME NEW t \in Slots
        PROVE  work'[t] = Free \/ (work'[t].copy = work[t].copy /\ work'[t].step = work[t].step)
    <3>1. CASE Crash(p) \/ \E n \in Names : SubscribeFails(p, n)
      BY <3>1 DEF Crash, SubscribeFails, ProcessEnds
    <3>2. CASE ConnectionLost(p)
      <4>1. work'[t] = work[t] \/ (work[t] # Free /\ work'[t] = [work[t] EXCEPT !.live = FALSE])
        BY <3>2 DEF ConnectionLost
      <4>2. work[t] # Free => work[t] \in Deliveries
        BY SlotFacts
      <4> QED  BY <4>1, <4>2 DEF Deliveries
    <3> QED  BY <1>5, <3>1, <3>2
  <2>3. TriesInWork'
    BY <2>1, <2>2, TriesKeptInWork
  <2>4. ASSUME NEW q \in Queues, NEW c \in Copies, ready'[q][c] > 0, ~(ready[q][c] > 0)
        PROVE  failures[<<q, c.id>>] >= c.retry
    <3>1. Unanswered(p, q, c) # {}
      <4>1. CASE Unanswered(p, q, c) = {}
        <5>1. Cardinality(Unanswered(p, q, c)) = 0
          BY <4>1, FS_EmptySet
        <5> QED  BY <1>0, <2>1, <2>4, <5>1, TakeBackFacts DEF ReadyTypeOK
      <4> QED  BY <4>1
    <3>2. PICK s \in Slots : SlotQueue(s) = q /\ work[s] # Free /\ work[s].copy = c
      BY <3>1 DEF Unanswered
    <3>3. work[s].step # "free" /\ Entry(s) = <<q, c.id>>
      BY <3>2, SlotFacts
    <3> QED  BY <3>2, <3>3 DEF TriesCounted, TriesInWork
  <2>5. TriesOfReady'
    BY <2>1, <2>4, TriesKeptInQueues
  <2>6. TriesOfGivenUp'
    BY <2>1 DEF TriesCounted, TriesOfGivenUp
  <2> QED  BY <2>3, <2>5, <2>6 DEF TriesCounted
<1>6. ASSUME NEW s \in Slots, NEW c \in Copies, Deliver(s, c)
      PROVE  TriesCounted'
  <2>1. /\ SlotQueue(s) \in Queues /\ Take(SlotQueue(s), c)
        /\ work'[s] = [copy |-> c, live |-> TRUE, step |-> "received"]
        /\ \A t \in Slots : t # s => work'[t] = work[t]
        /\ UNCHANGED <<failures, deadLettered, dropped>>
    BY <1>6, SlotFacts DEF Deliver, TypeOK
  <2>2. failures[<<SlotQueue(s), c.id>>] >= c.retry
    BY <1>0, <2>1, TakeFacts DEF TriesCounted, TriesOfReady
  <2>3. \A q \in Queues, d \in Copies : ready'[q][d] > 0 => ready[q][d] > 0
    BY <1>0, <2>1, TakeFacts DEF ReadyTypeOK
  <2>4. TriesOfReady' /\ TriesOfGivenUp'
    BY <2>1, <2>3, TriesKeptInQueues DEF TriesCounted, TriesOfGivenUp
  <2>5. ASSUME NEW t \in Slots
        PROVE  /\ work'[t].step # "free" => failures'[Entry(t)'] >= work'[t].copy.retry
               /\ work'[t].step = "republishing" => failures'[Entry(t)'] >= work'[t].copy.retry + 1
               /\ work'[t].step = "NackWithoutRequeue" => failures'[Entry(t)'] >= MaxRetry + 1
    <3>1. CASE t = s
      BY <2>1, <2>2, <3>1 DEF Entry
    <3>2. CASE t # s
      BY <2>1, <3>2 DEF Entry, TriesCounted, TriesInWork
    <3> QED  BY <3>1, <3>2
  <2>6. TriesInWork'
    BY <2>5 DEF TriesInWork
  <2> QED  BY <2>4, <2>6 DEF TriesCounted
<1>7. ASSUME NEW s \in Slots, UNCHANGED brokerVars,
             SkipNoConsumer(s) \/ HandlerReturns(s) \/ RepublishDropped(s) \/ RepublishThrows(s)
      PROVE  TriesCounted'
  <2>1. PICK step \in {"Ack", "NackWithRequeue"} : MoveTo(s, step)
    BY <1>7 DEF SkipNoConsumer, HandlerReturns, RepublishDropped, RepublishThrows
  <2>2. work[s].step # "free"
    BY <1>7 DEF SkipNoConsumer, HandlerReturns, RepublishDropped, RepublishThrows
  <2> QED  BY <1>7, <2>1, <2>2, TriesAfterMove DEF Steps
<1>8. ASSUME NEW s \in Slots, HandlerThrows(s)
      PROVE  TriesCounted'
  <2>1. /\ work[s].step # "free" /\ UNCHANGED brokerVars /\ MoveTo(s, AfterFailure(work[s].copy))
        /\ failures' = [failures EXCEPT ![Entry(s)] = @ + 1]
    BY <1>8 DEF HandlerThrows
  <2>2. /\ Entry(s) \in Entries /\ work[s].copy \in Copies
        /\ failures[Entry(s)] >= work[s].copy.retry
    BY <2>1, SlotFacts DEF TriesCounted, TriesInWork
  <2>3. failures'[Entry(s)] >= work[s].copy.retry + 1
    BY <1>0, <2>1, <2>2
  <2>4. /\ AfterFailure(work[s].copy) \in Steps
        /\ AfterFailure(work[s].copy) = "republishing" => work[s].copy.retry < MaxRetry
        /\ AfterFailure(work[s].copy) = "NackWithoutRequeue" => work[s].copy.retry >= MaxRetry
    BY <1>0, <2>2 DEF AfterFailure, Steps
  <2>5. failures'[Entry(s)] \in Nat /\ work[s].copy.retry \in Nat
    BY <1>0, <2>1, <2>2
  <2>6. AfterFailure(work[s].copy) = "NackWithoutRequeue" => failures'[Entry(s)] >= MaxRetry + 1
    BY <1>0, <2>3, <2>4, <2>5
  <2> QED  BY <2>1, <2>3, <2>4, <2>6, TriesAfterMove
<1>9. ASSUME NEW s \in Slots, NEW step \in {"Ack", "NackWithRequeue"}, MoveTo(s, step),
             work[s].step = "republishing", Put({SlotQueue(s)}, RetryCopy(s)),
             UNCHANGED <<failures, deadLettered, dropped>>
      PROVE  TriesCounted'
  <2>1. /\ work[s].step # "free" /\ work[s].step = "republishing" /\ MoveTo(s, step)
        /\ Put({SlotQueue(s)}, RetryCopy(s)) /\ UNCHANGED <<failures, deadLettered, dropped>>
    BY <1>9
  <2>2. /\ RetryCopy(s) \in Copies /\ RetryCopy(s).id = work[s].copy.id
        /\ RetryCopy(s).retry = work[s].copy.retry + 1
        /\ SlotQueue(s) \in Queues /\ Entry(s) = <<SlotQueue(s), work[s].copy.id>>
    BY <2>1, RetryCopyFacts, SlotFacts
  <2>3. failures[Entry(s)] >= RetryCopy(s).retry
    BY <2>1, <2>2 DEF TriesCounted, TriesInWork
  <2>4. \A q \in Queues, c \in Copies :
           ready'[q][c] > 0 => ready[q][c] > 0 \/ (q = SlotQueue(s) /\ c = RetryCopy(s))
    BY <1>0, <2>1, <2>2, PutFacts DEF ReadyTypeOK
  <2>5. TriesOfReady' /\ TriesOfGivenUp'
    BY <2>1, <2>2, <2>3, <2>4, TriesKeptInQueues DEF TriesCounted, TriesOfGivenUp
  <2>6. /\ work'[s] = [copy |-> work[s].copy, live |-> work[s].live, step |-> step]
        /\ \A t \in Slots : t # s => work'[t] = work[t]
    BY <2>1, MoveToFacts DEF Steps
  <2>7. ASSUME NEW t \in Slots
        PROVE  /\ work'[t].step # "free" => failures'[Entry(t)'] >= work'[t].copy.retry
               /\ work'[t].step = "republishing" => failures'[Entry(t)'] >= work'[t].copy.retry + 1
               /\ work'[t].step = "NackWithoutRequeue" => failures'[Entry(t)'] >= MaxRetry + 1
    <3>1. CASE t = s
      BY <2>1, <2>6, <3>1 DEF Entry, TriesCounted, TriesInWork
    <3>2. CASE t # s
      BY <2>1, <2>6, <3>2 DEF Entry, TriesCounted, TriesInWork
    <3> QED  BY <3>1, <3>2
  <2>8. TriesInWork'
    BY <2>7 DEF TriesInWork
  <2> QED  BY <2>5, <2>8 DEF TriesCounted
<1>10. ASSUME NEW s \in Slots, Republish(s)
       PROVE  TriesCounted'
  BY <1>9, <1>10 DEF Republish
<1>11. ASSUME NEW s \in Slots, SkipNoConsumer(s) \/ HandlerReturns(s) \/ RepublishDropped(s)
       PROVE  TriesCounted'
  BY <1>7, <1>11 DEF SkipNoConsumer, HandlerReturns, RepublishDropped
<1>12. ASSUME NEW s \in Slots, RepublishThrows(s)
       PROVE  TriesCounted'
  <2>1. CASE UNCHANGED ready
    BY <1>7, <1>12, <2>1 DEF RepublishThrows, brokerVars
  <2>2. CASE Put({SlotQueue(s)}, RetryCopy(s))
    BY <1>9, <1>12, <2>2 DEF RepublishThrows
  <2> QED  BY <1>12, <2>1, <2>2 DEF RepublishThrows
<1>13. ASSUME NEW s \in Slots, Answer(s)
       PROVE  TriesCounted'
  <2>1. /\ work[s].step \in {"Ack", "NackWithRequeue", "NackWithoutRequeue"}
        /\ SlotQueue(s) \in Queues /\ work[s].copy \in Copies
        /\ Entry(s) = <<SlotQueue(s), work[s].copy.id>>
    BY <1>13, SlotFacts DEF Answer
  <2>2. UNCHANGED failures /\ work' = [work EXCEPT ![s] = Free]
    BY <1>13 DEF Answer
  <2>3. TriesInWork'
    <3>1. \A t \in Slots : work'[t] = Free \/ work'[t] = work[t]
      BY <2>2 DEF TypeOK
    <3> QED  BY <2>2, <3>1, TriesKeptInWork
  <2>4. \A q \in Queues, c \in Copies :
           ready'[q][c] > 0 => ready[q][c] > 0 \/ (q = SlotQueue(s) /\ c = work[s].copy)
    BY <1>0, <1>13, <2>1, PutFacts DEF Answer, ReadyTypeOK
  <2>5. TriesOfReady'
    <3>1. failures[Entry(s)] >= work[s].copy.retry
      BY <2>1 DEF TriesCounted, TriesInWork
    <3> QED  BY <2>1, <2>2, <2>4, <3>1, TriesKeptInQueues
  <2>6. TriesOfGivenUp'
    <3>1. \/ UNCHANGED <<deadLettered, dropped>>
          \/ /\ work[s].step = "NackWithoutRequeue"
             /\ deadLettered' \cup dropped' = deadLettered \cup dropped \cup {<<SlotQueue(s), work[s].copy>>}
      BY <1>13 DEF Answer, Discard
    <3>2. work[s].step = "NackWithoutRequeue" => failures[<<SlotQueue(s), work[s].copy.id>>] >= MaxRetry + 1
      BY <2>1 DEF TriesCounted, TriesInWork
    <3> QED  BY <2>2, <3>1, <3>2 DEF TriesCounted, TriesOfGivenUp
  <2> QED  BY <2>3, <2>5, <2>6 DEF TriesCounted
<1>14. CASE \E p \in Processes : BootStep(p) \/ ConnectionLost(p) \/ Crash(p)
  BY <1>4, <1>5, <1>14 DEF BootStep
<1>15. CASE \E s \in Slots : SlotStep(s)
  BY <1>6, <1>8, <1>10, <1>11, <1>12, <1>13, <1>15 DEF SlotStep
<1> QED  BY <1>2, <1>3, <1>14, <1>15 DEF Next
=============================================================================
