-------------------------- MODULE PublishingProofs --------------------------
(***************************************************************************)
(* Theorems about publishing, for any publications, in any combination of  *)
(* ways to pass Headers, with any number of tries and deliveries: the      *)
(* types, that a consumer which drops the message ids it knows loses no    *)
(* event with Headers of its own and processes none twice, and whose span  *)
(* a consumer's span is a child of.                                        *)
(***************************************************************************)
EXTENDS Publishing, FiniteSetTheorems, TLAPS

-----------------------------------------------------------------------------
(* Steps *)

Messages ==
    [pub : Publications, attempt : 1..MaxAttempts, deliveries : 0..(MaxDeliveries - 1),
     contents : Contents]

IsStamped(contents) == contents.id # NoHeader /\ contents.time # NoHeader

Types ==
    /\ transport \in {"inMemory", "rabbitMq"}
    /\ \A p \in Publications : way[p] \in Ways(p)
    /\ headers \in [Objects -> Contents]
    /\ object \in [Publications -> Objects]
    /\ attempt \in [Publications -> 0..MaxAttempts]
    /\ stage \in [Publications -> {"idle", "publishing", "sent", "threw"}]
    /\ spans \subseteq Attempts
    /\ wire \subseteq Messages
    /\ received \in [Publications -> Contents]
    /\ seen \subseteq Attempts
    /\ processed \in [Publications -> Nat]

\* What a publisher and a consumer have behind them in each stage.
Stages ==
    /\ \A p \in Publications :
          /\ attempt[p] > 0 => IsStamped(headers[object[p]])
          /\ stage[p] \in {"publishing", "sent"} => attempt[p] > 0
          /\ processed[p] > 0 => attempt[p] > 0 /\ (transport = "inMemory" => stage[p] = "sent")
    /\ \A m \in wire :
          /\ attempt[m.pub] > 0 /\ m.attempt <= attempt[m.pub]
          /\ transport = "inMemory" => stage[m.pub] = "sent" /\ m.attempt = attempt[m.pub]
          /\ transport = "rabbitMq" => IsStamped(m.contents)

TypeInv == Types /\ Stages

\* The three ways, one by one.
LEMMA WayFacts ==
    ASSUME Types, NEW p \in Publications
    PROVE  \/ way[p][1] = "nothing" /\ way[p] = <<"nothing", p>>
           \/ way[p][1] = "caller" /\ way[p] \in Objects
           \/ /\ way[p][1] = "handler" /\ way[p][2] \in Publications /\ way[p][2] # p
              /\ way[p] = <<"handler", way[p][2]>>
<1>1. way[p] \in Ways(p)
  BY DEF Types
<1> QED  BY <1>1 DEF Ways, Objects

\* A call of PublishAsync up to the transport, which may throw: the object it got has
\* its id and time then, and its span if there is one.
Starts(p, contents, traced) ==
    LET k == <<p, attempt[p] + 1>>
        passed == ContentsPassed(p)
    IN  /\ MayPublish(p)
        /\ Begin(p, contents)
        /\ contents = [id    |-> IF passed.id = NoHeader THEN k ELSE passed.id,
                       time  |-> IF passed.time = NoHeader THEN k ELSE passed.time,
                       trace |-> IF traced THEN k ELSE passed.trace]
        /\ spans' = IF traced THEN spans \cup {k} ELSE spans
        /\ \E next \in {"publishing", "threw"} :
              /\ stage' = [stage EXCEPT ![p] = next]
              /\ next = "threw" => ~traced
        /\ UNCHANGED <<transport, way, wire, received, seen, processed>>

\* The contents a call finds.
LEMMA PassedFacts ==
    ASSUME Types, NEW p \in Publications
    PROVE  /\ ObjectPassed(p) \in Objects /\ ContentsPassed(p) \in Contents
           /\ way[p][1] = "nothing" =>
                 ObjectPassed(p) = <<"new", p>> /\ ContentsPassed(p) = EmptyHeaders
           /\ way[p][1] = "caller" =>
                 ObjectPassed(p) = way[p] /\ ContentsPassed(p) = headers[way[p]]
           /\ way[p][1] = "handler" /\ transport = "inMemory" =>
                 /\ ObjectPassed(p) = object[way[p][2]]
                 /\ ContentsPassed(p) = headers[object[way[p][2]]]
           /\ way[p][1] = "handler" /\ transport = "rabbitMq" =>
                 ObjectPassed(p) = <<"new", p>> /\ ContentsPassed(p) = received[way[p][2]]
<1>1. <<"new", p>> \in Objects /\ EmptyHeaders \in Contents
  BY DEF Objects, EmptyHeaders, Contents
<1>2. CASE way[p][1] = "nothing"
  BY <1>1, <1>2 DEF ObjectPassed, ContentsPassed
<1>3. CASE way[p][1] = "caller" /\ way[p] \in Objects
  BY <1>1, <1>3 DEF ObjectPassed, ContentsPassed, Types
<1>4. CASE way[p][1] = "handler" /\ way[p][2] \in Publications
  <2>1. CASE transport = "inMemory"
    BY <1>4, <2>1 DEF ObjectPassed, ContentsPassed, Types
  <2>2. CASE transport = "rabbitMq"
    BY <1>1, <1>4, <2>2 DEF ObjectPassed, ContentsPassed, Types
  <2> QED  BY <2>1, <2>2 DEF Types
<1> QED  BY <1>2, <1>3, <1>4, WayFacts

\* Stamping contents.
LEMMA StampFacts ==
    ASSUME NEW passed \in Contents, NEW k
    PROVE  /\ Stamp(passed, k) = [id    |-> IF passed.id = NoHeader THEN k ELSE passed.id,
                                  time  |-> IF passed.time = NoHeader THEN k ELSE passed.time,
                                  trace |-> passed.trace]
           /\ StartPublish(Stamp(passed, k), k) =
                 [id    |-> IF passed.id = NoHeader THEN k ELSE passed.id,
                  time  |-> IF passed.time = NoHeader THEN k ELSE passed.time,
                  trace |-> k]
<1>1. passed \in [id : Attempts \cup {NoHeader}, time : Attempts \cup {NoHeader},
                  trace : Attempts \cup {NoHeader}]
  BY DEF Contents
<1>2. passed = [id |-> passed.id, time |-> passed.time, trace |-> passed.trace]
  BY <1>1
<1>3. Stamp(passed, k) = [id    |-> IF passed.id = NoHeader THEN k ELSE passed.id,
                          time  |-> IF passed.time = NoHeader THEN k ELSE passed.time,
                          trace |-> passed.trace]
  <2>1. Stamp(passed, k) = [[passed EXCEPT !.id = IF passed.id = NoHeader THEN k ELSE passed.id]
                              EXCEPT !.time = IF passed.time = NoHeader THEN k ELSE passed.time]
    BY <1>1 DEF Stamp
  <2>2. \A i, t : [[passed EXCEPT !.id = i] EXCEPT !.time = t] = [id |-> i, time |-> t, trace |-> passed.trace]
    <3>1. ASSUME NEW i, NEW t
          PROVE  [[passed EXCEPT !.id = i] EXCEPT !.time = t] = [id |-> i, time |-> t, trace |-> passed.trace]
      <4>1. [passed EXCEPT !.id = i] = [id |-> i, time |-> passed.time, trace |-> passed.trace]
        BY <1>1
      <4>2. [id |-> i, time |-> passed.time, trace |-> passed.trace]
              \in [id : {i}, time : {passed.time}, trace : {passed.trace}]
        OBVIOUS
      <4>3. ASSUME NEW r \in [id : {i}, time : {passed.time}, trace : {passed.trace}]
            PROVE  [r EXCEPT !.time = t] = [id |-> i, time |-> t, trace |-> passed.trace]
        OBVIOUS
      <4> QED  BY <4>1, <4>2, <4>3
    <3> QED  BY <3>1
  <2> QED  BY <2>1, <2>2
<1> QED  BY <1>3 DEF StartPublish

LEMMA StartsFacts ==
    ASSUME Types, NEW p \in Publications, NEW contents, NEW traced \in BOOLEAN, Starts(p, contents, traced)
    PROVE  /\ <<p, attempt[p] + 1>> \in Attempts /\ <<p, attempt[p] + 1>> # NoHeader
           /\ attempt[p] \in Nat
           /\ contents \in Contents /\ IsStamped(contents)
           /\ attempt' = [attempt EXCEPT ![p] = @ + 1] /\ attempt'[p] = attempt[p] + 1
           /\ object' = [object EXCEPT ![p] = ObjectPassed(p)]
           /\ headers' = [headers EXCEPT ![ObjectPassed(p)] = contents]
           /\ stage[p] \in {"idle", "threw"} /\ stage'[p] \in {"publishing", "threw"}
           /\ \A q \in Publications : q # p => /\ attempt'[q] = attempt[q] /\ object'[q] = object[q]
                                               /\ stage'[q] = stage[q]
           /\ \A o \in Objects : headers'[o] = IF o = ObjectPassed(p) THEN contents ELSE headers[o]
           /\ object'[p] = ObjectPassed(p)
<1>1. attempt[p] \in 0..MaxAttempts /\ attempt[p] < MaxAttempts /\ MaxAttempts \in Nat
  BY PublishingAssumption DEF Starts, MayPublish, Types
<1>2. <<p, attempt[p] + 1>> \in Attempts /\ <<p, attempt[p] + 1>> # NoHeader
  BY <1>1, PublishingAssumption DEF Attempts
<1>3. ContentsPassed(p) \in Contents
  BY PassedFacts
<1>4. contents \in Contents /\ IsStamped(contents)
  BY <1>2, <1>3 DEF Starts, IsStamped, Contents
<1>5. /\ attempt' = [attempt EXCEPT ![p] = @ + 1]
      /\ object' = [object EXCEPT ![p] = ObjectPassed(p)]
      /\ headers' = [headers EXCEPT ![ObjectPassed(p)] = contents]
      /\ stage[p] \in {"idle", "threw"}
      /\ \E next \in {"publishing", "threw"} : stage' = [stage EXCEPT ![p] = next]
  BY DEF Starts, MayPublish, Begin
<1> QED  BY <1>1, <1>2, <1>4, <1>5 DEF Types

\* Every step is a call that starts, the message it sends, its end without one, or a
\* delivery.
Sends(p) ==
    /\ stage[p] = "publishing"
    /\ wire' = wire \cup {Message(p)}
    /\ \/ stage' = [stage EXCEPT ![p] = "sent"]
       \/ transport = "rabbitMq" /\ stage' = [stage EXCEPT ![p] = "threw"]
    /\ UNCHANGED <<transport, way, headers, object, attempt, spans, received, seen, processed>>

Fails(p) ==
    /\ stage[p] = "publishing"
    /\ stage' = [stage EXCEPT ![p] = "threw"]
    /\ UNCHANGED <<transport, way, headers, object, attempt, spans, wire, received, seen, processed>>

Consumes(m) ==
    /\ Carried(m).id \notin seen
    /\ seen' = seen \cup ({Carried(m).id} \ {NoHeader})
    /\ processed' = [processed EXCEPT ![m.pub] = @ + 1]
    /\ received' = [received EXCEPT ![m.pub] = m.contents]

Delivers(m) ==
    /\ m \in wire
    /\ \/ wire' = wire \ {m}
       \/ /\ m.deliveries + 1 < MaxDeliveries
          /\ wire' = (wire \ {m}) \cup {[m EXCEPT !.deliveries = @ + 1]}
    /\ UNCHANGED <<received, seen, processed>> \/ Consumes(m)
    /\ UNCHANGED <<transport, way, headers, object, attempt, stage, spans>>

LEMMA StepShape ==
    ASSUME Types, [Next]_vars
    PROVE  \/ UNCHANGED vars
           \/ \E p \in Publications : \/ \E traced \in BOOLEAN : \E contents : Starts(p, contents, traced)
                                      \/ Sends(p) \/ Fails(p)
           \/ \E m \in wire : Delivers(m)
<1>1. ASSUME NEW p \in Publications, NEW traced \in BOOLEAN, PublishAsync(p, traced)
      PROVE  \E t \in BOOLEAN : \E contents : Starts(p, contents, t)
  <2> DEFINE k == <<p, attempt[p] + 1>>
             stamped == Stamp(ContentsPassed(p), k)
             contents == IF traced THEN StartPublish(stamped, k) ELSE stamped
  <2>1. /\ MayPublish(p) /\ Begin(p, contents)
        /\ spans' = IF traced THEN spans \cup {k} ELSE spans
        /\ stage' = [stage EXCEPT ![p] = "publishing"]
        /\ UNCHANGED <<transport, way, wire, received, seen, processed>>
    BY <1>1 DEF PublishAsync, consumerVars
  <2>2. contents = [id    |-> IF ContentsPassed(p).id = NoHeader THEN k ELSE ContentsPassed(p).id,
                    time  |-> IF ContentsPassed(p).time = NoHeader THEN k ELSE ContentsPassed(p).time,
                    trace |-> IF traced THEN k ELSE ContentsPassed(p).trace]
    BY PassedFacts, StampFacts
  <2> HIDE DEF contents
  <2>3. Starts(p, contents, traced)
    BY <2>1, <2>2 DEF Starts
  <2> QED  BY <2>3
<1>2. ASSUME NEW p \in Publications, SerializeThrows(p)
      PROVE  \E t \in BOOLEAN : \E contents : Starts(p, contents, t)
  <2> DEFINE k == <<p, attempt[p] + 1>>
             contents == Stamp(ContentsPassed(p), k)
  <2>1. /\ MayPublish(p) /\ Begin(p, contents)
        /\ spans' = spans
        /\ stage' = [stage EXCEPT ![p] = "threw"]
        /\ UNCHANGED <<transport, way, wire, received, seen, processed>>
    BY <1>2 DEF SerializeThrows, consumerVars
  <2>2. contents = [id    |-> IF ContentsPassed(p).id = NoHeader THEN k ELSE ContentsPassed(p).id,
                    time  |-> IF ContentsPassed(p).time = NoHeader THEN k ELSE ContentsPassed(p).time,
                    trace |-> ContentsPassed(p).trace]
    BY PassedFacts, StampFacts
  <2> HIDE DEF contents
  <2>3. Starts(p, contents, FALSE)
    BY <2>1, <2>2 DEF Starts
  <2> QED  BY <2>3
<1>3. ASSUME NEW p \in Publications, PublishEventAsync(p) \/ PublishEventThrows(p)
      PROVE  Sends(p) \/ Fails(p)
  BY <1>3 DEF PublishEventAsync, PublishEventThrows, Sends, Fails, consumerVars
<1>4. ASSUME NEW m \in wire, NEW fails \in BOOLEAN, NEW again \in BOOLEAN, Deliver(m, fails, again)
      PROVE  Delivers(m)
  <2>1. UNCHANGED <<received, seen, processed>> \/ Consumes(m)
    BY <1>4 DEF Deliver, Consume, Consumes, Known, consumerVars
  <2>2. \/ wire' = wire \ {m}
        \/ /\ m.deliveries + 1 < MaxDeliveries
           /\ wire' = (wire \ {m}) \cup {[m EXCEPT !.deliveries = @ + 1]}
    BY <1>4 DEF Deliver
  <2> QED  BY <1>4, <2>1, <2>2 DEF Deliver, Delivers, publisherVars
<1> QED  BY <1>1, <1>2, <1>3, <1>4 DEF Next

\* A message that comes once more is the one that came, but for the count.
LEMMA RedeliverFacts ==
    ASSUME Types, NEW m \in wire, Delivers(m)
    PROVE  \A n \in wire' : /\ n \in Messages
                            /\ \E o \in wire : /\ n.pub = o.pub /\ n.attempt = o.attempt
                                               /\ n.contents = o.contents
                                               /\ Carried(n)' = Carried(o)
<1>0. m \in Messages /\ MaxDeliveries \in Nat
  BY PublishingAssumption DEF Types
<1>1. UNCHANGED <<transport, headers, object>>
  BY DEF Delivers
<1>2. ASSUME NEW n \in wire', n \in wire
      PROVE  Carried(n)' = Carried(n) /\ n \in Messages
  BY <1>1, <1>2 DEF Carried, Types
<1>3. ASSUME NEW n \in wire', n \notin wire
      PROVE  /\ n \in Messages /\ n.pub = m.pub /\ n.attempt = m.attempt /\ n.contents = m.contents
             /\ Carried(n)' = Carried(m)
  <2>1. m.deliveries + 1 < MaxDeliveries /\ n = [m EXCEPT !.deliveries = @ + 1]
    BY <1>3 DEF Delivers
  <2>2. m.deliveries \in 0..(MaxDeliveries - 1)
    BY <1>0 DEF Messages
  <2>3. m.deliveries + 1 \in 0..(MaxDeliveries - 1)
    BY <1>0, <2>1, <2>2
  <2>4. n = [pub |-> m.pub, attempt |-> m.attempt, deliveries |-> m.deliveries + 1,
             contents |-> m.contents]
    BY <1>0, <2>1 DEF Messages
  <2>5. m.pub \in Publications /\ m.attempt \in 1..MaxAttempts /\ m.contents \in Contents
    BY <1>0 DEF Messages
  <2> QED  BY <1>1, <2>3, <2>4, <2>5 DEF Carried, Messages
<1> QED  BY <1>2, <1>3

\* The message of a publication that is being sent.
LEMMA MessageFacts ==
    ASSUME TypeInv, NEW p \in Publications, Sends(p)
    PROVE  /\ Message(p) \in Messages
           /\ Message(p).pub = p /\ Message(p).attempt = attempt[p]
           /\ transport = "rabbitMq" => Message(p).contents = headers[object[p]]
           /\ Carried(Message(p)) = headers[object[p]]
           /\ attempt[p] > 0 /\ object[p] \in Objects
           /\ IsStamped(headers[object[p]])
<1>1. attempt[p] > 0 /\ attempt[p] \in 0..MaxAttempts /\ object[p] \in Objects
  BY DEF TypeInv, Types, Stages, Sends
<1>2. attempt[p] \in 1..MaxAttempts /\ 0 \in 0..(MaxDeliveries - 1)
  BY <1>1, PublishingAssumption
<1>3. EmptyHeaders \in Contents /\ headers[object[p]] \in Contents
  BY <1>1 DEF EmptyHeaders, Contents, TypeInv, Types
<1>4. Message(p) = [pub |-> p, attempt |-> attempt[p], deliveries |-> 0,
                    contents |-> IF transport = "inMemory" THEN EmptyHeaders ELSE headers[object[p]]]
  BY DEF Message
<1>5. Message(p) \in Messages
  BY <1>2, <1>3, <1>4 DEF Messages
<1>6. transport \in {"inMemory", "rabbitMq"} /\ IsStamped(headers[object[p]])
  BY <1>1 DEF TypeInv, Types, Stages
<1> QED  BY <1>1, <1>4, <1>5, <1>6 DEF Carried

LEMMA TypeInitially == Init => TypeInv
<1> SUFFICES ASSUME Init PROVE TypeInv
  OBVIOUS
<1>1. EmptyHeaders \in Contents /\ 0 \in 0..MaxAttempts /\ \A p \in Publications : <<"new", p>> \in Objects
  BY PublishingAssumption DEF EmptyHeaders, Contents, Objects
<1>2. Types
  BY <1>1 DEF Init, Types
<1>3. Stages
  BY DEF Init, Stages
<1> QED  BY <1>2, <1>3 DEF TypeInv

LEMMA TypeInductive == TypeInv /\ [Next]_vars => TypeInv'
<1> SUFFICES ASSUME TypeInv, [Next]_vars PROVE TypeInv'
  OBVIOUS
<1>0. Types /\ Stages
  BY DEF TypeInv
<1>1. CASE UNCHANGED vars
  BY <1>0, <1>1 DEF vars, TypeInv, Types, Stages
<1>2. ASSUME NEW p \in Publications, NEW traced \in BOOLEAN, NEW contents, Starts(p, contents, traced)
      PROVE  TypeInv'
  <2>1. /\ <<p, attempt[p] + 1>> \in Attempts /\ attempt[p] \in Nat
        /\ contents \in Contents /\ IsStamped(contents)
        /\ attempt' = [attempt EXCEPT ![p] = @ + 1] /\ attempt'[p] = attempt[p] + 1
        /\ object' = [object EXCEPT ![p] = ObjectPassed(p)] /\ object'[p] = ObjectPassed(p)
        /\ headers' = [headers EXCEPT ![ObjectPassed(p)] = contents]
        /\ stage[p] \in {"idle", "threw"} /\ stage'[p] \in {"publishing", "threw"}
        /\ \A q \in Publications : q # p => /\ attempt'[q] = attempt[q] /\ object'[q] = object[q]
                                            /\ stage'[q] = stage[q]
        /\ \A o \in Objects : headers'[o] = IF o = ObjectPassed(p) THEN contents ELSE headers[o]
    BY <1>0, <1>2, StartsFacts
  <2>2. ObjectPassed(p) \in Objects
    BY <1>0, PassedFacts
  <2>3. /\ UNCHANGED <<transport, way, wire, received, seen, processed>>
        /\ spans' \subseteq spans \cup {<<p, attempt[p] + 1>>}
        /\ \E next \in {"publishing", "threw"} : stage' = [stage EXCEPT ![p] = next]
    BY <1>2 DEF Starts
  <2>4. attempt[p] + 1 \in 0..MaxAttempts
    BY <2>1 DEF Attempts
  <2>5. Types'
    <3>1. headers' \in [Objects -> Contents] /\ object' \in [Publications -> Objects]
      BY <1>0, <2>1, <2>2 DEF Types
    <3>2. attempt' \in [Publications -> 0..MaxAttempts]
      BY <1>0, <2>1, <2>4 DEF Types
    <3>3. stage' \in [Publications -> {"idle", "publishing", "sent", "threw"}] /\ spans' \subseteq Attempts
      BY <1>0, <2>1, <2>3 DEF Types
    <3> QED  BY <1>0, <2>3, <3>1, <3>2, <3>3 DEF Types
  <2>6. ASSUME NEW q \in Publications
        PROVE  /\ attempt'[q] > 0 => IsStamped(headers'[object'[q]])
               /\ stage'[q] \in {"publishing", "sent"} => attempt'[q] > 0
               /\ processed'[q] > 0 =>
                     attempt'[q] > 0 /\ (transport' = "inMemory" => stage'[q] = "sent")
    <3>1. CASE q = p
      BY <1>0, <2>1, <2>2, <2>3, <3>1 DEF Stages
    <3>2. CASE q # p
      <4>1. object[q] \in Objects
        BY <1>0 DEF Types
      <4> QED  BY <1>0, <2>1, <2>3, <3>2, <4>1 DEF Stages
    <3> QED  BY <3>1, <3>2
  <2>7. ASSUME NEW m \in wire'
        PROVE  /\ attempt'[m.pub] > 0 /\ m.attempt <= attempt'[m.pub]
               /\ transport' = "inMemory" => stage'[m.pub] = "sent" /\ m.attempt = attempt'[m.pub]
               /\ transport' = "rabbitMq" => IsStamped(m.contents)
    <3>1. m \in wire /\ m.pub \in Publications /\ m.attempt \in Nat
      BY <1>0, <2>3, <2>7 DEF Types, Messages
    <3>2. CASE m.pub = p
      BY <1>0, <2>1, <2>3, <3>1, <3>2 DEF Stages
    <3>3. CASE m.pub # p
      BY <1>0, <2>1, <2>3, <3>1, <3>3 DEF Stages
    <3> QED  BY <3>2, <3>3
  <2>8. Stages'
    BY <2>6, <2>7 DEF Stages
  <2> QED  BY <2>5, <2>8 DEF TypeInv
<1>3. ASSUME NEW p \in Publications, Sends(p)
      PROVE  TypeInv'
  <2>1. /\ Message(p) \in Messages /\ Message(p).pub = p /\ Message(p).attempt = attempt[p]
        /\ transport = "rabbitMq" => Message(p).contents = headers[object[p]]
        /\ attempt[p] > 0 /\ attempt[p] \in Nat /\ IsStamped(headers[object[p]])
    BY <1>0, <1>3, MessageFacts DEF Types
  <2>2. /\ wire' = wire \cup {Message(p)} /\ stage[p] = "publishing"
        /\ UNCHANGED <<transport, way, headers, object, attempt, spans, received, seen, processed>>
        /\ stage' = [stage EXCEPT ![p] = "sent"]
             \/ (transport = "rabbitMq" /\ stage' = [stage EXCEPT ![p] = "threw"])
    BY <1>3 DEF Sends
  <2>3. Types'
    BY <1>0, <2>1, <2>2 DEF Types
  <2>4. Stages'
    <3>1. \A q \in Publications :
             /\ attempt'[q] > 0 => IsStamped(headers'[object'[q]])
             /\ stage'[q] \in {"publishing", "sent"} => attempt'[q] > 0
             /\ processed'[q] > 0 => attempt'[q] > 0 /\ (transport' = "inMemory" => stage'[q] = "sent")
      BY <1>0, <2>1, <2>2 DEF Types, Stages
    <3>2. ASSUME NEW m \in wire'
          PROVE  /\ attempt'[m.pub] > 0 /\ m.attempt <= attempt'[m.pub]
                 /\ transport' = "inMemory" => stage'[m.pub] = "sent" /\ m.attempt = attempt'[m.pub]
                 /\ transport' = "rabbitMq" => IsStamped(m.contents)
      <4>1. CASE m = Message(p)
        BY <1>0, <2>1, <2>2, <4>1 DEF Types
      <4>2. CASE m \in wire
        <5>1. m.pub \in Publications
          BY <1>0, <4>2 DEF Types, Messages
        <5> QED  BY <1>0, <2>2, <4>2, <5>1 DEF Types, Stages
      <4> QED  BY <2>2, <4>1, <4>2
    <3> QED  BY <3>1, <3>2 DEF Stages
  <2> QED  BY <2>3, <2>4 DEF TypeInv
<1>4. ASSUME NEW p \in Publications, Fails(p)
      PROVE  TypeInv'
  <2>1. /\ UNCHANGED <<transport, way, headers, object, attempt, spans, wire, received, seen, processed>>
        /\ stage' = [stage EXCEPT ![p] = "threw"] /\ stage[p] = "publishing"
    BY <1>4 DEF Fails
  <2>2. Types'
    BY <1>0, <2>1 DEF Types
  <2>3. Stages'
    <3>1. \A m \in wire : m.pub \in Publications
      BY <1>0 DEF Types, Messages
    <3> QED  BY <1>0, <2>1, <3>1 DEF Types, Stages
  <2> QED  BY <2>2, <2>3 DEF TypeInv
<1>5. ASSUME NEW m \in wire, Delivers(m)
      PROVE  TypeInv'
  <2>1. /\ UNCHANGED <<transport, way, headers, object, attempt, stage, spans>>
        /\ UNCHANGED <<received, seen, processed>> \/ Consumes(m)
    BY <1>5 DEF Delivers
  <2>2. \A n \in wire' : n \in Messages /\ \E o \in wire : /\ n.pub = o.pub /\ n.attempt = o.attempt
                                                           /\ n.contents = o.contents
    BY <1>0, <1>5, RedeliverFacts
  <2>3. /\ m.pub \in Publications /\ m.contents \in Contents /\ m \in Messages
        /\ Carried(m) \in Contents
    <3>1. m \in Messages /\ m.pub \in Publications /\ m.contents \in Contents
      BY <1>0 DEF Types, Messages
    <3> QED  BY <1>0, <3>1 DEF Types, Carried
  <2>4. Types'
    <3>1. seen' \subseteq Attempts
      BY <1>0, <2>1, <2>3 DEF Types, Consumes, Contents
    <3>2. received' \in [Publications -> Contents] /\ processed' \in [Publications -> Nat]
      BY <1>0, <2>1, <2>3 DEF Types, Consumes
    <3> QED  BY <1>0, <2>1, <2>2, <3>1, <3>2 DEF Types
  <2>5. Stages'
    <3>1. ASSUME NEW q \in Publications, processed'[q] > 0
          PROVE  attempt[q] > 0 /\ (transport = "inMemory" => stage[q] = "sent")
      <4>1. CASE processed[q] > 0
        BY <1>0, <4>1 DEF Stages
      <4>2. CASE ~(processed[q] > 0)
        <5>1. q = m.pub
          BY <1>0, <2>1, <2>3, <3>1, <4>2 DEF Types, Consumes
        <5> QED  BY <1>0, <5>1 DEF Stages
      <4> QED  BY <4>1, <4>2
    <3> QED  BY <1>0, <2>1, <2>2, <3>1 DEF Stages
  <2> QED  BY <2>4, <2>5 DEF TypeInv
<1> QED  BY <1>0, <1>1, <1>2, <1>3, <1>4, <1>5, StepShape

\* Every variable keeps its type, and no message is with a transport, and none is
\* delivered, without its id and time (AbstractEventPublisher.PublishAsync).
THEOREM TypeOKAlways == Spec => []TypeOK
<1>1. TypeInv => TypeOK
  <2> SUFFICES ASSUME TypeInv PROVE TypeOK
    OBVIOUS
  <2>1. ASSUME NEW m \in wire
        PROVE  /\ <<m.pub, m.attempt>> \in Attempts
               /\ m.deliveries \in 0..(MaxDeliveries - 1)
               /\ NoHeader \notin {Carried(m).id, Carried(m).time}
    <3>1. m \in Messages /\ m.pub \in Publications
      BY DEF TypeInv, Types, Messages
    <3>2. IsStamped(Carried(m))
      BY <3>1 DEF TypeInv, Types, Stages, Carried
    <3> QED  BY <3>1, <3>2 DEF IsStamped, Messages, Attempts
  <2> QED  BY <2>1 DEF TypeInv, Types, TypeOK
<1> QED  BY <1>1, TypeInitially, TypeInductive, PTL DEF Spec

-----------------------------------------------------------------------------
(* Message ids that no other publication has *)

IdsOf(p) == {p} \X (1..MaxAttempts)

\* The object that a publication uses from its first call on, if it is no handler's.
Home(p) == IF way[p][1] = "nothing" THEN <<"new", p>> ELSE way[p]

\* Until the first message of p is processed, nobody else has its object or an id that
\* was made for it.
Untouched(p) ==
    /\ \A q \in Publications \ {p} : object[q] # Home(p)
    /\ \A o \in Objects \ {Home(p)} : headers[o].id \notin IdsOf(p)
    /\ \A m \in wire : m.pub # p => m.contents.id \notin IdsOf(p)
    /\ \A q \in Publications : received[q].id \notin IdsOf(p)
    /\ seen \cap IdsOf(p) = {}

Private(p) ==
    /\ attempt[p] > 0 => object[p] = Home(p)
    /\ headers[Home(p)].id \in IdsOf(p) \cup {NoHeader}
    /\ \A m \in wire : m.pub = p /\ transport = "rabbitMq" => m.contents.id \in IdsOf(p)
    /\ processed[p] = 0 => Untouched(p)

PrivateInv == \A p \in Publications : OwnHeaders(p) => Private(p)

\* Ids made for a publication are its own.
LEMMA IdsFacts ==
    ASSUME NEW p \in Publications
    PROVE  /\ NoHeader \notin IdsOf(p)
           /\ \A i : <<p, i>> \in Attempts => <<p, i>> \in IdsOf(p)
           /\ \A q, i : q # p => <<q, i>> \notin IdsOf(p)
BY PublishingAssumption DEF IdsOf, Attempts

\* Two cases are left for a publication that is no handler's.
LEMMA HomeFacts ==
    ASSUME Types, NEW p \in Publications, way[p][1] # "handler"
    PROVE  /\ Home(p) \in Objects
           /\ ObjectPassed(p) = Home(p)
           /\ ContentsPassed(p) = EmptyHeaders \/ ContentsPassed(p) = headers[Home(p)]
           /\ (way[p] = <<"nothing", p>> /\ Home(p) = <<"new", p>>)
                 \/ (way[p][1] = "caller" /\ Home(p) = way[p])
<1>1. CASE way[p] = <<"nothing", p>>
  BY <1>1, PassedFacts DEF Home, Objects
<1>2. CASE way[p][1] = "caller" /\ way[p] \in Objects
  BY <1>2, PassedFacts DEF Home
<1> QED  BY <1>1, <1>2, WayFacts

\* What another publication's call leaves alone.
LEMMA OthersLeave ==
    ASSUME TypeInv, NEW p \in Publications, OwnHeaders(p), Private(p),
           NEW q \in Publications, q # p,
           NEW traced \in BOOLEAN, NEW contents, Starts(q, contents, traced)
    PROVE  /\ headers'[Home(p)].id = headers[Home(p)].id
           /\ processed[p] = 0 => ObjectPassed(q) # Home(p) /\ contents.id \notin IdsOf(p)
<1>0. Types /\ Stages
  BY DEF TypeInv
<1>1. /\ way[p][1] # "handler" /\ way[q] # way[p]
      /\ Home(p) \in Objects
      /\ (way[p] = <<"nothing", p>> /\ Home(p) = <<"new", p>>) \/ (way[p][1] = "caller" /\ Home(p) = way[p])
  BY <1>0, HomeFacts DEF OwnHeaders
<1>2. \A o \in Objects : headers'[o] = IF o = ObjectPassed(q) THEN contents ELSE headers[o]
  <2>1. /\ <<q, attempt[q] + 1>> \in Attempts
        /\ IsStamped(contents)
        /\ object'[q] = ObjectPassed(q)
        /\ \A r \in Publications : r # q => attempt'[r] = attempt[r] /\ object'[r] = object[r]
        /\ \A o \in Objects : headers'[o] = IF o = ObjectPassed(q) THEN contents ELSE headers[o]
    BY <1>0, StartsFacts
  <2> QED  BY <2>1
<1>3. contents.id = IF ContentsPassed(q).id = NoHeader THEN <<q, attempt[q] + 1>> ELSE ContentsPassed(q).id
  BY DEF Starts
<1>4. <<q, attempt[q] + 1>> \notin IdsOf(p) /\ NoHeader \notin IdsOf(p)
  BY IdsFacts
<1>5. <<"new", q>> # Home(p)
  BY <1>1
<1>6. CASE way[q][1] = "nothing"
  <2>1. ObjectPassed(q) = <<"new", q>> /\ ContentsPassed(q).id = NoHeader
    BY <1>0, <1>6, PassedFacts DEF EmptyHeaders
  <2> QED  BY <1>1, <1>2, <1>3, <1>4, <1>5, <2>1
<1>7. CASE way[q][1] = "caller"
  <2>1. ObjectPassed(q) = way[q] /\ ContentsPassed(q) = headers[way[q]] /\ way[q] \in Objects
    BY <1>0, <1>7, PassedFacts
  <2>2. way[q] # Home(p)
    BY <1>1, <1>7
  <2>3. processed[p] = 0 => headers[way[q]].id \notin IdsOf(p)
    BY <2>1, <2>2 DEF Private, Untouched
  <2> QED  BY <1>1, <1>2, <1>3, <1>4, <2>1, <2>2, <2>3
<1>8. CASE way[q][1] = "handler" /\ way[q][2] \in Publications /\ transport = "inMemory"
  <2>1. ObjectPassed(q) = object[way[q][2]] /\ ContentsPassed(q) = headers[object[way[q][2]]]
        /\ object[way[q][2]] \in Objects
    BY <1>0, <1>8, PassedFacts DEF Types
  <2>2. processed[way[q][2]] > 0
    BY <1>8 DEF Starts, MayPublish
  <2>3. IsStamped(headers[object[way[q][2]]])
    BY <1>0, <1>8, <2>2 DEF Stages
  <2>4. contents.id = headers[ObjectPassed(q)].id
    BY <1>3, <2>1, <2>3 DEF IsStamped
  <2>5. processed[p] = 0 => ObjectPassed(q) # Home(p)
    BY <1>8, <2>1, <2>2 DEF Private, Untouched
  <2>6. processed[p] = 0 => contents.id \notin IdsOf(p)
    BY <2>1, <2>4, <2>5 DEF Private, Untouched
  <2> QED  BY <1>1, <1>2, <2>4, <2>5, <2>6
<1>9. CASE way[q][1] = "handler" /\ way[q][2] \in Publications /\ transport = "rabbitMq"
  <2>1. ObjectPassed(q) = <<"new", q>> /\ ContentsPassed(q) = received[way[q][2]]
    BY <1>0, <1>9, PassedFacts
  <2>2. processed[p] = 0 => received[way[q][2]].id \notin IdsOf(p)
    BY <1>9 DEF Private, Untouched
  <2> QED  BY <1>1, <1>2, <1>3, <1>4, <1>5, <2>1, <2>2
<1>10. transport \in {"inMemory", "rabbitMq"}
  BY <1>0 DEF Types
<1> QED  BY <1>0, <1>6, <1>7, <1>8, <1>9, <1>10, WayFacts

LEMMA PrivateInitially == Init => PrivateInv
<1> SUFFICES ASSUME Init, NEW p \in Publications, OwnHeaders(p) PROVE Private(p)
  BY DEF PrivateInv
<1>1. Types
  BY TypeInitially DEF TypeInv
<1>2. way[p][1] # "handler" /\ Home(p) \in Objects /\ \A q \in Publications : way[q] # <<"new", q>>
  BY <1>1, HomeFacts, WayFacts DEF OwnHeaders, Objects
<1>3. \A q \in Publications \ {p} : <<"new", q>> # Home(p)
  BY <1>1, HomeFacts, <1>2
<1>4. NoHeader \notin IdsOf(p)
  BY IdsFacts
<1> QED  BY <1>2, <1>3, <1>4 DEF Init, Private, Untouched, EmptyHeaders

LEMMA PrivateInductive == TypeInv /\ PrivateInv /\ [Next]_vars => PrivateInv'
<1> SUFFICES ASSUME TypeInv, PrivateInv, [Next]_vars, NEW p \in Publications, OwnHeaders(p)'
             PROVE  Private(p)'
  BY DEF PrivateInv
<1>0. Types /\ Stages
  BY DEF TypeInv
<1>1. UNCHANGED <<transport, way>>
  BY <1>0, StepShape DEF vars, Starts, Sends, Fails, Delivers
<1>2. OwnHeaders(p) /\ Home(p)' = Home(p)
  BY <1>1 DEF OwnHeaders, Home
<1>3. Private(p)
  BY <1>2 DEF PrivateInv
<1>4. /\ way[p][1] # "handler" /\ Home(p) \in Objects /\ ObjectPassed(p) = Home(p)
      /\ ContentsPassed(p) = EmptyHeaders \/ ContentsPassed(p) = headers[Home(p)]
  BY <1>0, <1>2, HomeFacts DEF OwnHeaders
<1>5. CASE UNCHANGED vars
  BY <1>2, <1>3, <1>5 DEF vars, Private, Untouched
<1>6. ASSUME NEW q \in Publications, NEW traced \in BOOLEAN, NEW contents, Starts(q, contents, traced)
      PROVE  Private(p)'
  <2>1. /\ <<q, attempt[q] + 1>> \in Attempts
        /\ IsStamped(contents)
        /\ object'[q] = ObjectPassed(q)
        /\ \A r \in Publications : r # q => attempt'[r] = attempt[r] /\ object'[r] = object[r]
        /\ \A o \in Objects : headers'[o] = IF o = ObjectPassed(q) THEN contents ELSE headers[o]
    BY <1>0, <1>6, StartsFacts
  <2>2. UNCHANGED <<wire, received, seen, processed>>
    BY <1>6 DEF Starts
  <2>3. CASE q = p
    <3>1. contents.id \in IdsOf(p)
      <4>1. contents.id = <<p, attempt[p] + 1>> \/ contents.id = ContentsPassed(p).id
        BY <1>6, <2>3 DEF Starts
      <4>2. <<p, attempt[p] + 1>> \in IdsOf(p)
        BY <2>1, <2>3, IdsFacts
      <4> QED  BY <1>3, <1>4, <2>1, <4>1, <4>2 DEF Private, IsStamped, EmptyHeaders
    <3>2. processed[p] = 0 => Untouched(p)'
      <4>1. \A r \in Publications \ {p} : object'[r] = object[r]
        BY <2>1, <2>3
      <4>2. \A o \in Objects \ {Home(p)} : headers'[o] = headers[o]
        BY <1>4, <2>1, <2>3
      <4> QED  BY <1>2, <1>3, <2>2, <4>1, <4>2 DEF Private, Untouched
    <3> QED  BY <1>1, <1>2, <1>3, <1>4, <2>1, <2>2, <2>3, <3>1, <3>2 DEF Private
  <2>4. CASE q # p
    <3>1. /\ headers'[Home(p)].id = headers[Home(p)].id
          /\ processed[p] = 0 => ObjectPassed(q) # Home(p) /\ contents.id \notin IdsOf(p)
      BY <1>2, <1>3, <1>6, <2>4, OthersLeave
    <3>2. processed[p] = 0 => Untouched(p)'
      <4>1. ASSUME processed[p] = 0
            PROVE  /\ \A r \in Publications \ {p} : object'[r] # Home(p)
                   /\ \A o \in Objects \ {Home(p)} : headers'[o].id \notin IdsOf(p)
        BY <1>3, <2>1, <3>1, <4>1 DEF Private, Untouched
      <4> QED  BY <1>2, <1>3, <2>2, <4>1 DEF Private, Untouched
    <3> QED  BY <1>1, <1>2, <1>3, <2>1, <2>2, <2>4, <3>1, <3>2 DEF Private
  <2> QED  BY <2>3, <2>4
<1>7. ASSUME NEW q \in Publications, Sends(q)
      PROVE  Private(p)'
  <2>1. /\ Message(q).pub = q /\ attempt[q] > 0 /\ object[q] \in Objects
        /\ transport = "rabbitMq" => Message(q).contents = headers[object[q]]
        /\ IsStamped(headers[object[q]])
    BY <1>7, MessageFacts
  <2>2. /\ wire' = wire \cup {Message(q)}
        /\ UNCHANGED <<headers, object, attempt, received, seen, processed>>
    BY <1>7 DEF Sends
  <2>3. q = p /\ transport = "rabbitMq" => Message(q).contents.id \in IdsOf(p)
    BY <1>3, <2>1 DEF Private, IsStamped
  <2>4. q # p /\ processed[p] = 0 => Message(q).contents.id \notin IdsOf(p)
    <3>1. CASE transport = "rabbitMq"
      BY <1>3, <2>1, <3>1 DEF Private, Untouched
    <3>2. CASE transport = "inMemory"
      <4>1. Message(q).contents.id = NoHeader
        BY <3>2 DEF Message, EmptyHeaders
      <4> QED  BY <4>1, IdsFacts
    <3> QED  BY <1>0, <3>1, <3>2 DEF Types
  <2>5. processed[p] = 0 => Untouched(p)'
    BY <1>2, <1>3, <2>1, <2>2, <2>4 DEF Private, Untouched
  <2> QED  BY <1>1, <1>2, <1>3, <2>1, <2>2, <2>3, <2>5 DEF Private
<1>8. ASSUME NEW q \in Publications, Fails(q)
      PROVE  Private(p)'
  <2>1. UNCHANGED <<transport, way, headers, object, attempt, spans, wire, received, seen, processed>>
    BY <1>8 DEF Fails
  <2> QED  BY <1>2, <1>3, <2>1 DEF Private, Untouched
<1>9. ASSUME NEW m \in wire, Delivers(m)
      PROVE  Private(p)'
  <2>1. /\ UNCHANGED <<headers, object, attempt>>
        /\ UNCHANGED <<received, seen, processed>> \/ Consumes(m)
    BY <1>9 DEF Delivers
  <2>2. \A n \in wire' : \E o \in wire : n.pub = o.pub /\ n.contents = o.contents
    BY <1>0, <1>9, RedeliverFacts
  <2>3. m.pub \in Publications /\ object[m.pub] \in Objects /\ processed \in [Publications -> Nat]
        /\ received \in [Publications -> Contents]
    BY <1>0 DEF Types, Messages
  <2>4. ASSUME processed'[p] = 0
        PROVE  Untouched(p)'
    <3>1. CASE UNCHANGED <<received, seen, processed>>
      <4>1. Untouched(p)
        BY <1>3, <2>4, <3>1 DEF Private
      <4> QED  BY <1>2, <2>1, <2>2, <3>1, <4>1 DEF Untouched
    <3>2. CASE Consumes(m)
      <4>1. m.pub # p /\ processed[p] = 0
        BY <2>3, <2>4, <3>2 DEF Consumes
      <4>2. Untouched(p)
        BY <1>3, <4>1 DEF Private
      <4>3. Carried(m).id \notin IdsOf(p) /\ m.contents.id \notin IdsOf(p)
        BY <2>3, <4>1, <4>2 DEF Untouched, Carried
      <4>4. seen' \cap IdsOf(p) = {}
        BY <3>2, <4>2, <4>3 DEF Consumes, Untouched
      <4>5. \A q \in Publications : received'[q].id \notin IdsOf(p)
        BY <2>3, <3>2, <4>2, <4>3 DEF Consumes, Untouched
      <4> QED  BY <1>2, <2>1, <2>2, <4>2, <4>4, <4>5 DEF Untouched
    <3> QED  BY <2>1, <3>1, <3>2
  <2>5. processed'[p] = 0 => processed[p] = 0
    BY <2>1, <2>3 DEF Consumes
  <2> QED  BY <1>1, <1>2, <1>3, <2>1, <2>2, <2>4 DEF Private
<1> QED  BY <1>0, <1>5, <1>6, <1>7, <1>8, <1>9, StepShape

\* A message of a publication with Headers of its own carries an id made for it.
LEMMA OwnId ==
    ASSUME TypeInv, PrivateInv, NEW m \in wire, OwnHeaders(m.pub)
    PROVE  m.pub \in Publications /\ Private(m.pub) /\ Carried(m).id \in IdsOf(m.pub)
<1>1. /\ m.pub \in Publications /\ attempt[m.pub] > 0
      /\ IsStamped(headers[object[m.pub]]) /\ transport \in {"inMemory", "rabbitMq"}
  BY DEF TypeInv, Types, Stages, Messages
<1>2. Private(m.pub)
  BY <1>1 DEF PrivateInv
<1> QED  BY <1>1, <1>2 DEF Private, Carried, IsStamped

\* A consumer that drops the message ids it knows skips an event that was published
\* with Headers of its own only when it has processed it (PublishAsync stamps an id
\* that is absent, and a handler that passes its Headers on can do so only later).
THEOREM NoFalseDuplicateAlways == Spec => []NoFalseDuplicate
<1>1. TypeInv /\ PrivateInv => NoFalseDuplicate
  <2> SUFFICES ASSUME TypeInv, PrivateInv, NEW m \in wire, OwnHeaders(m.pub), Known(m)
               PROVE  processed[m.pub] > 0
    BY DEF NoFalseDuplicate
  <2>1. Private(m.pub) /\ Carried(m).id \in IdsOf(m.pub) /\ processed[m.pub] \in Nat
    BY OwnId DEF TypeInv, Types
  <2>2. processed[m.pub] # 0
    BY <2>1 DEF Private, Untouched, Known
  <2> QED  BY <2>1, <2>2
<1> QED  BY <1>1, TypeInitially, TypeInductive, PrivateInitially, PrivateInductive, PTL DEF Spec

-----------------------------------------------------------------------------
(* One message id for all the tries of a caller that passes Headers *)

\* Whoever is no handler uses its own object from its first call on.
HomeInv ==
    \A p \in Publications : way[p][1] # "handler" /\ attempt[p] > 0 => object[p] = Home(p)

\* An object of a caller keeps its id, which the consumer knows once it has processed
\* a message with it.
SharedId ==
    \A p \in Publications : way[p][1] = "caller" =>
        /\ \A m \in wire : m.pub = p /\ transport = "rabbitMq" => m.contents.id = headers[way[p]].id
        /\ processed[p] > 0 => headers[way[p]].id \in seen
        /\ processed[p] <= 1

\* The consumer knows the ids of what it has processed, wherever they are now.
SeenIds ==
    \A p \in Publications : processed[p] > 0 =>
        /\ transport = "inMemory" => headers[object[p]].id \in seen
        /\ transport = "rabbitMq" => received[p].id \in seen

\* So whatever a handler publishes with the Headers it was given is skipped.
HandedOn ==
    \A p \in Publications : way[p][1] = "handler" =>
        /\ processed[p] = 0
        /\ attempt[p] > 0 => processed[way[p][2]] > 0
        /\ attempt[p] > 0 /\ transport = "inMemory" => object[p] = object[way[p][2]]
        /\ attempt[p] > 0 /\ transport = "rabbitMq" =>
              object[p] = <<"new", p>> /\ headers[object[p]].id \in seen
        /\ \A m \in wire : m.pub = p /\ transport = "rabbitMq" => m.contents.id \in seen

OneIdInv == HomeInv /\ SharedId /\ SeenIds /\ HandedOn

LEMMA OneIdInitially == Init => OneIdInv
BY DEF Init, OneIdInv, HomeInv, SharedId, SeenIds, HandedOn

\* A call changes no id that is there, but for the object it made itself.
LEMMA IdStays ==
    ASSUME Types, NEW q \in Publications, NEW traced \in BOOLEAN, NEW contents, Starts(q, contents, traced),
           NEW o \in Objects, headers[o].id # NoHeader, o # <<"new", q>>
    PROVE  headers'[o].id = headers[o].id
<1>1. headers'[o] = IF o = ObjectPassed(q) THEN contents ELSE headers[o]
  <2>1. /\ <<q, attempt[q] + 1>> \in Attempts
        /\ IsStamped(contents)
        /\ object'[q] = ObjectPassed(q)
        /\ \A r \in Publications : r # q => attempt'[r] = attempt[r] /\ object'[r] = object[r]
        /\ \A u \in Objects : headers'[u] = IF u = ObjectPassed(q) THEN contents ELSE headers[u]
    BY StartsFacts
  <2> QED  BY <2>1
<1>2. CASE o = ObjectPassed(q)
  <2>1. ContentsPassed(q) = headers[o]
    BY <1>2, WayFacts, PassedFacts DEF Types
  <2> QED  BY <1>1, <1>2, <2>1 DEF Starts
<1> QED  BY <1>1, <1>2

\* What has an id keeps it in a step of another publication in the same process, if it
\* has been processed.
LEMMA ProcessedIdStays ==
    ASSUME TypeInv, HomeInv, HandedOn, NEW p \in Publications, processed[p] > 0, transport = "inMemory",
           NEW q \in Publications, NEW traced \in BOOLEAN, NEW contents, Starts(q, contents, traced)
    PROVE  q # p /\ headers'[object[p]].id = headers[object[p]].id
<1>0. Types /\ Stages
  BY DEF TypeInv
<1>1. /\ attempt[p] > 0 /\ stage[p] = "sent" /\ way[p][1] # "handler"
      /\ IsStamped(headers[object[p]]) /\ object[p] \in Objects
  BY <1>0 DEF Stages, HandedOn, Types
<1>2. q # p
  BY <1>1 DEF Starts, MayPublish
<1>3. object[p] # <<"new", q>>
  BY <1>0, <1>1, <1>2, HomeFacts DEF HomeInv
<1> QED  BY <1>0, <1>1, <1>2, <1>3, IdStays DEF IsStamped

LEMMA OneIdInductive == TypeInv /\ OneIdInv /\ [Next]_vars => OneIdInv'
<1> SUFFICES ASSUME TypeInv, OneIdInv, [Next]_vars PROVE OneIdInv'
  OBVIOUS
<1>0. Types /\ Stages /\ HomeInv /\ SharedId /\ SeenIds /\ HandedOn
  BY DEF TypeInv, OneIdInv
<1>1. /\ UNCHANGED <<transport, way>> /\ transport \in {"inMemory", "rabbitMq"}
      /\ processed \in [Publications -> Nat] /\ attempt \in [Publications -> 0..MaxAttempts]
  BY <1>0, StepShape DEF vars, Starts, Sends, Fails, Delivers, Types
<1>2. CASE UNCHANGED vars
  BY <1>0, <1>2 DEF vars, OneIdInv, HomeInv, SharedId, SeenIds, HandedOn, Home
<1>3. ASSUME NEW q \in Publications, NEW traced \in BOOLEAN, NEW contents, Starts(q, contents, traced)
      PROVE  OneIdInv'
  <2>1. /\ <<q, attempt[q] + 1>> \in Attempts
        /\ IsStamped(contents)
        /\ object'[q] = ObjectPassed(q)
        /\ \A r \in Publications : r # q => attempt'[r] = attempt[r] /\ object'[r] = object[r]
        /\ \A o \in Objects : headers'[o] = IF o = ObjectPassed(q) THEN contents ELSE headers[o]
    BY <1>0, <1>3, StartsFacts
  <2>2. UNCHANGED <<wire, received, seen, processed>>
    BY <1>3 DEF Starts
  <2>3. HomeInv'
    <3>1. ASSUME NEW p \in Publications, way[p][1] # "handler", attempt'[p] > 0
          PROVE  object'[p] = Home(p)
      BY <1>0, <2>1, <3>1, HomeFacts DEF HomeInv
    <3> QED  BY <1>1, <3>1 DEF HomeInv, Home
  <2>4. SharedId'
    <3>1. ASSUME NEW p \in Publications, way[p][1] = "caller", attempt[p] > 0
          PROVE  headers'[way[p]].id = headers[way[p]].id
      <4>1. /\ object[p] = way[p] /\ way[p] \in Objects /\ IsStamped(headers[way[p]])
            /\ way[p] # <<"new", q>>
        BY <1>0, <3>1, HomeFacts DEF HomeInv, Stages
      <4> QED  BY <1>0, <1>3, <4>1, IdStays DEF IsStamped
    <3>2. \A m \in wire : attempt[m.pub] > 0
      BY <1>0 DEF Stages
    <3>3. \A p \in Publications : processed[p] > 0 => attempt[p] > 0
      BY <1>0 DEF Stages
    <3> QED  BY <1>0, <1>1, <2>2, <3>1, <3>2, <3>3 DEF SharedId
  <2>5. SeenIds'
    <3>1. ASSUME NEW p \in Publications, processed[p] > 0, transport = "inMemory"
          PROVE  headers'[object'[p]].id \in seen
      <4>1. q # p /\ headers'[object[p]].id = headers[object[p]].id
        BY <1>0, <1>3, <3>1, ProcessedIdStays
      <4> QED  BY <1>0, <2>1, <3>1, <4>1 DEF SeenIds
    <3> QED  BY <1>0, <1>1, <2>2, <3>1 DEF SeenIds
  <2>6. HandedOn'
    <3> SUFFICES ASSUME NEW p \in Publications, way[p][1] = "handler"
                 PROVE  /\ processed[p] = 0
                        /\ attempt'[p] > 0 => processed[way[p][2]] > 0
                        /\ attempt'[p] > 0 /\ transport = "inMemory" => object'[p] = object'[way[p][2]]
                        /\ attempt'[p] > 0 /\ transport = "rabbitMq" =>
                              object'[p] = <<"new", p>> /\ headers'[object'[p]].id \in seen
                        /\ \A m \in wire : m.pub = p /\ transport = "rabbitMq" => m.contents.id \in seen
      BY <1>1, <2>2 DEF HandedOn
    <3>1. way[p][2] \in Publications /\ way[p][2] # p
      BY <1>0, WayFacts
    <3>2. CASE q = p
      <4>1. processed[way[p][2]] > 0
        BY <1>3, <3>2 DEF Starts, MayPublish
      <4>2. CASE transport = "inMemory"
        BY <1>0, <2>1, <3>1, <3>2, <4>1, <4>2, PassedFacts DEF HandedOn
      <4>3. CASE transport = "rabbitMq"
        <5>1. ObjectPassed(p) = <<"new", p>> /\ ContentsPassed(p) = received[way[p][2]]
              /\ <<"new", p>> \in Objects
          BY <1>0, <4>3, PassedFacts DEF Objects
        <5>2. received[way[p][2]].id \in seen /\ received[way[p][2]].id # NoHeader
          BY <1>0, <3>1, <4>1, <4>3, PublishingAssumption DEF SeenIds, Types
        <5>3. contents.id = received[way[p][2]].id
          BY <1>3, <3>2, <5>1, <5>2 DEF Starts
        <5> QED  BY <1>0, <2>1, <3>2, <4>1, <4>3, <5>1, <5>2, <5>3 DEF HandedOn
      <4> QED  BY <1>1, <4>2, <4>3
    <3>3. CASE q # p
      <4>1. attempt'[p] = attempt[p] /\ object'[p] = object[p]
        BY <2>1, <3>3
      <4>2. attempt[p] > 0 /\ transport = "inMemory" => object'[way[p][2]] = object[way[p][2]]
        <5>1. attempt[p] > 0 /\ transport = "inMemory" => q # way[p][2]
          BY <1>0, <1>3, <3>1, ProcessedIdStays DEF HandedOn
        <5> QED  BY <2>1, <3>1, <5>1
      <4>3. attempt[p] > 0 /\ transport = "rabbitMq" => headers'[object[p]].id = headers[object[p]].id
        <5>1. ASSUME attempt[p] > 0, transport = "rabbitMq"
              PROVE  headers'[object[p]].id = headers[object[p]].id
          <6>1. object[p] \in Objects /\ object[p] = <<"new", p>> /\ headers[object[p]].id # NoHeader
            BY <1>0, <5>1 DEF HandedOn, Types, Stages, IsStamped
          <6>2. object[p] # <<"new", q>>
            BY <3>3, <6>1
          <6> QED  BY <1>0, <1>3, <6>1, <6>2, IdStays
        <5> QED  BY <5>1
      <4> QED  BY <1>0, <4>1, <4>2, <4>3 DEF HandedOn
    <3> QED  BY <3>2, <3>3
  <2> QED  BY <2>3, <2>4, <2>5, <2>6 DEF OneIdInv
<1>4. ASSUME NEW q \in Publications, Sends(q)
      PROVE  OneIdInv'
  <2>1. /\ Message(q).pub = q /\ attempt[q] > 0
        /\ transport = "rabbitMq" => Message(q).contents = headers[object[q]]
    BY <1>4, MessageFacts
  <2>2. /\ wire' = wire \cup {Message(q)}
        /\ UNCHANGED <<transport, way, headers, object, attempt, received, seen, processed>>
    BY <1>4 DEF Sends
  <2>3. HomeInv' /\ SeenIds'
    BY <1>0, <2>2 DEF HomeInv, SeenIds, Home
  <2>4. way[q][1] = "caller" => object[q] = way[q]
    BY <1>0, <2>1, HomeFacts DEF HomeInv
  <2>5. SharedId'
    BY <1>0, <2>1, <2>2, <2>4 DEF SharedId
  <2>6. HandedOn'
    BY <1>0, <2>1, <2>2 DEF HandedOn
  <2> QED  BY <2>3, <2>5, <2>6 DEF OneIdInv
<1>5. ASSUME NEW q \in Publications, Fails(q)
      PROVE  OneIdInv'
  BY <1>0, <1>5 DEF Fails, OneIdInv, HomeInv, SharedId, SeenIds, HandedOn, Home
<1>6. ASSUME NEW m \in wire, Delivers(m)
      PROVE  OneIdInv'
  <2>1. /\ UNCHANGED <<transport, way, headers, object, attempt>>
        /\ UNCHANGED <<received, seen, processed>> \/ Consumes(m)
    BY <1>6 DEF Delivers
  <2>2. \A n \in wire' : \E o \in wire : n.pub = o.pub /\ n.contents = o.contents
    BY <1>0, <1>6, RedeliverFacts
  <2>3. HomeInv'
    BY <1>0, <2>1 DEF HomeInv, Home
  <2>4. CASE UNCHANGED <<received, seen, processed>>
    BY <1>0, <2>1, <2>2, <2>3, <2>4 DEF OneIdInv, SharedId, SeenIds, HandedOn
  <2>5. CASE Consumes(m)
    <3>1. /\ m.pub \in Publications /\ attempt[m.pub] > 0
          /\ transport = "rabbitMq" => IsStamped(m.contents)
          /\ IsStamped(headers[object[m.pub]])
          /\ received \in [Publications -> Contents]
      BY <1>0 DEF Types, Stages, Messages
    <3>2. /\ transport = "inMemory" => Carried(m) = headers[object[m.pub]]
          /\ transport = "rabbitMq" => Carried(m) = m.contents
          /\ Carried(m).id # NoHeader
      BY <1>1, <3>1 DEF Carried, IsStamped
    <3>3. /\ Carried(m).id \notin seen
          /\ seen' = seen \cup {Carried(m).id}
          /\ processed' = [processed EXCEPT ![m.pub] = @ + 1]
          /\ received' = [received EXCEPT ![m.pub] = m.contents]
      BY <2>5, <3>2 DEF Consumes
    <3>4. way[m.pub][1] # "handler"
      <4>1. ASSUME way[m.pub][1] = "handler"
            PROVE  FALSE
        <5>1. way[m.pub][2] \in Publications
          BY <1>0, <3>1, <4>1, WayFacts
        <5>2. CASE transport = "inMemory"
          BY <1>0, <3>1, <3>2, <3>3, <4>1, <5>1, <5>2 DEF HandedOn, SeenIds
        <5>3. CASE transport = "rabbitMq"
          BY <1>0, <3>1, <3>2, <3>3, <4>1, <5>3 DEF HandedOn
        <5> QED  BY <1>1, <5>2, <5>3
      <4> QED  BY <4>1
    <3>5. SeenIds'
      <4>1. ASSUME NEW p \in Publications, processed'[p] > 0
            PROVE  /\ transport = "inMemory" => headers[object[p]].id \in seen'
                   /\ transport = "rabbitMq" => received'[p].id \in seen'
        <5>1. CASE p = m.pub
          BY <1>1, <3>1, <3>2, <3>3, <5>1
        <5>2. CASE p # m.pub
          BY <1>0, <1>1, <3>1, <3>3, <4>1, <5>2 DEF SeenIds
        <5> QED  BY <5>1, <5>2
      <4> QED  BY <2>1, <4>1 DEF SeenIds
    <3>6. SharedId'
      <4>1. ASSUME NEW p \in Publications, way[p][1] = "caller"
            PROVE  /\ processed'[p] > 0 => headers[way[p]].id \in seen'
                   /\ processed'[p] <= 1
        <5>1. CASE p = m.pub
          <6>1. object[p] = way[p]
            BY <1>0, <3>1, <4>1, <5>1, HomeFacts DEF HomeInv
          <6>2. Carried(m).id = headers[way[p]].id
            BY <1>0, <1>1, <3>2, <4>1, <5>1, <6>1 DEF SharedId
          <6>3. processed[p] = 0
            BY <1>0, <1>1, <3>3, <4>1, <6>2 DEF SharedId
          <6> QED  BY <1>1, <3>1, <3>3, <5>1, <6>2, <6>3
        <5>2. CASE p # m.pub
          BY <1>0, <1>1, <3>3, <4>1, <5>2 DEF SharedId
        <5> QED  BY <5>1, <5>2
      <4> QED  BY <1>0, <2>1, <2>2, <4>1 DEF SharedId
    <3>7. HandedOn'
      <4>1. \A p \in Publications : way[p][1] = "handler" => processed'[p] = processed[p]
        BY <1>1, <3>3, <3>4
      <4>2. \A p \in Publications : processed[p] > 0 => processed'[p] > 0
        BY <1>1, <3>1, <3>3
      <4>3. \A p \in Publications : way[p][1] = "handler" => way[p][2] \in Publications
        BY <1>0, WayFacts
      <4> QED  BY <1>0, <2>1, <2>2, <3>3, <4>1, <4>2, <4>3 DEF HandedOn
    <3> QED  BY <2>3, <3>5, <3>6, <3>7 DEF OneIdInv
  <2> QED  BY <2>1, <2>4, <2>5
<1> QED  BY <1>0, <1>2, <1>3, <1>4, <1>5, <1>6, StepShape

-----------------------------------------------------------------------------
(* One message id for each try of a caller that passes nothing *)

\* An id is made by a try that there has been.
IdMade(i) == i # NoHeader => i \in Attempts /\ i[2] <= attempt[i[1]]

IdsMade ==
    /\ \A o \in Objects : IdMade(headers[o].id)
    /\ \A m \in wire : IdMade(m.contents.id)
    /\ \A p \in Publications : IdMade(received[p].id)
    /\ \A i \in seen : IdMade(i)

LEMMA IdsMadeInitially == Init => IdsMade
BY DEF Init, IdsMade, IdMade, EmptyHeaders

LEMMA IdsMadeInductive == TypeInv /\ IdsMade /\ [Next]_vars => IdsMade'
<1> SUFFICES ASSUME TypeInv, IdsMade, [Next]_vars PROVE IdsMade'
  OBVIOUS
<1>0. Types /\ Stages /\ attempt \in [Publications -> 0..MaxAttempts]
  BY DEF TypeInv, Types
<1>1. CASE UNCHANGED vars
  BY <1>1 DEF vars, IdsMade, IdMade
<1>2. ASSUME NEW q \in Publications, NEW traced \in BOOLEAN, NEW contents, Starts(q, contents, traced)
      PROVE  IdsMade'
  <2>1. /\ <<q, attempt[q] + 1>> \in Attempts /\ attempt[q] \in Nat
        /\ attempt' = [attempt EXCEPT ![q] = @ + 1] /\ attempt'[q] = attempt[q] + 1
        /\ \A r \in Publications : r # q => /\ attempt'[r] = attempt[r] /\ object'[r] = object[r]
                                            /\ stage'[r] = stage[r]
        /\ \A o \in Objects : headers'[o] = IF o = ObjectPassed(q) THEN contents ELSE headers[o]
    BY <1>0, <1>2, StartsFacts
  <2>2. UNCHANGED <<wire, received, seen>>
    BY <1>2 DEF Starts
  <2>3. \A i : IdMade(i) => IdMade(i)'
    <3>1. ASSUME NEW i \in Attempts, i[2] <= attempt[i[1]]
          PROVE  i[2] <= attempt'[i[1]]
      <4>1. i[1] \in Publications /\ i[2] \in Nat /\ attempt[i[1]] \in Nat
        BY <1>0 DEF Attempts
      <4> QED  BY <2>1, <3>1, <4>1
    <3> QED  BY <3>1 DEF IdMade
  <2>4. IdMade(ContentsPassed(q).id)
    <3>1. IdMade(NoHeader)
      BY DEF IdMade
    <3> QED  BY <1>0, <3>1, PassedFacts, WayFacts DEF IdsMade, EmptyHeaders, Types
  <2>5. IdMade(contents.id)'
    <3>1. PICK k : k = <<q, attempt[q] + 1>>
      OBVIOUS
    <3>2. IdMade(k)'
      BY <2>1, <3>1 DEF IdMade
    <3>3. PICK i : i = ContentsPassed(q).id
      OBVIOUS
    <3>4. IdMade(i)'
      BY <2>3, <2>4, <3>3
    <3>5. contents.id = k \/ contents.id = i
      BY <1>2, <3>1, <3>3 DEF Starts
    <3> QED  BY <3>2, <3>4, <3>5
  <2>6. \A o \in Objects :
            headers'[o].id # NoHeader => /\ headers'[o].id \in Attempts
                                         /\ headers'[o].id[2] <= attempt'[headers'[o].id[1]]
    <3>1. ASSUME NEW o \in Objects, headers'[o].id # NoHeader
          PROVE  /\ headers'[o].id \in Attempts
                 /\ headers'[o].id[2] <= attempt'[headers'[o].id[1]]
      <4>1. PICK i : i = headers'[o].id
        OBVIOUS
      <4>2. CASE o = ObjectPassed(q)
        <5>1. i = contents.id
          BY <2>1, <4>1, <4>2
        <5>2. PICK c : c = contents.id
          OBVIOUS
        <5>3. c # NoHeader => c \in Attempts /\ c[2] <= attempt'[c[1]]
          BY <2>5, <5>2 DEF IdMade
        <5> QED  BY <3>1, <4>1, <5>1, <5>2, <5>3
      <4>3. CASE o # ObjectPassed(q)
        <5>1. IdMade(i)
          BY <2>1, <4>1, <4>3 DEF IdsMade
        <5>2. i # NoHeader => i \in Attempts /\ i[2] <= attempt'[i[1]]
          BY <2>3, <5>1 DEF IdMade
        <5> QED  BY <3>1, <4>1, <5>2
      <4> QED  BY <4>2, <4>3
    <3> QED  BY <3>1
  <2>7. \A i : IdMade(i) => (i # NoHeader => i \in Attempts /\ i[2] <= attempt'[i[1]])
    BY <2>3 DEF IdMade
  <2>8. /\ \A m \in wire' : m.contents.id # NoHeader =>
                /\ m.contents.id \in Attempts
                /\ m.contents.id[2] <= attempt'[m.contents.id[1]]
        /\ \A p \in Publications : received'[p].id # NoHeader =>
                /\ received'[p].id \in Attempts
                /\ received'[p].id[2] <= attempt'[received'[p].id[1]]
        /\ \A i \in seen' : i # NoHeader => i \in Attempts /\ i[2] <= attempt'[i[1]]
    BY <2>2, <2>7 DEF IdsMade
  <2> QED  BY <2>6, <2>8 DEF IdsMade, IdMade
<1>3. ASSUME NEW q \in Publications, Sends(q)
      PROVE  IdsMade'
  <2>1. object[q] \in Objects /\ transport = "rabbitMq" => Message(q).contents = headers[object[q]]
    BY <1>3, MessageFacts
  <2>2. transport = "inMemory" => Message(q).contents.id = NoHeader
    BY DEF Message, EmptyHeaders
  <2>3. IdMade(Message(q).contents.id)
    <3>1. IdMade(NoHeader) /\ object[q] \in Objects
      BY <1>0 DEF IdMade, Types
    <3> QED  BY <1>0, <2>1, <2>2, <3>1 DEF Types, IdsMade
  <2>4. /\ wire' = wire \cup {Message(q)}
        /\ UNCHANGED <<headers, attempt, received, seen>>
    BY <1>3 DEF Sends
  <2> QED  BY <2>3, <2>4 DEF IdsMade, IdMade
<1>4. ASSUME NEW q \in Publications, Fails(q)
      PROVE  IdsMade'
  BY <1>4 DEF Fails, IdsMade, IdMade
<1>5. ASSUME NEW m \in wire, Delivers(m)
      PROVE  IdsMade'
  <2>1. /\ UNCHANGED <<transport, headers, object, attempt>>
        /\ UNCHANGED <<received, seen, processed>> \/ Consumes(m)
    BY <1>5 DEF Delivers
  <2>2. \A n \in wire' : \E o \in wire : n.pub = o.pub /\ n.contents = o.contents
    BY <1>0, <1>5, RedeliverFacts
  <2>3. IdMade(Carried(m).id) /\ IdMade(m.contents.id)
    <3>1. object[m.pub] \in Objects
      BY <1>0 DEF Types, Messages
    <3> QED  BY <3>1 DEF IdsMade, Carried
  <2>4. \A i \in seen' : IdMade(i)
    BY <2>1, <2>3 DEF Consumes, IdsMade
  <2>5. \A p \in Publications : IdMade(received'[p].id)
    BY <1>0, <2>1, <2>3 DEF Consumes, IdsMade, Types
  <2>6. (\A o \in Objects : IdMade(headers[o].id)) /\ \A n \in wire' : IdMade(n.contents.id)
    BY <2>2 DEF IdsMade
  <2> QED  BY <2>1, <2>4, <2>5, <2>6 DEF IdsMade, IdMade
<1> QED  BY <1>0, <1>1, <1>2, <1>3, <1>4, <1>5, StepShape

\* The tries of p whose ids the consumer knows.
TriesSeen(p) == {i \in 1..MaxAttempts : <<p, i>> \in seen}

Counted ==
    \A p \in Publications :
        way[p][1] = "nothing" => processed[p] <= Cardinality(TriesSeen(p))

LEMMA TriesSeenFinite ==
    ASSUME NEW S \in SUBSET (1..MaxAttempts)
    PROVE  IsFiniteSet(S) /\ Cardinality(S) \in Nat
<1>1. IsFiniteSet(1..MaxAttempts)
  BY FS_Interval, PublishingAssumption
<1>2. IsFiniteSet(S)
  BY <1>1, FS_Subset
<1> QED  BY <1>2, FS_CardinalityType

LEMMA CountedInitially == Init => Counted
<1> SUFFICES ASSUME Init, NEW p \in Publications PROVE processed[p] <= Cardinality(TriesSeen(p))
  BY DEF Counted
<1>1. processed[p] = 0
  BY DEF Init
<1>2. Cardinality(TriesSeen(p)) \in Nat
  BY TriesSeenFinite DEF TriesSeen
<1> QED  BY <1>1, <1>2

LEMMA CountedInductive == TypeInv /\ PrivateInv /\ Counted /\ [Next]_vars => Counted'
<1> SUFFICES ASSUME TypeInv, PrivateInv, Counted, [Next]_vars, NEW p \in Publications,
                    way'[p][1] = "nothing"
             PROVE  processed'[p] <= Cardinality(TriesSeen(p)')
  BY DEF Counted
<1>0. Types /\ processed \in [Publications -> Nat]
  BY DEF TypeInv, Types
<1>1. UNCHANGED way /\ (UNCHANGED <<seen, processed>> \/ \E m \in wire : Consumes(m))
  BY <1>0, StepShape DEF vars, Starts, Sends, Fails, Delivers
<1>2. /\ processed[p] <= Cardinality(TriesSeen(p)) /\ processed[p] \in Nat
      /\ IsFiniteSet(TriesSeen(p)) /\ Cardinality(TriesSeen(p)) \in Nat
      /\ IsFiniteSet(TriesSeen(p)') /\ Cardinality(TriesSeen(p)') \in Nat
  BY <1>0, <1>1, TriesSeenFinite DEF Counted, TriesSeen
<1>3. CASE UNCHANGED <<seen, processed>>
  <2>1. TriesSeen(p)' = TriesSeen(p)
    BY <1>3 DEF TriesSeen
  <2> QED  BY <1>2, <1>3, <2>1
<1>4. ASSUME NEW m \in wire, Consumes(m)
      PROVE  processed'[p] <= Cardinality(TriesSeen(p)')
  <2>1. TriesSeen(p) \subseteq TriesSeen(p)'
    BY <1>4 DEF Consumes, TriesSeen
  <2>2. Cardinality(TriesSeen(p)) <= Cardinality(TriesSeen(p)')
    BY <1>2, <2>1, FS_Subset
  <2>3. CASE p # m.pub
    BY <1>0, <1>2, <1>4, <2>2, <2>3 DEF Consumes
  <2>4. CASE p = m.pub
    <3>1. OwnHeaders(p)
      <4>1. \A q \in Publications \ {p} : way[q] # way[p]
        BY <1>0, <1>1, WayFacts
      <4> QED  BY <1>1, <4>1 DEF OwnHeaders
    <3>2. Carried(m).id \in IdsOf(p) /\ Carried(m).id \notin seen
      BY <1>4, <2>4, <3>1, OwnId DEF Consumes
    <3>3. PICK i \in 1..MaxAttempts : Carried(m).id = <<p, i>>
      BY <3>2 DEF IdsOf
    <3>4. <<p, i>> \in seen' /\ <<p, i>> \notin seen
      BY <1>4, <3>2, <3>3, IdsFacts DEF Consumes
    <3>5. i \notin TriesSeen(p) /\ i \in TriesSeen(p)'
      BY <3>4 DEF TriesSeen
    <3>6. Cardinality(TriesSeen(p) \cup {i}) = Cardinality(TriesSeen(p)) + 1
      BY <1>2, <3>5, FS_AddElement
    <3>7. TriesSeen(p) \cup {i} \subseteq TriesSeen(p)'
      BY <2>1, <3>5
    <3>8. Cardinality(TriesSeen(p) \cup {i}) <= Cardinality(TriesSeen(p)')
      BY <1>2, <3>7, FS_Subset
    <3>9. processed'[p] = processed[p] + 1
      BY <1>0, <1>4, <2>4 DEF Consumes
    <3> QED  BY <1>2, <3>6, <3>8, <3>9
  <2> QED  BY <2>3, <2>4
<1> QED  BY <1>1, <1>3, <1>4

\* An event is processed once, however often it is delivered and its caller tries, if
\* the caller tries with the same Headers; and at most once for each try, if it passes
\* none, since each try is given an id of its own (PublishAsync).
THEOREM ProcessedOnceAlways == Spec => []ProcessedOnce
<1>1. TypeInv /\ IdsMade /\ Counted /\ OneIdInv => ProcessedOnce
  <2> SUFFICES ASSUME TypeInv, IdsMade, Counted, OneIdInv, NEW p \in Publications
               PROVE  processed[p] <= IF way[p][1] = "nothing" THEN attempt[p] ELSE 1
    BY DEF ProcessedOnce
  <2>0. Types /\ attempt[p] \in Nat /\ processed[p] \in Nat
    BY DEF TypeInv, Types
  <2>1. CASE way[p][1] = "nothing"
    <3>1. TriesSeen(p) \subseteq 1..attempt[p]
      <4>1. ASSUME NEW i \in TriesSeen(p)
            PROVE  i \in 1..attempt[p]
        <5>1. i \in Nat /\ i >= 1 /\ <<p, i>> \in seen /\ <<p, i>> \in Attempts
          BY <2>0 DEF TriesSeen, Types
        <5>2. i <= attempt[p]
          BY <5>1, PublishingAssumption DEF IdsMade, IdMade
        <5> QED  BY <2>0, <5>1, <5>2
      <4> QED  BY <4>1
    <3>2. IsFiniteSet(1..attempt[p]) /\ Cardinality(1..attempt[p]) = attempt[p]
      <4>1. PICK n \in Nat : n = attempt[p]
        BY <2>0
      <4>2. 1 \in Int /\ n \in Int
        BY <4>1
      <4>3. /\ IsFiniteSet(1..n)
            /\ Cardinality(1..n) = IF 1 > n THEN 0 ELSE n - 1 + 1
        BY <4>2, FS_Interval
      <4>4. (IF 1 > n THEN 0 ELSE n - 1 + 1) = n
        BY <4>1
      <4> QED  BY <4>1, <4>3, <4>4
    <3>3. Cardinality(TriesSeen(p)) <= attempt[p]
      BY <3>1, <3>2, FS_Subset
    <3>4. Cardinality(TriesSeen(p)) \in Nat
      BY TriesSeenFinite DEF TriesSeen
    <3>5. processed[p] <= Cardinality(TriesSeen(p))
      BY <2>1 DEF Counted
    <3> QED  BY <2>0, <2>1, <3>3, <3>4, <3>5
  <2>2. CASE way[p][1] = "caller"
    BY <2>2 DEF OneIdInv, SharedId
  <2>3. CASE way[p][1] = "handler"
    BY <2>3 DEF OneIdInv, HandedOn
  <2> QED  BY <2>0, <2>1, <2>2, <2>3, WayFacts
<1> QED  BY <1>1, TypeInitially, TypeInductive, PrivateInitially, PrivateInductive, IdsMadeInitially,
            IdsMadeInductive, CountedInitially, CountedInductive, OneIdInitially, OneIdInductive,
            PTL DEF Spec

-----------------------------------------------------------------------------
(* The span a consumer's span is a child of *)

\* No other publication uses its object, in this process or from a handler.
Alone(p) == OwnHeaders(p) /\ \A q \in Publications : way[q] # <<"handler", p>>

SpansOf(p) == {NoHeader} \cup {k \in spans : k[1] = p}

\* The object has the span of the last call, and so had each message when it was sent.
Traced(p) ==
    /\ \A q \in Publications \ {p} : object[q] # Home(p)
    /\ stage[p] \in {"publishing", "sent"} /\ <<p, attempt[p]>> \in spans =>
          headers[Home(p)].trace = <<p, attempt[p]>>
    /\ headers[Home(p)].trace \in SpansOf(p)
    /\ \A m \in wire : m.pub = p /\ transport = "rabbitMq" =>
          /\ <<p, m.attempt>> \in spans => m.contents.trace = <<p, m.attempt>>
          /\ m.contents.trace \in SpansOf(p)

SpansMade == \A k \in spans : k[2] <= attempt[k[1]]

TraceInv == SpansMade /\ \A p \in Publications : Alone(p) => Traced(p)

LEMMA TraceInitially == Init => TraceInv
<1> SUFFICES ASSUME Init PROVE TraceInv
  OBVIOUS
<1>1. ASSUME NEW p \in Publications, Alone(p)
      PROVE  Traced(p)
  <2>1. Types
    BY TypeInitially DEF TypeInv
  <2>2. Home(p) \in Objects /\ \A q \in Publications \ {p} : <<"new", q>> # Home(p)
    BY <1>1, <2>1, HomeFacts DEF Alone, OwnHeaders
  <2> QED  BY <2>2 DEF Init, Traced, SpansOf, EmptyHeaders
<1> QED  BY <1>1 DEF Init, TraceInv, SpansMade

LEMMA TraceInductive == TypeInv /\ HomeInv /\ TraceInv /\ [Next]_vars => TraceInv'
<1> SUFFICES ASSUME TypeInv, HomeInv, TraceInv, [Next]_vars PROVE TraceInv'
  OBVIOUS
<1>0. Types /\ Stages /\ SpansMade
  BY DEF TypeInv, TraceInv
<1>1. UNCHANGED <<transport, way>> /\ transport \in {"inMemory", "rabbitMq"}
  BY <1>0, StepShape DEF vars, Starts, Sends, Fails, Delivers, Types
<1>2. \A p \in Publications : (Alone(p)' <=> Alone(p)) /\ Home(p)' = Home(p)
  BY <1>1 DEF Alone, OwnHeaders, Home
<1>3. CASE UNCHANGED vars
  BY <1>2, <1>3 DEF vars, TraceInv, SpansMade, Traced, SpansOf
<1>4. ASSUME NEW q \in Publications, NEW traced \in BOOLEAN, NEW contents, Starts(q, contents, traced)
      PROVE  TraceInv'
  <2>1. /\ <<q, attempt[q] + 1>> \in Attempts /\ attempt[q] \in Nat
        /\ attempt'[q] = attempt[q] + 1
        /\ object'[q] = ObjectPassed(q)
        /\ \A r \in Publications : r # q => /\ attempt'[r] = attempt[r] /\ object'[r] = object[r]
                                            /\ stage'[r] = stage[r]
        /\ \A o \in Objects : headers'[o] = IF o = ObjectPassed(q) THEN contents ELSE headers[o]
    BY <1>0, <1>4, StartsFacts
  <2>2. /\ UNCHANGED wire
        /\ spans' = IF traced THEN spans \cup {<<q, attempt[q] + 1>>} ELSE spans
        /\ contents.trace = IF traced THEN <<q, attempt[q] + 1>> ELSE ContentsPassed(q).trace
    BY <1>4 DEF Starts
  <2>3. SpansMade'
    <3>1. ASSUME NEW k \in spans
          PROVE  k[2] <= attempt'[k[1]]
      <4>1. k[1] \in Publications /\ k[2] \in Nat /\ k[2] <= attempt[k[1]] /\ attempt[k[1]] \in Nat
        BY <1>0 DEF Types, Attempts, SpansMade
      <4> QED  BY <2>1, <4>1
    <3>2. PICK k : k = <<q, attempt[q] + 1>>
      OBVIOUS
    <3>3. k[2] <= attempt'[k[1]]
      BY <2>1, <3>2
    <3> QED  BY <2>2, <3>1, <3>2, <3>3 DEF SpansMade
  <2>4. <<q, attempt[q] + 1>> \notin spans
    <3>1. PICK k : k = <<q, attempt[q] + 1>>
      OBVIOUS
    <3> QED  BY <1>0, <2>1, <3>1 DEF SpansMade
  <2>5. ASSUME NEW p \in Publications, Alone(p)
        PROVE  Traced(p)'
    <3>1. /\ Traced(p) /\ Home(p) \in Objects /\ ObjectPassed(p) = Home(p) /\ way[p][1] # "handler"
          /\ ContentsPassed(p) = EmptyHeaders \/ ContentsPassed(p) = headers[Home(p)]
          /\ (way[p] = <<"nothing", p>> /\ Home(p) = <<"new", p>>)
                 \/ (way[p][1] = "caller" /\ Home(p) = way[p])
      BY <1>0, <2>5, HomeFacts DEF Alone, OwnHeaders, TraceInv
    <3>2. SpansOf(p) \subseteq SpansOf(p)'
      BY <2>2 DEF SpansOf
    <3>3. \A m \in wire : m.pub = p => (<<p, m.attempt>> \in spans' <=> <<p, m.attempt>> \in spans)
      <4>1. ASSUME NEW m \in wire, m.pub = p
            PROVE  <<p, m.attempt>> # <<q, attempt[q] + 1>>
        <5>1. m.attempt <= attempt[p] /\ m.attempt \in Nat
          BY <1>0, <4>1 DEF Stages, Types, Messages
        <5> QED  BY <2>1, <5>1
      <4> QED  BY <2>2, <4>1
    <3>4. \A m \in wire : m.pub = p /\ transport = "rabbitMq" =>
             /\ <<p, m.attempt>> \in spans' => m.contents.trace = <<p, m.attempt>>
             /\ m.contents.trace \in SpansOf(p)'
      BY <3>1, <3>2, <3>3 DEF Traced
    <3>5. CASE q = p
      <4>1. \A r \in Publications \ {p} : object'[r] # Home(p)
        BY <2>1, <3>1, <3>5 DEF Traced
      <4>2. headers'[Home(p)] = contents
        BY <2>1, <3>1, <3>5
      <4>3. <<p, attempt'[p]>> \in spans' => contents.trace = <<p, attempt'[p]>>
        BY <2>1, <2>2, <2>4, <3>5
      <4>4. contents.trace \in SpansOf(p)'
        <5>1. CASE traced
          <6>1. PICK k : k = <<q, attempt[q] + 1>>
            OBVIOUS
          <6> QED  BY <2>2, <3>5, <5>1, <6>1 DEF SpansOf
        <5>2. CASE ~traced
          BY <2>2, <3>1, <3>2, <3>5, <5>2 DEF Traced, EmptyHeaders, SpansOf
        <5> QED  BY <5>1, <5>2
      <4> QED  BY <1>1, <1>2, <2>2, <3>4, <4>1, <4>2, <4>3, <4>4 DEF Traced
    <3>6. CASE q # p
      <4>1. ObjectPassed(q) # Home(p)
        <5>1. way[q] # way[p] /\ way[q] # <<"handler", p>>
          BY <2>5, <3>6 DEF Alone, OwnHeaders
        <5>2. CASE way[q][1] = "nothing"
          BY <1>0, <3>1, <3>6, <5>2, PassedFacts
        <5>3. CASE way[q][1] = "caller"
          BY <1>0, <3>1, <5>1, <5>3, PassedFacts
        <5>4. CASE way[q][1] = "handler" /\ way[q][2] \in Publications /\ way[q] = <<"handler", way[q][2]>>
          <6>1. way[q][2] # p
            BY <5>1, <5>4
          <6>2. CASE transport = "inMemory"
            BY <1>0, <3>1, <5>4, <6>1, <6>2, PassedFacts DEF Traced
          <6>3. CASE transport = "rabbitMq"
            BY <1>0, <3>1, <3>6, <5>4, <6>3, PassedFacts
          <6> QED  BY <1>1, <6>2, <6>3
        <5> QED  BY <1>0, <5>2, <5>3, <5>4, WayFacts
      <4>2. /\ \A r \in Publications \ {p} : object'[r] # Home(p)
            /\ headers'[Home(p)] = headers[Home(p)]
        BY <2>1, <3>1, <3>6, <4>1 DEF Traced
      <4>3. <<p, attempt'[p]>> \in spans' <=> <<p, attempt[p]>> \in spans
        BY <2>1, <2>2, <3>6
      <4>4. attempt'[p] = attempt[p] /\ stage'[p] = stage[p]
        BY <2>1, <3>6
      <4> QED  BY <1>1, <1>2, <2>2, <3>1, <3>2, <3>4, <4>2, <4>3, <4>4 DEF Traced
    <3> QED  BY <3>5, <3>6
  <2> QED  BY <1>2, <2>3, <2>5 DEF TraceInv
<1>5. ASSUME NEW q \in Publications, Sends(q)
      PROVE  TraceInv'
  <2>1. /\ Message(q).pub = q /\ Message(q).attempt = attempt[q] /\ attempt[q] > 0
        /\ transport = "rabbitMq" => Message(q).contents = headers[object[q]]
    BY <1>5, MessageFacts
  <2>2. /\ wire' = wire \cup {Message(q)} /\ stage[q] = "publishing"
        /\ stage' = [stage EXCEPT ![q] = "sent"] \/ stage' = [stage EXCEPT ![q] = "threw"]
        /\ UNCHANGED <<headers, object, attempt, spans>>
    BY <1>5 DEF Sends
  <2>3. SpansMade'
    BY <1>0, <2>2 DEF SpansMade
  <2>4. ASSUME NEW p \in Publications, Alone(p)
        PROVE  Traced(p)'
    <3>1. Traced(p)
      BY <2>4 DEF TraceInv
    <3>2. stage'[p] \in {"publishing", "sent"} => stage[p] \in {"publishing", "sent"}
      BY <1>0, <2>2 DEF Types
    <3>3. SpansOf(p)' = SpansOf(p)
      BY <2>2 DEF SpansOf
    <3>4. q = p /\ transport = "rabbitMq" => Message(q).contents = headers[Home(p)]
      BY <2>1, <2>4 DEF HomeInv, Alone, OwnHeaders
    <3>5. \A m \in wire' : m.pub = p /\ transport = "rabbitMq" =>
             /\ <<p, m.attempt>> \in spans => m.contents.trace = <<p, m.attempt>>
             /\ m.contents.trace \in SpansOf(p)
      BY <2>1, <2>2, <3>1, <3>4 DEF Traced
    <3> QED  BY <1>1, <1>2, <2>2, <3>1, <3>2, <3>3, <3>5 DEF Traced
  <2> QED  BY <1>2, <2>3, <2>4 DEF TraceInv
<1>6. ASSUME NEW q \in Publications, Fails(q)
      PROVE  TraceInv'
  <2>1. /\ stage' = [stage EXCEPT ![q] = "threw"]
        /\ UNCHANGED <<headers, object, attempt, spans, wire>>
    BY <1>6 DEF Fails
  <2>2. ASSUME NEW p \in Publications, Alone(p)
        PROVE  Traced(p)'
    <3>1. Traced(p) /\ SpansOf(p)' = SpansOf(p)
      BY <2>1, <2>2 DEF TraceInv, SpansOf
    <3>2. stage'[p] \in {"publishing", "sent"} => stage[p] \in {"publishing", "sent"}
      BY <1>0, <2>1 DEF Types
    <3> QED  BY <1>1, <1>2, <2>1, <3>1, <3>2 DEF Traced
  <2> QED  BY <1>0, <1>2, <2>1, <2>2 DEF TraceInv, SpansMade
<1>7. ASSUME NEW m \in wire, Delivers(m)
      PROVE  TraceInv'
  <2>1. UNCHANGED <<headers, object, attempt, stage, spans>>
    BY <1>7 DEF Delivers
  <2>2. \A n \in wire' : \E o \in wire : n.pub = o.pub /\ n.attempt = o.attempt /\ n.contents = o.contents
    BY <1>0, <1>7, RedeliverFacts
  <2>3. ASSUME NEW p \in Publications, Alone(p)
        PROVE  Traced(p)'
    <3>1. Traced(p) /\ SpansOf(p)' = SpansOf(p)
      BY <2>1, <2>3 DEF TraceInv, SpansOf
    <3>2. \A n \in wire' : n.pub = p /\ transport = "rabbitMq" =>
             /\ <<p, n.attempt>> \in spans => n.contents.trace = <<p, n.attempt>>
             /\ n.contents.trace \in SpansOf(p)
      BY <2>2, <3>1 DEF Traced
    <3> QED  BY <1>1, <1>2, <2>1, <3>1, <3>2 DEF Traced
  <2> QED  BY <1>0, <1>2, <2>1, <2>3 DEF TraceInv, SpansMade
<1> QED  BY <1>0, <1>3, <1>4, <1>5, <1>6, <1>7, StepShape

\* The consumer's span is a child of the span of the call that sent the message, and of
\* no other event's if that call had none (StartPublish overwrites the trace context,
\* StartConsume reads it), for events whose Headers nobody else publishes with.
THEOREM TraceFollowsPublishAlways == Spec => []TraceFollowsPublish
<1>1. TypeInv /\ HomeInv /\ TraceInv => TraceFollowsPublish
  <2> SUFFICES ASSUME TypeInv, HomeInv, TraceInv, NEW m \in wire, Alone(m.pub)
               PROVE  /\ <<m.pub, m.attempt>> \in spans => Parent(m) = <<m.pub, m.attempt>>
                      /\ Parent(m) \in {NoHeader} \cup {k \in spans : k[1] = m.pub}
    BY DEF TraceFollowsPublish, Alone
  <2>1. /\ m.pub \in Publications /\ attempt[m.pub] > 0
        /\ transport \in {"inMemory", "rabbitMq"}
        /\ transport = "inMemory" => stage[m.pub] = "sent" /\ m.attempt = attempt[m.pub]
    BY DEF TypeInv, Types, Stages, Messages
  <2>2. Traced(m.pub) /\ object[m.pub] = Home(m.pub)
    BY <2>1 DEF TraceInv, HomeInv, Alone, OwnHeaders
  <2>3. CASE transport = "inMemory"
    BY <2>1, <2>2, <2>3 DEF Traced, Parent, Carried, SpansOf
  <2>4. CASE transport = "rabbitMq"
    <3>1. Carried(m) = m.contents
      BY <2>4 DEF Carried
    <3> QED  BY <2>2, <2>4, <3>1 DEF Traced, Parent, SpansOf
  <2> QED  BY <2>1, <2>3, <2>4
<1>2. OneIdInv => HomeInv
  BY DEF OneIdInv
<1> QED  BY <1>1, <1>2, TypeInitially, TypeInductive, OneIdInitially, OneIdInductive, TraceInitially,
            TraceInductive, PTL DEF Spec
=============================================================================
