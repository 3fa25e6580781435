------------------------- MODULE InMemoryBusProofs -------------------------
(***************************************************************************)
(* Theorems about the in-memory transport, for any set of events, any      *)
(* capacity, alert threshold and retry limit, and any sharing of Headers.  *)
(***************************************************************************)
EXTENDS InMemoryBus, SequenceTheorems, TLAPS

-----------------------------------------------------------------------------
(* Sequences *)

\* The elements of a sequence.
Elems(s) == {s[k] : k \in DOMAIN s}

\* Appending a new element keeps a sequence free of repetitions.
LEMMA AppendedElems ==
    ASSUME NEW S, NEW s \in Seq(S), NEW x \in S, IsInjective(s), x \notin Elems(s)
    PROVE  /\ Append(s, x) \in Seq(S)
           /\ IsInjective(Append(s, x))
           /\ Elems(Append(s, x)) = Elems(s) \cup {x}
<1> DEFINE a == Append(s, x)
<1>1. /\ a \in Seq(S)
      /\ DOMAIN a = 1 .. Len(s) + 1
      /\ \A k \in 1 .. Len(s) : a[k] = s[k]
      /\ a[Len(s) + 1] = x
      /\ Len(s) \in Nat
      /\ DOMAIN s = 1 .. Len(s)
  OBVIOUS
<1> HIDE DEF a
<1>2. IsInjective(a)
  BY <1>1 DEF IsInjective, Elems
<1>3. Elems(a) = Elems(s) \cup {x}
  BY <1>1 DEF Elems
<1>4. a = Append(s, x)
  BY DEF a
<1> QED  BY <1>1, <1>2, <1>3, <1>4, Zenon

\* Without its head, a sequence free of repetitions lacks just that element.
LEMMA TailInjective ==
    ASSUME NEW S, NEW s \in Seq(S), IsInjective(s), s # <<>>
    PROVE  /\ Tail(s) \in Seq(S)
           /\ IsInjective(Tail(s))
           /\ Head(s) \in Elems(s)
           /\ Elems(Tail(s)) = Elems(s) \ {Head(s)}
<1>1. /\ Tail(s) \in Seq(S)
      /\ DOMAIN Tail(s) = 1 .. Len(s) - 1
      /\ \A k \in 1 .. Len(s) - 1 : Tail(s)[k] = s[k + 1]
      /\ Head(s) = s[1]
      /\ Len(s) \in Nat \ {0}
      /\ DOMAIN s = 1 .. Len(s)
  OBVIOUS
<1>2. IsInjective(Tail(s))
  BY <1>1 DEF IsInjective
<1>3. Head(s) \in Elems(s)
  BY <1>1 DEF Elems
<1>4. Elems(Tail(s)) = Elems(s) \ {Head(s)}
  <2>1. ASSUME NEW y \in Elems(Tail(s))
        PROVE  y \in Elems(s) \ {Head(s)}
    <3>1. PICK k \in 1 .. Len(s) - 1 : y = s[k + 1]
      BY <1>1 DEF Elems
    <3>2. k + 1 \in DOMAIN s /\ 1 \in DOMAIN s /\ k + 1 # 1
      BY <1>1
    <3> QED  BY <1>1, <3>1, <3>2 DEF Elems, IsInjective
  <2>2. ASSUME NEW y \in Elems(s) \ {Head(s)}
        PROVE  y \in Elems(Tail(s))
    <3>1. PICK k \in 1 .. Len(s) : y = s[k]
      BY <1>1 DEF Elems
    <3>2. k - 1 \in 1 .. Len(s) - 1 /\ Tail(s)[k - 1] = s[k]
      BY <1>1, <3>1
    <3> QED  BY <1>1, <3>1, <3>2 DEF Elems
  <2> QED  BY <2>1, <2>2
<1> QED  BY <1>1, <1>2, <1>3, <1>4

\* RemoveAt in terms of indices.
LEMMA RemoveAtFacts ==
    ASSUME NEW S, NEW s \in Seq(S), NEW k \in DOMAIN s
    PROVE  /\ RemoveAt(s, k) \in Seq(S)
           /\ DOMAIN RemoveAt(s, k) = 1 .. Len(s) - 1
           /\ Len(RemoveAt(s, k)) = Len(s) - 1
           /\ \A j \in 1 .. Len(s) - 1 :
                 RemoveAt(s, k)[j] = IF j < k THEN s[j] ELSE s[j + 1]
<1> DEFINE a == SubSeq(s, 1, k - 1)
           b == SubSeq(s, k + 1, Len(s))
<1>1. /\ Len(s) \in Nat
      /\ DOMAIN s = 1 .. Len(s)
      /\ k \in 1 .. Len(s)
  OBVIOUS
<1>2. /\ a \in Seq(S)
      /\ Len(a) = k - 1
      /\ \A j \in 1 .. k - 1 : a[j] = s[j]
  BY <1>1
<1>3. /\ b \in Seq(S)
      /\ Len(b) = Len(s) - k
      /\ \A j \in 1 .. Len(s) - k : b[j] = s[k + j]
  BY <1>1
<1> DEFINE c == a \o b
<1>4. /\ c \in Seq(S)
      /\ Len(c) = Len(a) + Len(b)
      /\ \A j \in 1 .. Len(a) + Len(b) :
            c[j] = IF j <= Len(a) THEN a[j] ELSE b[j - Len(a)]
  <2> HIDE DEF a, b
  <2> QED  BY <1>2, <1>3, ConcatProperties, Zenon
<1> HIDE DEF a, b, c
<1>5. DOMAIN c = 1 .. Len(s) - 1 /\ Len(c) = Len(s) - 1
  BY <1>1, <1>2, <1>3, <1>4
<1>6. ASSUME NEW j \in 1 .. Len(s) - 1
      PROVE  c[j] = IF j < k THEN s[j] ELSE s[j + 1]
  <2>1. CASE j < k
    BY <1>1, <1>2, <1>3, <1>4, <2>1
  <2>2. CASE ~(j < k)
    <3>1. j - (k - 1) \in 1 .. Len(s) - k /\ k + (j - (k - 1)) = j + 1
      BY <1>1, <2>2
    <3>2. c[j] = b[j - (k - 1)]
      BY <1>1, <1>2, <1>3, <1>4, <2>2
    <3> QED  BY <1>3, <2>2, <3>1, <3>2
  <2> QED  BY <2>1, <2>2
<1>7. RemoveAt(s, k) = c
  BY DEF RemoveAt, a, b, c
<1> QED  BY <1>4, <1>5, <1>6, <1>7

\* Removing one position of a sequence free of repetitions removes that element.
LEMMA RemoveAtInjective ==
    ASSUME NEW S, NEW s \in Seq(S), IsInjective(s), NEW k \in DOMAIN s
    PROVE  /\ RemoveAt(s, k) \in Seq(S)
           /\ IsInjective(RemoveAt(s, k))
           /\ Elems(RemoveAt(s, k)) = Elems(s) \ {s[k]}
<1> DEFINE r == RemoveAt(s, k)
<1>1. /\ Len(s) \in Nat
      /\ DOMAIN s = 1 .. Len(s)
      /\ k \in 1 .. Len(s)
      /\ r \in Seq(S)
      /\ DOMAIN r = 1 .. Len(s) - 1
      /\ \A j \in 1 .. Len(s) - 1 : r[j] = IF j < k THEN s[j] ELSE s[j + 1]
  BY RemoveAtFacts
<1> HIDE DEF r
<1>2. IsInjective(r)
  <2>1. SUFFICES ASSUME NEW i \in 1 .. Len(s) - 1, NEW j \in 1 .. Len(s) - 1,
                        r[i] = r[j]
                 PROVE  i = j
    BY <1>1 DEF IsInjective
  <2> DEFINE at(p) == IF p < k THEN p ELSE p + 1
  <2>2. at(i) \in DOMAIN s /\ at(j) \in DOMAIN s /\ s[at(i)] = s[at(j)]
    BY <1>1, <2>1
  <2>3. at(i) = at(j)
    BY <2>2 DEF IsInjective
  <2> QED  BY <1>1, <2>3
<1>3. Elems(r) = Elems(s) \ {s[k]}
  <2>1. ASSUME NEW y \in Elems(r)
        PROVE  y \in Elems(s) \ {s[k]}
    <3>1. PICK j \in 1 .. Len(s) - 1 : y = r[j]
      BY <1>1 DEF Elems
    <3>2. PICK i \in DOMAIN s : y = s[i] /\ i # k
      BY <1>1, <3>1
    <3> QED  BY <1>1, <3>2 DEF Elems, IsInjective
  <2>2. ASSUME NEW y \in Elems(s) \ {s[k]}
        PROVE  y \in Elems(r)
    <3>1. PICK i \in 1 .. Len(s) : y = s[i] /\ i # k
      BY <1>1 DEF Elems
    <3>2. PICK j \in 1 .. Len(s) - 1 : y = r[j]
      <4>1. CASE i < k
        BY <1>1, <3>1, <4>1
      <4>2. CASE ~(i < k)
        <5>1. i - 1 \in 1 .. Len(s) - 1 /\ ~(i - 1 < k) /\ (i - 1) + 1 = i
          BY <1>1, <3>1, <4>2
        <5> QED  BY <1>1, <3>1, <5>1
      <4> QED  BY <4>1, <4>2
    <3> QED  BY <1>1, <3>2 DEF Elems
  <2> QED  BY <2>1, <2>2
<1> QED  BY <1>1, <1>2, <1>3 DEF r

-----------------------------------------------------------------------------
(* The line of items *)

\* The waiting writers all carry an event.
LEMMA BlockedCarryEvents ==
    QueueInv => \A k \in DOMAIN blockedWriters :
                   /\ blockedWriters[k] \in Callers
                   /\ call[blockedWriters[k]] = "blocked"
                   /\ payload[blockedWriters[k]] \in Events
<1> SUFFICES ASSUME QueueInv, NEW k \in DOMAIN blockedWriters
             PROVE  /\ blockedWriters[k] \in Callers
                    /\ call[blockedWriters[k]] = "blocked"
                    /\ payload[blockedWriters[k]] \in Events
  OBVIOUS
<1>1. blockedWriters[k] \in Callers
  BY DEF QueueInv, QueueTypeOK
<1> QED  BY <1>1 DEF QueueInv, WaitingMeansFull, CallsCarryEvents

\* The line of the queue, position by position.
BacklogByPosition ==
    /\ Backlog \in Seq(Events)
    /\ Len(Backlog) = Len(channel) + Len(blockedWriters)
    /\ DOMAIN Backlog = 1 .. Len(channel) + Len(blockedWriters)
    /\ \A k \in 1 .. Len(channel) + Len(blockedWriters) :
          Backlog[k] = IF k <= Len(channel) THEN channel[k]
                       ELSE payload[blockedWriters[k - Len(channel)]]

\* The line, position by position: the channel first, then what the writers carry.
LEMMA BacklogFacts == QueueInv => BacklogByPosition
<1> SUFFICES ASSUME QueueInv PROVE BacklogByPosition
  OBVIOUS
<1> DEFINE w == Carried(blockedWriters, payload)
<1>1. /\ channel \in Seq(Events)
      /\ blockedWriters \in Seq(Callers)
      /\ DOMAIN blockedWriters = 1 .. Len(blockedWriters)
      /\ Len(blockedWriters) \in Nat
      /\ Len(channel) \in Nat
      /\ DOMAIN channel = 1 .. Len(channel)
  BY DEF QueueInv, QueueTypeOK
<1>2. /\ w \in [1 .. Len(blockedWriters) -> Events]
      /\ \A k \in 1 .. Len(blockedWriters) : w[k] = payload[blockedWriters[k]]
  BY <1>1, BlockedCarryEvents DEF Carried
<1> HIDE DEF w
<1>3. w \in Seq(Events) /\ Len(w) = Len(blockedWriters)
  <2>1. w \in Seq(Events)
    BY <1>1, <1>2, SeqDef
  <2> QED  BY <1>1, <1>2, <2>1, LenProperties
<1>4. /\ Backlog \in Seq(Events)
      /\ Len(Backlog) = Len(channel) + Len(w)
      /\ \A k \in 1 .. Len(channel) + Len(w) :
            Backlog[k] = IF k <= Len(channel) THEN channel[k] ELSE w[k - Len(channel)]
  <2>1. Backlog = channel \o w
    BY DEF Backlog, w
  <2> QED  BY <1>1, <1>3, <2>1, ConcatProperties, Zenon
<1>5. DOMAIN Backlog = 1 .. Len(channel) + Len(w)
  BY <1>4, LenProperties
<1>6. \A k \in 1 .. Len(channel) + Len(w) :
         ~(k <= Len(channel)) => w[k - Len(channel)] = payload[blockedWriters[k - Len(channel)]]
  BY <1>1, <1>2, <1>3
<1> QED  BY <1>3, <1>4, <1>5, <1>6 DEF BacklogByPosition

-----------------------------------------------------------------------------
(* The operations of the queue *)

\* Initially the line is empty.
LEMMA QueueInitially == QueueInit => QueueInv /\ Backlog = <<>>
<1> SUFFICES ASSUME QueueInit PROVE QueueInv /\ Backlog = <<>>
  OBVIOUS
<1>1. QueueTypeOK /\ CallsCarryEvents
  BY QueueAssumption DEF QueueInit, QueueTypeOK, CallStates, CallsCarryEvents
<1>2. WaitingMeansFull
  BY QueueAssumption DEF QueueInit, WaitingMeansFull, IsInjective
<1>3. Len(Backlog) = 0 /\ Backlog \in Seq(Events)
  BY <1>1, <1>2, BacklogFacts DEF QueueInit, QueueInv, BacklogByPosition
<1> QED  BY <1>1, <1>2, <1>3, EmptySeq DEF QueueInv

\* An operation that leaves the channel, the waiting writers and what they carry
\* alone leaves the line alone, and the line's shape with it.
LEMMA LineUndisturbed ==
    ASSUME QueueInv, UNCHANGED <<channel, blockedWriters>>,
           \A k \in DOMAIN blockedWriters :
              payload'[blockedWriters[k]] = payload[blockedWriters[k]]
    PROVE  Backlog' = Backlog
<1>1. Carried(blockedWriters, payload) = Carried(blockedWriters, payload)'
  BY DEF Carried
<1> QED  BY <1>1 DEF Backlog

\* Beginning an EnqueueAsync changes nothing in the line.
LEMMA BeginEnqueueStep ==
    ASSUME QueueInv, NEW c \in Callers, NEW e \in Events, BeginEnqueue(c, e)
    PROVE  QueueInv' /\ Backlog' = Backlog
<1> USE DEF BeginEnqueue
<1>1. QueueTypeOK'
  BY DEF QueueInv, QueueTypeOK, CallStates, Active
<1>2. CallsCarryEvents'
  BY DEF QueueInv, QueueTypeOK, CallsCarryEvents
<1>3. WaitingMeansFull'
  BY DEF QueueInv, QueueTypeOK, WaitingMeansFull
<1>4. Backlog' = Backlog
  <2>1. \A k \in DOMAIN blockedWriters : blockedWriters[k] # c
    BY BlockedCarryEvents
  <2>2. \A k \in DOMAIN blockedWriters :
           payload'[blockedWriters[k]] = payload[blockedWriters[k]]
    BY <2>1, BlockedCarryEvents DEF QueueInv, QueueTypeOK
  <2> QED  BY <2>2, LineUndisturbed
<1> QED  BY <1>1, <1>2, <1>3, <1>4 DEF QueueInv

\* Nor does the end of OnAlert, of either kind.
LEMMA AlertStep ==
    ASSUME QueueInv, NEW c \in Callers, AlertReturns(c) \/ AlertThrows(c)
    PROVE  QueueInv' /\ Backlog' = Backlog
<1> USE DEF AlertReturns, AlertThrows
<1>1. QueueTypeOK'
  BY DEF QueueInv, QueueTypeOK, CallStates, Active
<1>2. CallsCarryEvents'
  BY DEF QueueInv, QueueTypeOK, CallsCarryEvents
<1>3. WaitingMeansFull'
  BY DEF QueueInv, QueueTypeOK, WaitingMeansFull
<1>4. Backlog' = Backlog
  BY LineUndisturbed
<1> QED  BY <1>1, <1>2, <1>3, <1>4 DEF QueueInv

\* Nor does the return of EnqueueAsync to its caller.
LEMMA EndEnqueueStep ==
    ASSUME QueueInv, NEW c \in Callers, EndEnqueue(c)
    PROVE  QueueInv' /\ Backlog' = Backlog
<1> USE DEF EndEnqueue
<1>1. QueueTypeOK'
  BY DEF QueueInv, QueueTypeOK, CallStates, Active
<1>2. CallsCarryEvents'
  BY DEF QueueInv, QueueTypeOK, CallsCarryEvents
<1>3. WaitingMeansFull'
  BY DEF QueueInv, QueueTypeOK, WaitingMeansFull
<1>4. Backlog' = Backlog
  <2>1. \A k \in DOMAIN blockedWriters : blockedWriters[k] # c
    BY BlockedCarryEvents
  <2>2. \A k \in DOMAIN blockedWriters :
           payload'[blockedWriters[k]] = payload[blockedWriters[k]]
    BY <2>1, BlockedCarryEvents DEF QueueInv, QueueTypeOK
  <2> QED  BY <2>2, LineUndisturbed
<1> QED  BY <1>1, <1>2, <1>3, <1>4 DEF QueueInv

\* Nor does the decrement after a read.
LEMMA CountDownStep ==
    ASSUME QueueInv, CountDown
    PROVE  QueueInv' /\ Backlog' = Backlog
<1> USE DEF CountDown
<1>1. QueueInv'
  BY DEF QueueInv, QueueTypeOK, CallsCarryEvents, WaitingMeansFull
<1>2. Backlog' = Backlog
  BY LineUndisturbed
<1> QED  BY <1>1, <1>2

\* With no writer waiting the line is the channel.
ChannelIsLine == blockedWriters = <<>> => Backlog = channel

\* Carried of no writers is empty, so nothing stands behind the channel.
LEMMA NobodyWaits == QueueInv => ChannelIsLine
<1> SUFFICES ASSUME QueueInv, blockedWriters = <<>> PROVE Backlog = channel
  BY DEF ChannelIsLine
<1>1. channel \in Seq(Events) /\ Len(blockedWriters) = 0 /\ Len(channel) \in Nat
  BY DEF QueueInv, QueueTypeOK
<1>2. /\ Backlog \in Seq(Events)
      /\ Len(Backlog) = Len(channel)
      /\ \A k \in 1 .. Len(channel) : Backlog[k] = channel[k]
  BY <1>1, BacklogFacts DEF BacklogByPosition
<1> HIDE DEF Backlog
<1> QED  BY <1>1, <1>2, SeqEqual

\* A write into a free slot joins the line at its end: no one waits before it.
LEMMA WriteCompletesStep ==
    ASSUME QueueInv, NEW c \in Callers, WriteCompletes(c)
    PROVE  /\ QueueInv'
           /\ payload[c] \in Events
           /\ Backlog' = Append(Backlog, payload[c])
<1> USE DEF WriteCompletes
<1>1. payload[c] \in Events
  BY DEF QueueInv, CallsCarryEvents
<1>2. blockedWriters = <<>> /\ Len(channel) \in Nat
  BY QueueAssumption DEF QueueInv, QueueTypeOK, WaitingMeansFull, HasRoom
<1>3. QueueTypeOK'
  BY <1>1 DEF QueueInv, QueueTypeOK, CallStates, Active
<1>4. CallsCarryEvents'
  BY DEF QueueInv, QueueTypeOK, CallsCarryEvents
<1>5. WaitingMeansFull'
  <2>1. Len(channel') = Len(channel) + 1
    BY <1>1 DEF QueueInv, QueueTypeOK
  <2>2. Len(channel') <= Capacity
    BY <1>2, <2>1, QueueAssumption DEF HasRoom
  <2> QED  BY <1>2, <2>2 DEF QueueInv, QueueTypeOK, WaitingMeansFull
<1>6. QueueInv'
  BY <1>3, <1>4, <1>5 DEF QueueInv
<1>7. Backlog = channel
  BY <1>2, NobodyWaits DEF ChannelIsLine
<1>8. Backlog' = channel'
  <2>1. ChannelIsLine'
    BY <1>6, NobodyWaits, PTL
  <2> QED  BY <1>2, <2>1 DEF ChannelIsLine
<1> QED  BY <1>1, <1>6, <1>7, <1>8

\* A write that finds the channel full joins the line at its end as well.
LEMMA WriteBlocksStep ==
    ASSUME QueueInv, NEW c \in Callers, WriteBlocks(c)
    PROVE  /\ QueueInv'
           /\ payload[c] \in Events
           /\ Backlog' = Append(Backlog, payload[c])
<1> USE DEF WriteBlocks
<1>1. payload[c] \in Events
  BY DEF QueueInv, CallsCarryEvents
<1>2. /\ channel \in Seq(Events) /\ Len(channel) \in Nat
      /\ blockedWriters \in Seq(Callers) /\ Len(blockedWriters) \in Nat
      /\ Len(channel) = Capacity
      /\ c \notin Elems(blockedWriters)
  <2>1. channel \in Seq(Events) /\ blockedWriters \in Seq(Callers)
    BY DEF QueueInv, QueueTypeOK
  <2>2. Len(channel) = Capacity
    BY <2>1, QueueAssumption DEF QueueInv, WaitingMeansFull, HasRoom
  <2>3. c \notin Elems(blockedWriters)
    BY DEF QueueInv, WaitingMeansFull, Elems
  <2> QED  BY <2>1, <2>2, <2>3
<1>3. /\ blockedWriters' \in Seq(Callers)
      /\ IsInjective(blockedWriters')
      /\ Elems(blockedWriters') = Elems(blockedWriters) \cup {c}
  BY <1>2, AppendedElems DEF QueueInv, WaitingMeansFull
<1>4. QueueTypeOK'
  BY <1>3 DEF QueueInv, QueueTypeOK, CallStates, Active
<1>5. CallsCarryEvents'
  BY DEF QueueInv, QueueTypeOK, CallsCarryEvents
<1>6. WaitingMeansFull'
  <2>1. \A d \in Callers : call'[d] = "blocked" <=> d \in Elems(blockedWriters')
    BY <1>3 DEF QueueInv, QueueTypeOK, WaitingMeansFull, Elems
  <2> QED  BY <1>2, <1>3, <2>1 DEF WaitingMeansFull, Elems
<1>7. QueueInv'
  BY <1>4, <1>5, <1>6 DEF QueueInv
<1>8. Backlog' = Append(Backlog, payload[c])
  <2> DEFINE n == Len(channel) + Len(blockedWriters)
             a == Append(Backlog, payload[c])
  <2>1. /\ Backlog \in Seq(Events) /\ Len(Backlog) = n
        /\ \A k \in 1 .. n : Backlog[k] = IF k <= Len(channel) THEN channel[k]
                                ELSE payload[blockedWriters[k - Len(channel)]]
    BY BacklogFacts DEF BacklogByPosition
  <2>2. /\ a \in Seq(Events) /\ Len(a) = n + 1
        /\ \A k \in 1 .. n : a[k] = Backlog[k]
        /\ a[n + 1] = payload[c]
    BY <1>1, <2>1
  <2>3. /\ Backlog' \in Seq(Events) /\ Len(Backlog') = Len(channel') + Len(blockedWriters')
        /\ \A k \in 1 .. Len(channel') + Len(blockedWriters') :
              Backlog'[k] = IF k <= Len(channel') THEN channel'[k]
                            ELSE payload'[blockedWriters'[k - Len(channel')]]
    <3>1. BacklogByPosition'
      BY <1>7, BacklogFacts, PTL
    <3> QED  BY <3>1 DEF BacklogByPosition
  <2>4. /\ Len(blockedWriters') = Len(blockedWriters) + 1
        /\ \A k \in 1 .. Len(blockedWriters) : blockedWriters'[k] = blockedWriters[k]
        /\ blockedWriters'[Len(blockedWriters) + 1] = c
    BY <1>2
  <2>5. Len(Backlog') = n + 1
    BY <1>2, <2>3, <2>4
  <2>6. \A k \in 1 .. n : Backlog'[k] = Backlog[k]
    <3> TAKE k \in 1 .. n
    <3>1. CASE k <= Len(channel)
      BY <1>2, <2>1, <2>3, <2>4, <3>1
    <3>2. CASE ~(k <= Len(channel))
      <4>1. k - Len(channel) \in 1 .. Len(blockedWriters) /\ k \in 1 .. n + 1
        BY <1>2, <3>2
      <4>2. Backlog[k] = payload[blockedWriters[k - Len(channel)]]
        BY <2>1, <3>2
      <4>3. Backlog'[k] = payload[blockedWriters'[k - Len(channel)]]
        BY <1>2, <2>3, <2>4, <3>2, <4>1
      <4> QED  BY <2>4, <4>1, <4>2, <4>3
    <3> QED  BY <3>1, <3>2
  <2>7. Backlog'[n + 1] = payload[c]
    <3>1. /\ n + 1 \in 1 .. Len(channel') + Len(blockedWriters')
          /\ ~(n + 1 <= Len(channel'))
          /\ n + 1 - Len(channel') = Len(blockedWriters) + 1
      BY <1>2, <2>4
    <3> QED  BY <2>3, <2>4, <3>1
  <2> HIDE DEF a
  <2>8. \A k \in 1 .. n + 1 : Backlog'[k] = a[k]
    <3> HIDE DEF n
    <3>1. n \in Nat
      BY <1>2 DEF n
    <3> QED  BY <2>2, <2>6, <2>7, <3>1
  <2>9. Backlog' = a
    BY <2>2, <2>3, <2>5, <2>8, SeqEqual
  <2> QED  BY <2>9 DEF a
<1> QED  BY <1>1, <1>7, <1>8

\* A cancelled write either never was in the line, or leaves it from behind the
\* admitted items.
LEMMA WriteCancelledStep ==
    ASSUME QueueInv, NEW c \in Callers, WriteCancelled(c)
    PROVE  /\ QueueInv'
           /\ \/ call[c] = "writing" /\ Backlog' = Backlog
              \/ /\ call[c] = "blocked"
                 /\ payload[c] \in Events
                 /\ \E j \in DOMAIN Backlog :
                       /\ j > Capacity
                       /\ Backlog[j] = payload[c]
                       /\ Backlog' = RemoveAt(Backlog, j)
<1>1. CASE call[c] = "writing" /\ UNCHANGED blockedWriters
  <2> USE DEF WriteCancelled
  <2>1. QueueTypeOK' /\ CallsCarryEvents' /\ WaitingMeansFull'
    BY <1>1 DEF QueueInv, QueueTypeOK, CallStates, Active, CallsCarryEvents,
                WaitingMeansFull
  <2>2. Backlog' = Backlog
    BY <1>1, LineUndisturbed
  <2> QED  BY <1>1, <2>1, <2>2 DEF QueueInv
<1>2. ASSUME NEW k \in DOMAIN blockedWriters, blockedWriters[k] = c,
             blockedWriters' = RemoveAt(blockedWriters, k)
      PROVE  /\ QueueInv'
             /\ call[c] = "blocked"
             /\ payload[c] \in Events
             /\ \E j \in DOMAIN Backlog :
                   /\ j > Capacity
                   /\ Backlog[j] = payload[c]
                   /\ Backlog' = RemoveAt(Backlog, j)
  <2> DEFINE m == Len(channel)
             n == Len(blockedWriters)
             j == m + k
             r == RemoveAt(Backlog, j)
  <2>1. /\ call[c] = "blocked" /\ payload[c] \in Events
        /\ call' = [call EXCEPT ![c] = "threw"]
        /\ UNCHANGED <<channel, pendingCount, payload>>
    BY <1>2, BlockedCarryEvents DEF WriteCancelled
  <2>2. /\ channel \in Seq(Events) /\ m \in Nat
        /\ blockedWriters \in Seq(Callers) /\ n \in Nat
        /\ DOMAIN blockedWriters = 1 .. n /\ k \in 1 .. n
    BY <1>2 DEF QueueInv, QueueTypeOK
  <2>3. m = Capacity
    BY <2>2 DEF QueueInv, WaitingMeansFull
  <2>4. /\ blockedWriters' \in Seq(Callers)
        /\ IsInjective(blockedWriters')
        /\ Elems(blockedWriters') = Elems(blockedWriters) \ {c}
    BY <1>2, <2>2, RemoveAtInjective DEF QueueInv, WaitingMeansFull
  <2>5. QueueTypeOK' /\ CallsCarryEvents'
    BY <2>1, <2>4 DEF QueueInv, QueueTypeOK, CallStates, CallsCarryEvents
  <2>6. WaitingMeansFull'
    <3>1. \A d \in Callers : call'[d] = "blocked" <=> d \in Elems(blockedWriters')
      BY <2>1, <2>4 DEF QueueInv, QueueTypeOK, WaitingMeansFull, Elems
    <3> QED  BY <2>1, <2>2, <2>3, <2>4, <3>1 DEF WaitingMeansFull, Elems
  <2>7. QueueInv'
    BY <2>5, <2>6 DEF QueueInv
  <2>8. /\ Backlog \in Seq(Events) /\ Len(Backlog) = m + n
        /\ DOMAIN Backlog = 1 .. m + n
        /\ \A p \in 1 .. m + n : Backlog[p] = IF p <= m THEN channel[p]
                                               ELSE payload[blockedWriters[p - m]]
    BY BacklogFacts DEF BacklogByPosition
  <2>9. /\ j \in DOMAIN Backlog /\ j > Capacity /\ ~(j <= m) /\ j - m = k
    BY <2>2, <2>3, <2>8
  <2>10. Backlog[j] = payload[c]
    BY <1>2, <2>8, <2>9
  <2>11. Backlog' = r
    <3>1. /\ r \in Seq(Events) /\ Len(r) = m + n - 1
          /\ \A p \in 1 .. m + n - 1 :
                r[p] = IF p < j THEN Backlog[p] ELSE Backlog[p + 1]
      <4> HIDE DEF j
      <4>1. /\ r \in Seq(Events) /\ Len(r) = Len(Backlog) - 1
            /\ \A p \in 1 .. Len(Backlog) - 1 :
                  r[p] = IF p < j THEN Backlog[p] ELSE Backlog[p + 1]
        BY <2>8, <2>9, RemoveAtFacts
      <4> HIDE DEF r
      <4> QED  BY <2>8, <4>1
    <3>2. /\ Len(blockedWriters') = n - 1
          /\ \A p \in 1 .. n - 1 : blockedWriters'[p] =
                IF p < k THEN blockedWriters[p] ELSE blockedWriters[p + 1]
      BY <1>2, <2>2, RemoveAtFacts
    <3>3. BacklogByPosition'
      BY <2>7, BacklogFacts, PTL
    <3>4. /\ Backlog' \in Seq(Events) /\ Len(Backlog') = m + n - 1
          /\ \A p \in 1 .. m + n - 1 : Backlog'[p] =
                IF p <= m THEN channel[p] ELSE payload[blockedWriters'[p - m]]
      BY <2>1, <2>2, <3>2, <3>3 DEF BacklogByPosition
    <3>5. ASSUME NEW p \in 1 .. m + n - 1
          PROVE  Backlog'[p] = r[p]
      <4>1. CASE p <= m
        <5>1. p \in 1 .. m + n /\ p < j
          BY <2>2, <2>9, <4>1
        <5>2. Backlog[p] = channel[p] /\ r[p] = Backlog[p]
          BY <2>8, <3>1, <4>1, <5>1
        <5> QED  BY <3>4, <4>1, <5>2
      <4>2. CASE m < p /\ p < j
        <5>1. p - m \in 1 .. n - 1 /\ p - m < k /\ ~(p <= m) /\ p \in 1 .. m + n
          BY <2>2, <2>9, <4>2
        <5>2. Backlog'[p] = payload[blockedWriters[p - m]]
          BY <3>2, <3>4, <5>1
        <5> QED  BY <2>8, <3>1, <4>2, <5>1, <5>2
      <4>3. CASE ~(p < j)
        <5>1. /\ p - m \in 1 .. n - 1 /\ ~(p - m < k) /\ ~(p <= m)
              /\ p + 1 \in 1 .. m + n /\ ~(p + 1 <= m) /\ (p + 1) - m = (p - m) + 1
          BY <2>2, <2>9, <4>3
        <5>2. Backlog'[p] = payload[blockedWriters[(p - m) + 1]]
          BY <3>2, <3>4, <5>1
        <5>3. Backlog[p + 1] = payload[blockedWriters[(p - m) + 1]]
          BY <2>8, <5>1
        <5> QED  BY <3>1, <4>3, <5>2, <5>3
      <4> QED  BY <2>2, <4>1, <4>2, <4>3
    <3> HIDE DEF r
    <3> QED  BY <3>1, <3>4, <3>5, SeqEqual
  <2> QED  BY <2>1, <2>7, <2>9, <2>10, <2>11
<1> QED  BY <1>1, <1>2 DEF WriteCancelled

\* A read takes the head of the line; the rest of it stays as it is, although the
\* first waiting writer moves from one part of it to the other.
LEMMA ReadStep ==
    ASSUME QueueInv, Read
    PROVE  /\ QueueInv'
           /\ Backlog # <<>>
           /\ Head(channel) \in Events
           /\ Head(channel) = Head(Backlog)
           /\ Backlog' = Tail(Backlog)
<1> DEFINE m == Len(channel)
           n == Len(blockedWriters)
<1>1. /\ channel \in Seq(Events) /\ m \in Nat \ {0}
      /\ Head(channel) = channel[1] /\ Head(channel) \in Events
      /\ blockedWriters \in Seq(Callers) /\ n \in Nat
      /\ DOMAIN blockedWriters = 1 .. n
      /\ UNCHANGED <<pendingCount, payload>>
  BY DEF QueueInv, QueueTypeOK, Read
<1>2. /\ Backlog \in Seq(Events) /\ Len(Backlog) = m + n
      /\ \A p \in 1 .. m + n : Backlog[p] = IF p <= m THEN channel[p]
                                             ELSE payload[blockedWriters[p - m]]
  BY BacklogFacts DEF BacklogByPosition
<1>3. Backlog # <<>> /\ Head(Backlog) = Head(channel)
  BY <1>1, <1>2
<1>4. /\ Tail(Backlog) \in Seq(Events) /\ Len(Tail(Backlog)) = m + n - 1
      /\ \A p \in 1 .. m + n - 1 : Tail(Backlog)[p] = Backlog[p + 1]
  BY <1>1, <1>2, <1>3, HeadTailProperties
<1>5. CASE blockedWriters = <<>>
  <2>1. channel' = Tail(channel) /\ UNCHANGED <<blockedWriters, call>>
    BY <1>5 DEF Read
  <2>2. channel' \in Seq(Events) /\ Len(channel') = m - 1
    BY <1>1, <2>1
  <2>3. QueueTypeOK' /\ CallsCarryEvents'
    BY <1>1, <2>1, <2>2 DEF QueueInv, QueueTypeOK, CallsCarryEvents
  <2>4. WaitingMeansFull'
    BY <1>1, <1>5, <2>1, <2>2, QueueAssumption DEF QueueInv, WaitingMeansFull
  <2>5. QueueInv'
    BY <2>3, <2>4 DEF QueueInv
  <2>6. Backlog = channel
    BY <1>5, NobodyWaits DEF ChannelIsLine
  <2>7. Backlog' = channel'
    <3>1. ChannelIsLine'
      BY <2>5, NobodyWaits, PTL
    <3> QED  BY <1>5, <2>1, <3>1 DEF ChannelIsLine
  <2> QED  BY <1>1, <1>3, <2>1, <2>5, <2>6, <2>7
<1>6. CASE blockedWriters # <<>>
  <2> DEFINE h == Head(blockedWriters)
  <2>1. /\ channel' = Append(Tail(channel), payload[h])
        /\ blockedWriters' = Tail(blockedWriters)
        /\ call' = [call EXCEPT ![h] = "written"]
    BY <1>6 DEF Read
  <2>2. n \in Nat \ {0} /\ h = blockedWriters[1] /\ m = Capacity
    BY <1>1, <1>6 DEF QueueInv, WaitingMeansFull
  <2>3. h \in Callers /\ payload[h] \in Events
    BY <1>1, <2>2, BlockedCarryEvents
  <2>4. /\ channel' \in Seq(Events) /\ Len(channel') = m
        /\ \A p \in 1 .. m - 1 : channel'[p] = channel[p + 1]
        /\ channel'[m] = payload[h]
    BY <1>1, <2>1, <2>3
  <2>5. /\ blockedWriters' \in Seq(Callers) /\ Len(blockedWriters') = n - 1
        /\ \A p \in 1 .. n - 1 : blockedWriters'[p] = blockedWriters[p + 1]
        /\ IsInjective(blockedWriters')
        /\ Elems(blockedWriters') = Elems(blockedWriters) \ {h}
    BY <1>1, <1>6, <2>1, <2>2, TailInjective DEF QueueInv, WaitingMeansFull
  <2>6. QueueTypeOK' /\ CallsCarryEvents'
    <3>1. call[h] = "blocked"
      BY <1>1, <2>2, BlockedCarryEvents
    <3> QED  BY <1>1, <2>1, <2>3, <2>4, <2>5, <3>1
                DEF QueueInv, QueueTypeOK, CallStates, CallsCarryEvents
  <2>7. WaitingMeansFull'
    <3>1. \A d \in Callers : call'[d] = "blocked" <=> d \in Elems(blockedWriters')
      <4>1. \A d \in Callers : call[d] = "blocked" <=> d \in Elems(blockedWriters)
        BY DEF QueueInv, WaitingMeansFull, Elems
      <4>2. \A d \in Callers : call'[d] = IF d = h THEN "written" ELSE call[d]
        <5> HIDE DEF h
        <5> QED  BY <2>1, <2>3 DEF QueueInv, QueueTypeOK
      <4> HIDE DEF h
      <4> QED  BY <2>5, <4>1, <4>2
    <3> QED  BY <2>2, <2>4, <2>5, <3>1, QueueAssumption DEF WaitingMeansFull, Elems
  <2>8. QueueInv'
    BY <2>6, <2>7 DEF QueueInv
  <2>9. Backlog' = Tail(Backlog)
    <3>1. BacklogByPosition'
      BY <2>8, BacklogFacts, PTL
    <3>2. /\ Backlog' \in Seq(Events) /\ Len(Backlog') = m + n - 1
          /\ \A p \in 1 .. m + n - 1 : Backlog'[p] =
                IF p <= m THEN channel'[p] ELSE payload[blockedWriters'[p - m]]
      BY <1>1, <2>2, <2>4, <2>5, <3>1 DEF BacklogByPosition
    <3>3. ASSUME NEW p \in 1 .. m + n - 1
          PROVE  Backlog'[p] = Tail(Backlog)[p]
      <4>1. CASE p < m
        <5>1. Backlog'[p] = channel[p + 1]
          BY <1>1, <2>4, <3>2, <4>1
        <5>2. p + 1 \in 1 .. m + n /\ p + 1 <= m
          BY <1>1, <4>1
        <5>3. Backlog[p + 1] = channel[p + 1]
          BY <1>2, <5>2
        <5> QED  BY <1>4, <5>1, <5>3
      <4>2. CASE p = m
        <5>1. Backlog'[p] = payload[h]
          BY <1>1, <2>4, <3>2, <4>2
        <5>2. p + 1 \in 1 .. m + n /\ ~(p + 1 <= m) /\ (p + 1) - m = 1
          BY <1>1, <2>2, <4>2
        <5> QED  BY <1>2, <1>4, <2>2, <5>1, <5>2
      <4>3. CASE m < p
        <5>1. /\ p - m \in 1 .. n - 1 /\ ~(p <= m)
              /\ p + 1 \in 1 .. m + n /\ ~(p + 1 <= m) /\ (p + 1) - m = (p - m) + 1
          BY <1>1, <2>2, <4>3
        <5>2. Backlog'[p] = payload[blockedWriters[(p - m) + 1]]
          BY <2>5, <3>2, <5>1
        <5>3. Backlog[p + 1] = payload[blockedWriters[(p - m) + 1]]
          BY <1>2, <5>1
        <5> QED  BY <1>4, <5>2, <5>3
      <4>4. p < m \/ p = m \/ m < p
        BY <1>1
      <4> QED  BY <4>1, <4>2, <4>3, <4>4, Zenon
    <3>4. Len(Tail(Backlog)) = Len(Backlog')
      BY <1>4, <3>2
    <3>5. \A p \in 1 .. Len(Backlog') : Backlog'[p] = Tail(Backlog)[p]
      BY <3>2, <3>3
    <3> DEFINE t == Tail(Backlog)
    <3>6. t \in Seq(Events) /\ Len(t) = Len(Backlog')
          /\ \A p \in 1 .. Len(Backlog') : Backlog'[p] = t[p]
      BY <1>4, <3>4, <3>5
    <3> HIDE DEF t
    <3>7. Backlog' = t
      BY <3>2, <3>6, SeqEqual
    <3> QED  BY <3>7 DEF t
  <2> QED  BY <1>1, <1>3, <2>8, <2>9
<1> QED  BY <1>5, <1>6

-----------------------------------------------------------------------------
(* Types, the shape of the queue, and where the loop is *)

\* The first layer of the inductive invariant: what each action needs to know
\* for its values to have their types.
ControlInv == TypeOK /\ QueueInv /\ LoopControl /\ CallsCarryTheirEvent

\* A host that has just started, before its loop or any publisher has run.
LEMMA ControlInitially == Init => ControlInv
<1> SUFFICES ASSUME Init PROVE ControlInv
  OBVIOUS
<1>1. QueueInv
  BY QueueInitially DEF Init
<1>2. TypeOK
  <2>1. retryCount \in [HeaderObjs -> 0 .. MaxRetry]
    BY BusAssumption DEF Init
  <2>2. failures \in [Events -> Nat] /\ outcome \in [Events -> Outcomes]
    BY DEF Init, Outcomes
  <2> QED  BY <1>1, <2>1, <2>2 DEF Init, TypeOK, QueueInv, LoopStates
<1>3. LoopControl /\ CallsCarryTheirEvent
  BY QueueAssumption, BusAssumption DEF Init, QueueInit, LoopControl, CallsCarryTheirEvent
<1> QED  BY <1>1, <1>2, <1>3 DEF ControlInv

\* A flow that publishes is a caller, and is not the loop.
LEMMA PublisherIsCaller == \A e \in Events : e \in Callers /\ e # Subscriber
BY BusAssumption

\* The loop is a caller too: it re-enqueues failed events.
LEMMA SubscriberIsCaller == Subscriber \in Callers
BY BusAssumption

\* Publishing: a step of an EnqueueAsync other than the loop's.
LEMMA ControlPublish ==
    ASSUME ControlInv, NEW e \in Events,
           Publish(e) \/ HandlerPublishes(e) \/ PublishGoesOn(e) \/ PublishThrows(e)
    PROVE  ControlInv'
<1> USE DEF ControlInv, TypeOK, LoopControl, CallsCarryTheirEvent
<1>0. e \in Callers /\ e # Subscriber /\ Subscriber \in Callers
  BY BusAssumption
<1>1. CASE Publish(e)
  <2>1. QueueInv'
    BY <1>0, <1>1, BeginEnqueueStep DEF Publish
  <2> QED  BY <1>0, <1>1, <2>1 DEF Publish, busVars, BeginEnqueue, QueueInv, QueueTypeOK
<1>2. CASE HandlerPublishes(e)
  <2>1. QueueInv'
    BY <1>0, <1>2, BeginEnqueueStep DEF HandlerPublishes
  <2> QED  BY <1>0, <1>2, <2>1 DEF HandlerPublishes, HandlerRuns, BeginEnqueue, QueueInv, QueueTypeOK
<1>3. CASE PublishGoesOn(e)
  <2>1. QueueInv'
    BY <1>0, <1>3, AlertStep, WriteCompletesStep, WriteBlocksStep DEF PublishGoesOn
  <2>2. /\ UNCHANGED payload /\ call[e] # "idle" /\ call'[e] # "idle"
        /\ \A c \in Callers \ {e} : call'[c] = call[c]
    BY <1>0, <1>3 DEF PublishGoesOn, AlertReturns, WriteCompletes, WriteBlocks,
                      QueueInv, QueueTypeOK
  <2> QED  BY <1>0, <1>3, <2>1, <2>2, PublisherIsCaller DEF PublishGoesOn, busVars, QueueInv
<1>4. CASE PublishThrows(e)
  <2>1. QueueInv'
    BY <1>0, <1>4, AlertStep, WriteCancelledStep DEF PublishThrows
  <2>2. call[e] # "idle"
    BY <1>0, <1>4, WriteCancelledStep DEF PublishThrows, AlertThrows
  <2>3. /\ UNCHANGED payload /\ call'[e] # "idle"
        /\ \A c \in Callers \ {e} : call'[c] = call[c]
    BY <1>0, <1>4 DEF PublishThrows, AlertThrows, WriteCancelled, QueueInv, QueueTypeOK
  <2>4. outcome' \in [Events -> Outcomes]
    BY <1>4 DEF PublishThrows, Outcomes
  <2> QED  BY <1>0, <1>4, <2>1, <2>2, <2>3, <2>4, PublisherIsCaller DEF PublishThrows, QueueInv
<1> QED  BY <1>1, <1>2, <1>3, <1>4

\* Start-up and shutdown touch nothing of the queue or the loop.
LEMMA ControlHost ==
    ASSUME ControlInv, SubscribeAsync \/ AttachConsumer \/ Stop
    PROVE  ControlInv'
<1>1. UNCHANGED queueVars /\ UNCHANGED <<pc, current, awaited, retryCount, failures, outcome>>
  BY DEF SubscribeAsync, AttachConsumer, Stop
<1>2. boot' \in {"starting", "subscribed", "ready"} /\ stopping' \in BOOLEAN
  BY DEF ControlInv, TypeOK, SubscribeAsync, AttachConsumer, Stop
<1>3. QueueInv'
  BY <1>1 DEF ControlInv, QueueInv, QueueTypeOK, CallsCarryEvents, WaitingMeansFull, queueVars
<1> QED  BY <1>1, <1>2, <1>3
            DEF ControlInv, TypeOK, QueueInv, LoopControl, CallsCarryTheirEvent, queueVars

\* The loop takes events, dispatches them, and ends.
LEMMA ControlLoop ==
    ASSUME ControlInv,
           \/ LoopEnds \/ TakeEvent \/ CountTaken \/ SkipUnregistered \/ SkipNoConsumer
           \/ InvokeConsumer \/ HandlerReturns \/ HandlerCancels \/ PoisonFailed \/ PoisonEnds
    PROVE  ControlInv'
<1> USE DEF ControlInv, TypeOK, LoopControl, CallsCarryTheirEvent
<1>1. CASE TakeEvent
  <2>1. QueueInv' /\ Head(channel) \in Events
    BY <1>1, ReadStep DEF TakeEvent
  <2>2. \A c \in Callers : call'[c] = "idle" <=> call[c] = "idle"
    BY <1>1, BlockedCarryEvents DEF TakeEvent, Read, QueueInv, QueueTypeOK
  <2> QED  BY <1>1, <2>1, <2>2, QueueAssumption, BusAssumption
              DEF TakeEvent, Read, LoopStates, QueueInv
<1>2. CASE CountTaken
  <2>1. QueueInv'
    BY <1>2, CountDownStep DEF CountTaken
  <2> QED  BY <1>2, <2>1 DEF CountTaken, CountDown, LoopStates, QueueInv
<1>3. CASE /\ UNCHANGED queueVars
           /\ \/ LoopEnds \/ SkipUnregistered \/ SkipNoConsumer \/ InvokeConsumer
              \/ HandlerReturns \/ HandlerCancels \/ PoisonFailed \/ PoisonEnds
  <2>1. QueueInv'
    BY <1>3 DEF QueueInv, QueueTypeOK, CallsCarryEvents, WaitingMeansFull, queueVars
  <2>2. /\ pc' \in LoopStates /\ current' \in Events \cup {NoEvent}
        /\ awaited' \in Events \cup {NoEvent}
        /\ UNCHANGED <<boot, stopping, retryCount>>
        /\ LoopControl'
    BY <1>3, QueueAssumption
       DEF LoopEnds, SkipUnregistered, SkipNoConsumer, InvokeConsumer, HandlerRuns,
           HandlerReturns, HandlerCancels, PoisonFailed, PoisonEnds, Settle, LoopStates, queueVars
  <2>3. current \in Events => failures[current] + 1 \in Nat
    OBVIOUS
  <2>4. failures' \in [Events -> Nat] /\ outcome' \in [Events -> Outcomes]
    BY <1>3, <2>3
       DEF LoopEnds, SkipUnregistered, SkipNoConsumer, InvokeConsumer, HandlerRuns,
           HandlerReturns, HandlerCancels, PoisonFailed, PoisonEnds, Settle, Outcomes
  <2>5. CallsCarryTheirEvent'
    BY <1>3, <2>2
       DEF LoopEnds, SkipUnregistered, SkipNoConsumer, InvokeConsumer, HandlerRuns,
           HandlerReturns, HandlerCancels, PoisonFailed, PoisonEnds, Settle, queueVars
  <2> QED  BY <2>1, <2>2, <2>4, <2>5 DEF QueueInv
<1> QED  BY <1>1, <1>2, <1>3
            DEF LoopEnds, SkipUnregistered, SkipNoConsumer, InvokeConsumer,
                HandlerReturns, HandlerCancels, PoisonFailed, PoisonEnds

\* The loop's own EnqueueAsync, from the failure to its return.
LEMMA ControlRetry ==
    ASSUME ControlInv, RetryFailed \/ RequeueGoesOn \/ RequeueReturns \/ RequeueThrows
    PROVE  ControlInv'
<1> USE DEF ControlInv, TypeOK, LoopControl, CallsCarryTheirEvent
<1>0. Subscriber \in Callers /\ (\A e \in Events : e \in Callers /\ e # Subscriber)
  BY BusAssumption
<1>1. CASE RetryFailed
  <2>1. current \in Events
    BY <1>1 DEF RetryFailed, HandlerRuns
  <2>2. QueueInv'
    BY <1>0, <1>1, <2>1, BeginEnqueueStep DEF RetryFailed
  <2>3. retryCount' \in [HeaderObjs -> 0 .. MaxRetry]
    <3> DEFINE h == HeadersOf[current]
    <3>1. h \in HeaderObjs
      BY <2>1, BusAssumption
    <3>2. retryCount[h] + 1 \in 0 .. MaxRetry
      BY <1>1, <3>1, BusAssumption DEF RetryFailed, RetriesLeft
    <3> QED  BY <1>1, <3>1, <3>2 DEF RetryFailed, RaiseRetryCount
  <2>4. failures' \in [Events -> Nat]
    BY <1>1, <2>1 DEF RetryFailed
  <2> QED  BY <1>0, <1>1, <2>1, <2>2, <2>3, <2>4, QueueAssumption
              DEF RetryFailed, HandlerRuns, BeginEnqueue, LoopStates, QueueInv, QueueTypeOK
<1>2. CASE RequeueGoesOn
  <2>1. QueueInv'
    BY <1>0, <1>2, AlertStep, WriteCompletesStep, WriteBlocksStep, WriteCancelledStep
       DEF RequeueGoesOn
  <2>2. call[Subscriber] # "idle" /\ call'[Subscriber] # "idle" /\ UNCHANGED payload
    BY <1>0, <1>2, WriteCancelledStep
       DEF RequeueGoesOn, AlertReturns, AlertThrows, WriteCompletes, WriteBlocks,
           WriteCancelled, QueueInv, QueueTypeOK
  <2>3. \A e \in Events : call'[e] = call[e]
    BY <1>0, <1>2 DEF RequeueGoesOn, AlertReturns, AlertThrows, WriteCompletes, WriteBlocks,
                      WriteCancelled, QueueInv, QueueTypeOK
  <2> QED  BY <1>2, <2>1, <2>2, <2>3 DEF RequeueGoesOn, busVars, QueueInv
<1>3. CASE RequeueReturns
  <2>1. QueueInv'
    BY <1>0, <1>3, EndEnqueueStep DEF RequeueReturns
  <2> QED  BY <1>0, <1>3, <2>1
              DEF RequeueReturns, EndEnqueue, LoopStates, QueueInv, QueueTypeOK
<1>4. CASE RequeueThrows
  <2>1. QueueInv'
    BY <1>0, <1>4, EndEnqueueStep DEF RequeueThrows
  <2> QED  BY <1>0, <1>4, <2>1
              DEF RequeueThrows, EndEnqueue, Settle, LoopStates, Outcomes, QueueInv, QueueTypeOK
<1> QED  BY <1>1, <1>2, <1>3, <1>4

\* Every step of publishers, host and loop keeps the types and the control state.
LEMMA ControlInductive == ControlInv /\ [Next]_vars => ControlInv'
<1> SUFFICES ASSUME ControlInv, [Next]_vars PROVE ControlInv'
  OBVIOUS
<1>1. CASE UNCHANGED vars
  BY <1>1 DEF ControlInv, TypeOK, QueueInv, QueueTypeOK, CallsCarryEvents, WaitingMeansFull,
              LoopControl, CallsCarryTheirEvent, vars
<1>2. CASE Next
  BY <1>2, ControlPublish, ControlHost, ControlLoop, ControlRetry
     DEF Next, LoopStep, HandlerThrows
<1> QED  BY <1>1, <1>2

\* The first layer holds of every behaviour of the transport.
THEOREM ControlInvariant == Spec => []ControlInv
BY ControlInitially, ControlInductive, PTL DEF Spec

\* Every variable keeps its type; in particular no retry-count header ever passes
\* MaxRetryCount, however callers share Headers objects (HandleConsumeFailureAsync).
THEOREM TypeCorrect == Spec => []TypeOK
BY ControlInvariant, PTL DEF ControlInv

\* The channel is never over its capacity, and a writer waits only for a full one.
THEOREM WaitingMeansFullAlways == Spec => []WaitingMeansFull
<1>1. ControlInv => WaitingMeansFull
  BY DEF ControlInv, QueueInv
<1> QED  BY <1>1, ControlInvariant, PTL

-----------------------------------------------------------------------------
(* Every event is in one place *)

\* The event is in the line, said without the line.
LinedUp(e) ==
    /\ outcome[e] = "none"
    /\ call[e] \in {"blocked", "written"}
    /\ ~Held(e)

\* The second layer: the line holds the right events, once each.
LineInv == EventInOnePlace /\ LoopHoldsEvent /\ OutcomeFitsCall

\* EventInOnePlace survives a step in one of three ways.  Nothing moves:
LEMMA LineKept ==
    ASSUME EventInOnePlace, Backlog' = Backlog,
           \A e \in Events : LinedUp(e)' <=> LinedUp(e)
    PROVE  EventInOnePlace'
BY DEF EventInOnePlace, LinedUp

\* an event joins the line,
LEMMA LineJoined ==
    ASSUME EventInOnePlace, Backlog \in Seq(Events), NEW x \in Events,
           ~LinedUp(x), LinedUp(x)',
           Backlog' = Append(Backlog, x),
           \A e \in Events \ {x} : LinedUp(e)' <=> LinedUp(e)
    PROVE  EventInOnePlace'
<1>1. IsInjective(Backlog) /\ (\A e \in Events : e \in Elems(Backlog) <=> LinedUp(e))
  BY DEF EventInOnePlace, LinedUp, Elems
<1>2. IsInjective(Backlog') /\ Elems(Backlog') = Elems(Backlog) \cup {x}
  BY <1>1, AppendedElems
<1>3. \A e \in Events : e \in Elems(Backlog') <=> LinedUp(e)'
  BY <1>1, <1>2
<1> QED  BY <1>2, <1>3 DEF EventInOnePlace, LinedUp, Elems

\* or one leaves it, from its head or from behind.
LEMMA LineLeft ==
    ASSUME EventInOnePlace, Backlog \in Seq(Events),
           NEW x \in Events, NEW j \in DOMAIN Backlog, Backlog[j] = x,
           ~LinedUp(x)',
           Backlog' = RemoveAt(Backlog, j) \/ (j = 1 /\ Backlog' = Tail(Backlog)),
           \A e \in Events \ {x} : LinedUp(e)' <=> LinedUp(e)
    PROVE  EventInOnePlace'
<1>1. IsInjective(Backlog) /\ (\A e \in Events : e \in Elems(Backlog) <=> LinedUp(e))
  BY DEF EventInOnePlace, LinedUp, Elems
<1>2. IsInjective(Backlog') /\ Elems(Backlog') = Elems(Backlog) \ {x}
  <2>1. CASE Backlog' = RemoveAt(Backlog, j)
    BY <1>1, <2>1, RemoveAtInjective
  <2>2. CASE j = 1 /\ Backlog' = Tail(Backlog)
    <3>1. Backlog # <<>> /\ Head(Backlog) = x
      BY <2>2
    <3> QED  BY <1>1, <2>2, <3>1, TailInjective
  <2> QED  BY <2>1, <2>2
<1>3. \A e \in Events : e \in Elems(Backlog') <=> LinedUp(e)'
  BY <1>1, <1>2
<1> QED  BY <1>2, <1>3 DEF EventInOnePlace, LinedUp, Elems

\* At the start there is no event in the line and none in the hands of the loop.
LEMMA LineInitially == Init => LineInv
<1> SUFFICES ASSUME Init PROVE LineInv
  OBVIOUS
<1>1. Backlog = <<>>
  BY QueueInitially DEF Init
<1>2. EventInOnePlace
  BY <1>1, BusAssumption DEF Init, QueueInit, EventInOnePlace, IsInjective
<1>3. LoopHoldsEvent /\ OutcomeFitsCall
  BY BusAssumption DEF Init, QueueInit, LoopHoldsEvent, OutcomeFitsCall
<1> QED  BY <1>2, <1>3 DEF LineInv

\* Publishing
LEMMA LinePublish ==
    ASSUME ControlInv, LineInv, NEW e \in Events,
           Publish(e) \/ HandlerPublishes(e) \/ PublishGoesOn(e) \/ PublishThrows(e)
    PROVE  LineInv'
<1> USE DEF LineInv
<1>0. /\ e \in Callers /\ e # Subscriber /\ QueueInv
      /\ call \in [Callers -> CallStates] /\ outcome \in [Events -> Outcomes]
      /\ Backlog \in Seq(Events)
      /\ \A f \in Events : f \in Callers
      /\ Subscriber \in Callers
      /\ current \in Events \cup {NoEvent}
  BY BusAssumption, BacklogFacts
     DEF ControlInv, QueueInv, QueueTypeOK, TypeOK, BacklogByPosition
<1>1. CASE Publish(e) \/ HandlerPublishes(e)
  <2>1. BeginEnqueue(e, e) /\ UNCHANGED <<pc, current, outcome>>
    BY <1>1 DEF Publish, HandlerPublishes, busVars
  <2>2. Backlog' = Backlog
    BY <1>0, <2>1, BeginEnqueueStep
  <2>3. /\ call[e] = "idle" /\ call'[e] \in {"alerting", "writing"}
        /\ \A c \in Callers \ {e} : call'[c] = call[c]
    BY <1>0, <2>1 DEF BeginEnqueue
  <2>4. \A f \in Events : LinedUp(f)' <=> LinedUp(f)
    BY <1>0, <2>1, <2>3 DEF LinedUp, Held
  <2>5. EventInOnePlace'
    BY <2>2, <2>4, LineKept
  <2>6. LoopHoldsEvent' /\ OutcomeFitsCall'
    BY <1>0, <2>1, <2>3 DEF LoopHoldsEvent, OutcomeFitsCall
  <2> QED  BY <2>5, <2>6
<1>2. CASE PublishGoesOn(e)
  <2>1. UNCHANGED <<pc, current, outcome>>
    BY <1>2 DEF PublishGoesOn, busVars
  <2>2. CASE AlertReturns(e)
    <3>1. Backlog' = Backlog
      BY <1>0, <2>2, AlertStep
    <3>2. /\ call[e] = "alerting" /\ call'[e] = "writing"
          /\ \A c \in Callers \ {e} : call'[c] = call[c]
      BY <1>0, <2>2 DEF AlertReturns
    <3>3. \A f \in Events : LinedUp(f)' <=> LinedUp(f)
      BY <1>0, <2>1, <3>2 DEF LinedUp, Held
    <3>4. LoopHoldsEvent' /\ OutcomeFitsCall'
      BY <1>0, <2>1, <3>2 DEF LoopHoldsEvent, OutcomeFitsCall
    <3> QED  BY <3>1, <3>3, <3>4, LineKept
  <2>3. CASE WriteCompletes(e) \/ WriteBlocks(e)
    <3>1. /\ call[e] = "writing" /\ call'[e] \in {"written", "blocked"}
          /\ \A c \in Callers \ {e} : call'[c] = call[c]
      BY <1>0, <2>3 DEF WriteCompletes, WriteBlocks
    <3>2. payload[e] = e
      BY <3>1 DEF ControlInv, CallsCarryTheirEvent
    <3>3. Backlog' = Append(Backlog, e)
      BY <1>0, <2>3, <3>2, WriteCompletesStep, WriteBlocksStep
    <3>4. outcome[e] = "none" /\ current # e
      BY <3>1, QueueAssumption DEF LoopHoldsEvent, OutcomeFitsCall
    <3>5. /\ ~LinedUp(e) /\ LinedUp(e)'
          /\ \A f \in Events \ {e} : LinedUp(f)' <=> LinedUp(f)
      BY <1>0, <2>1, <3>1, <3>4 DEF LinedUp, Held
    <3>6. EventInOnePlace'
      BY <1>0, <3>3, <3>5, LineJoined
    <3>7. LoopHoldsEvent' /\ OutcomeFitsCall'
      BY <1>0, <2>1, <3>1, <3>4 DEF LoopHoldsEvent, OutcomeFitsCall
    <3> QED  BY <3>6, <3>7
  <2> QED  BY <1>2, <2>2, <2>3 DEF PublishGoesOn
<1>3. CASE PublishThrows(e)
  <2>1. /\ UNCHANGED <<pc, current>> /\ outcome'[e] = "rejected"
        /\ \A f \in Events \ {e} : outcome'[f] = outcome[f]
    BY <1>0, <1>3 DEF PublishThrows
  <2>2. /\ call'[e] = "threw" /\ \A c \in Callers \ {e} : call'[c] = call[c]
    BY <1>0, <1>3 DEF PublishThrows, AlertThrows, WriteCancelled
  <2>3. call[e] \in Active
    BY <1>0, <1>3, WriteCancelledStep DEF PublishThrows, AlertThrows, Active
  <2>4. outcome[e] = "none" /\ current # e
    BY <1>0, <2>3, QueueAssumption DEF LoopHoldsEvent, OutcomeFitsCall, Active
  <2>5. ~LinedUp(e)' /\ \A f \in Events \ {e} : LinedUp(f)' <=> LinedUp(f)
    BY <1>0, <2>1, <2>2 DEF LinedUp, Held
  <2>6. LoopHoldsEvent' /\ OutcomeFitsCall'
    BY <1>0, <2>1, <2>2, <2>4 DEF LoopHoldsEvent, OutcomeFitsCall
  <2>7. EventInOnePlace'
    <3>1. CASE Backlog' = Backlog /\ call[e] \in {"alerting", "writing"}
      <4>1. ~LinedUp(e)
        BY <3>1 DEF LinedUp
      <4> QED  BY <2>5, <3>1, <4>1, LineKept
    <3>2. CASE call[e] = "blocked" /\ WriteCancelled(e)
      <4>1. payload[e] = e
        BY <3>2 DEF ControlInv, CallsCarryTheirEvent
      <4>2. PICK j \in DOMAIN Backlog : Backlog[j] = e /\ Backlog' = RemoveAt(Backlog, j)
        BY <1>0, <3>2, <4>1, WriteCancelledStep
      <4> QED  BY <1>0, <2>5, <4>2, LineLeft
    <3>3. AlertThrows(e) => Backlog' = Backlog /\ call[e] = "alerting"
      BY <1>0, AlertStep DEF AlertThrows
    <3> QED  BY <1>0, <1>3, <3>1, <3>2, <3>3, WriteCancelledStep DEF PublishThrows
  <2> QED  BY <2>6, <2>7
<1> QED  BY <1>1, <1>2, <1>3

\* Steps that touch neither the queue nor what the loop holds.
LEMMA LineUntouched ==
    ASSUME LineInv, UNCHANGED queueVars, UNCHANGED <<pc, current, outcome>>
    PROVE  LineInv'
<1>1. Backlog' = Backlog
  BY DEF queueVars, Backlog
<1>2. \A e \in Events : LinedUp(e)' <=> LinedUp(e)
  BY DEF queueVars, LinedUp, Held
<1>3. LoopHoldsEvent' /\ OutcomeFitsCall'
  BY DEF LineInv, LoopHoldsEvent, OutcomeFitsCall, queueVars
<1> QED  BY <1>1, <1>2, <1>3, LineKept DEF LineInv

\* The head of the channel is an event that was written and has not ended: were
\* it blocked it would be in the line twice.
LEMMA HeadIsWritten ==
    ASSUME ControlInv, LineInv, channel # <<>>
    PROVE  /\ Head(channel) \in Events
           /\ call[Head(channel)] = "written"
           /\ outcome[Head(channel)] = "none"
<1> DEFINE e == Head(channel)
<1>1. /\ QueueInv /\ channel \in Seq(Events) /\ Len(channel) \in Nat \ {0}
      /\ e = channel[1] /\ e \in Events
      /\ blockedWriters \in Seq(Callers) /\ Len(blockedWriters) \in Nat
  BY DEF ControlInv, QueueInv, QueueTypeOK
<1>2. /\ DOMAIN Backlog = 1 .. Len(channel) + Len(blockedWriters)
      /\ \A k \in 1 .. Len(channel) + Len(blockedWriters) :
            Backlog[k] = IF k <= Len(channel) THEN channel[k]
                         ELSE payload[blockedWriters[k - Len(channel)]]
  BY <1>1, BacklogFacts DEF BacklogByPosition
<1>3. 1 \in DOMAIN Backlog /\ Backlog[1] = e
  BY <1>1, <1>2
<1> HIDE DEF e
<1>4. outcome[e] = "none" /\ call[e] \in {"blocked", "written"}
  BY <1>1, <1>3 DEF LineInv, EventInOnePlace
<1>5. ASSUME call[e] = "blocked" PROVE FALSE
  <2>1. e \in Callers /\ payload[e] = e
    BY <1>1, <1>5, BusAssumption DEF ControlInv, CallsCarryTheirEvent
  <2>2. PICK k \in 1 .. Len(blockedWriters) : blockedWriters[k] = e
    BY <1>1, <1>5, <2>1 DEF QueueInv, WaitingMeansFull
  <2> DEFINE j == Len(channel) + k
  <2>3. j \in DOMAIN Backlog /\ j # 1 /\ ~(j <= Len(channel)) /\ j - Len(channel) = k
    BY <1>1, <1>2
  <2>4. Backlog[j] = e
    BY <1>2, <2>1, <2>2, <2>3
  <2> QED  BY <1>3, <2>3, <2>4 DEF LineInv, EventInOnePlace, IsInjective
<1> QED  BY <1>1, <1>4, <1>5 DEF e

\* The loop takes the head of the line into its hands.
LEMMA LineTake ==
    ASSUME ControlInv, LineInv, TakeEvent
    PROVE  LineInv'
<1>1. /\ QueueInv /\ Backlog \in Seq(Events) /\ Backlog # <<>> /\ channel # <<>>
      /\ Head(channel) \in Events /\ Head(channel) = Head(Backlog)
      /\ Backlog' = Tail(Backlog)
  BY ReadStep, BacklogFacts DEF TakeEvent, Read, ControlInv, BacklogByPosition
<1>2. PICK e \in Events : e = Head(channel)
  BY <1>1
<1>3. call[e] = "written" /\ outcome[e] = "none"
  BY <1>1, <1>2, HeadIsWritten
<1>4. 1 \in DOMAIN Backlog /\ Backlog[1] = e
  BY <1>1, <1>2
<1>5. /\ current = NoEvent /\ current' = e /\ pc' = "counting" /\ UNCHANGED outcome
      /\ pc = "reading" /\ NoEvent \notin Events
  BY <1>2, QueueAssumption DEF TakeEvent, ControlInv, LoopControl
<1>6. \A f \in Events : \/ call'[f] = call[f]
                        \/ call[f] = "blocked" /\ call'[f] = "written"
  BY BlockedCarryEvents, PublisherIsCaller
     DEF TakeEvent, Read, ControlInv, QueueInv, QueueTypeOK
<1>7. call'[e] = "written"
  BY <1>3, <1>6
<1>8. ~LinedUp(e)' /\ \A f \in Events \ {e} : LinedUp(f)' <=> LinedUp(f)
  BY <1>5, <1>6 DEF LinedUp, Held
<1>9. EventInOnePlace'
  BY <1>1, <1>4, <1>8, LineLeft DEF LineInv
<1>10. LoopHoldsEvent'
  BY <1>3, <1>5, <1>7 DEF LoopHoldsEvent
<1>11. OutcomeFitsCall'
  BY <1>5, <1>6 DEF LineInv, OutcomeFitsCall
<1> QED  BY <1>9, <1>10, <1>11 DEF LineInv

\* The loop is done with an event, or goes on with it, without touching the queue
\* (LoopEnds to PoisonEnds) or with no effect on the line (CountTaken).
LEMMA LineLoop ==
    ASSUME ControlInv, LineInv,
           \/ LoopEnds \/ CountTaken \/ SkipUnregistered \/ SkipNoConsumer \/ InvokeConsumer
           \/ HandlerReturns \/ HandlerCancels \/ PoisonFailed \/ PoisonEnds
    PROVE  LineInv'
<1>1. UNCHANGED <<channel, blockedWriters, call, payload>>
  BY DEF LoopEnds, CountTaken, CountDown, SkipUnregistered, SkipNoConsumer, InvokeConsumer,
         HandlerReturns, HandlerCancels, PoisonFailed, PoisonEnds, queueVars
<1>2. Backlog' = Backlog
  BY <1>1 DEF Backlog
<1>3. /\ outcome \in [Events -> Outcomes] /\ NoEvent \notin Events
      /\ current \in Events \cup {NoEvent}
      /\ pc # "requeueing" /\ pc' # "requeueing"
      /\ pc = "reading" <=> current = NoEvent
  BY QueueAssumption
     DEF ControlInv, TypeOK, LoopControl, LoopEnds, CountTaken, SkipUnregistered,
         SkipNoConsumer, InvokeConsumer, HandlerRuns, HandlerReturns, HandlerCancels,
         PoisonFailed, PoisonEnds, Settle
<1>4. \/ /\ UNCHANGED <<current, outcome>>
         /\ current = NoEvent \/ (pc # "poisoning" /\ pc' # "poisoning")
      \/ /\ current \in Events
         /\ pc # "poisoning"
         /\ \/ current' = NoEvent
            \/ current' = current /\ pc' = "poisoning" /\ outcome'[current] = "poisoned"
         /\ outcome'[current] \in Outcomes \ {"none", "rejected"}
         /\ \A f \in Events \ {current} : outcome'[f] = outcome[f]
      \/ /\ current \in Events
         /\ pc = "poisoning"
         /\ current' = NoEvent
         /\ UNCHANGED outcome
  BY <1>3
     DEF LoopEnds, CountTaken, SkipUnregistered, SkipNoConsumer, InvokeConsumer, HandlerRuns,
         HandlerReturns, HandlerCancels, PoisonFailed, PoisonEnds, Settle, Outcomes
<1>5. \A f \in Events : LinedUp(f)' <=> LinedUp(f)
  BY <1>1, <1>3, <1>4 DEF LinedUp, Held, LineInv, LoopHoldsEvent
<1>6. LoopHoldsEvent'
  BY <1>1, <1>3, <1>4 DEF LineInv, LoopHoldsEvent
<1>7. OutcomeFitsCall'
  BY <1>1, <1>3, <1>4 DEF LineInv, LoopHoldsEvent, OutcomeFitsCall
<1> QED  BY <1>2, <1>5, <1>6, <1>7, LineKept DEF LineInv

\* The loop puts a failed event back: it is in the loop's hands until it is in the
\* line again, and again in its hands when EnqueueAsync throws.
LEMMA LineRetry ==
    ASSUME ControlInv, LineInv,
           RetryFailed \/ RequeueGoesOn \/ RequeueReturns \/ RequeueThrows
    PROVE  LineInv'
<1>0. /\ Subscriber \in Callers /\ NoEvent \notin Events /\ QueueInv
      /\ Backlog \in Seq(Events)
      /\ call \in [Callers -> CallStates] /\ outcome \in [Events -> Outcomes]
      /\ \A f \in Events : f \in Callers /\ f # Subscriber
  BY QueueAssumption, BusAssumption, BacklogFacts
     DEF ControlInv, QueueInv, QueueTypeOK, TypeOK, BacklogByPosition
<1>1. current \in Events /\ call[current] = "written" /\ outcome[current] = "none"
  <2>1. current # NoEvent /\ pc # "poisoning"
    BY <1>0 DEF ControlInv, LoopControl, RetryFailed, HandlerRuns, RequeueGoesOn, AlertReturns,
                AlertThrows, WriteCompletes, WriteBlocks, WriteCancelled, RequeueReturns,
                RequeueThrows, QueueInv, WaitingMeansFull
  <2> QED  BY <2>1 DEF ControlInv, TypeOK, LineInv, LoopHoldsEvent
<1>2. CASE RetryFailed
  <2>1. Backlog' = Backlog
    BY <1>0, <1>1, <1>2, BeginEnqueueStep DEF RetryFailed
  <2>2. /\ pc = "handling" /\ pc' = "requeueing" /\ UNCHANGED <<current, outcome>>
        /\ call'[Subscriber] \in {"alerting", "writing"}
        /\ \A f \in Events : call'[f] = call[f]
    BY <1>0, <1>2 DEF RetryFailed, HandlerRuns, BeginEnqueue
  <2>3. \A f \in Events : LinedUp(f)' <=> LinedUp(f)
    BY <2>2 DEF LinedUp, Held
  <2>4. LoopHoldsEvent' /\ OutcomeFitsCall'
    BY <1>1, <2>2 DEF LineInv, LoopHoldsEvent, OutcomeFitsCall
  <2> QED  BY <2>1, <2>3, <2>4, LineKept DEF LineInv
<1>3. CASE RequeueGoesOn
  <2>1. /\ UNCHANGED <<pc, current, outcome>>
        /\ \A f \in Events : call'[f] = call[f]
    BY <1>0, <1>3 DEF RequeueGoesOn, busVars, AlertReturns, AlertThrows, WriteCompletes,
                      WriteBlocks, WriteCancelled
  <2>2. pc = "requeueing" /\ payload[Subscriber] = current
    <3>1. call[Subscriber] # "idle"
      BY <1>0, <1>3, WriteCancelledStep
         DEF RequeueGoesOn, AlertReturns, AlertThrows, WriteCompletes, WriteBlocks
    <3> QED  BY <3>1 DEF ControlInv, LoopControl, CallsCarryTheirEvent
  <2>3. LoopHoldsEvent' /\ OutcomeFitsCall'
    BY <1>1, <2>1 DEF LineInv, LoopHoldsEvent, OutcomeFitsCall
  <2>4. CASE AlertReturns(Subscriber) \/ AlertThrows(Subscriber)
    <3>1. Backlog' = Backlog
      BY <1>0, <2>4, AlertStep
    <3>2. call[Subscriber] = "alerting" /\ call'[Subscriber] \in {"writing", "threw"}
      BY <1>0, <2>4 DEF AlertReturns, AlertThrows
    <3>3. \A f \in Events : LinedUp(f)' <=> LinedUp(f)
      BY <2>1, <2>2, <3>2 DEF LinedUp, Held
    <3> QED  BY <2>3, <3>1, <3>3, LineKept DEF LineInv
  <2>5. CASE WriteCompletes(Subscriber) \/ WriteBlocks(Subscriber)
    <3>1. Backlog' = Append(Backlog, current)
      BY <1>0, <2>2, <2>5, WriteCompletesStep, WriteBlocksStep
    <3>2. call[Subscriber] = "writing" /\ call'[Subscriber] \in {"written", "blocked"}
      BY <1>0, <2>5 DEF WriteCompletes, WriteBlocks
    <3> DEFINE e == current
    <3>3. ~LinedUp(current)
      BY <1>1, <2>2, <3>2 DEF LinedUp, Held
    <3>4. \A f \in Events : f = current =>
             /\ LinedUp(f)'
             /\ \A g \in Events \ {f} : LinedUp(g)' <=> LinedUp(g)
      BY <1>1, <2>1, <2>2, <3>2 DEF LinedUp, Held
    <3>5. ASSUME NEW f \in Events, f = current PROVE EventInOnePlace'
      BY <1>0, <3>1, <3>3, <3>4, <3>5, LineJoined DEF LineInv
    <3> QED  BY <1>1, <2>3, <3>5 DEF LineInv
  <2>6. CASE WriteCancelled(Subscriber)
    <3>1. call'[Subscriber] = "threw"
      BY <1>0, <2>6 DEF WriteCancelled
    <3>2. CASE call[Subscriber] = "writing" /\ Backlog' = Backlog
      <4>1. \A f \in Events : LinedUp(f)' <=> LinedUp(f)
        BY <2>1, <2>2, <3>1, <3>2 DEF LinedUp, Held
      <4> QED  BY <2>3, <3>2, <4>1, LineKept DEF LineInv
    <3>3. ASSUME NEW j \in DOMAIN Backlog, Backlog[j] = current,
                 Backlog' = RemoveAt(Backlog, j), NEW f \in Events, f = current
          PROVE  LineInv'
      <4>1. ~LinedUp(f)' /\ \A g \in Events \ {f} : LinedUp(g)' <=> LinedUp(g)
        BY <2>1, <2>2, <3>1, <3>3 DEF LinedUp, Held
      <4>2. EventInOnePlace'
        BY <1>0, <3>3, <4>1, LineLeft DEF LineInv
      <4> QED  BY <2>3, <4>2 DEF LineInv
    <3> QED  BY <1>0, <1>1, <2>2, <2>6, <3>2, <3>3, WriteCancelledStep
  <2> QED  BY <1>3, <2>4, <2>5, <2>6 DEF RequeueGoesOn
<1>4. CASE RequeueReturns \/ RequeueThrows
  <2>1. /\ EndEnqueue(Subscriber) /\ current' = NoEvent /\ pc' = "reading"
        /\ \A f \in Events \ {current} : outcome'[f] = outcome[f]
        /\ \/ call[Subscriber] = "written" /\ UNCHANGED outcome
           \/ call[Subscriber] = "threw" /\ outcome'[current] = "retryLost"
    BY <1>0, <1>1, <1>4 DEF RequeueReturns, RequeueThrows, Settle
  <2>2. Backlog' = Backlog /\ \A f \in Events : call'[f] = call[f]
    BY <1>0, <2>1, EndEnqueueStep DEF EndEnqueue
  <2>3. pc = "requeueing"
    BY <2>1 DEF ControlInv, LoopControl
  <2>4. \A f \in Events : LinedUp(f)' <=> LinedUp(f)
    BY <1>0, <1>1, <2>1, <2>2, <2>3 DEF LinedUp, Held
  <2>5. LoopHoldsEvent' /\ OutcomeFitsCall'
    BY <1>0, <1>1, <2>1, <2>2 DEF LineInv, LoopHoldsEvent, OutcomeFitsCall
  <2> QED  BY <2>2, <2>4, <2>5, LineKept DEF LineInv
<1> QED  BY <1>2, <1>3, <1>4

\* Every step keeps each event in one place, given the first layer.
LEMMA LineInductive == ControlInv /\ LineInv /\ [Next]_vars => LineInv'
<1> SUFFICES ASSUME ControlInv, LineInv, [Next]_vars PROVE LineInv'
  OBVIOUS
<1>1. CASE UNCHANGED vars
  BY <1>1, LineUntouched DEF vars, queueVars
<1>2. CASE SubscribeAsync \/ AttachConsumer \/ Stop
  BY <1>2, LineUntouched DEF SubscribeAsync, AttachConsumer, Stop
<1>3. CASE \E e \in Events :
              Publish(e) \/ HandlerPublishes(e) \/ PublishGoesOn(e) \/ PublishThrows(e)
  BY <1>3, LinePublish
<1>4. CASE LoopStep
  BY <1>4, LineTake, LineLoop, LineRetry DEF LoopStep, HandlerThrows
<1> QED  BY <1>1, <1>2, <1>3, <1>4 DEF Next

\* The second layer holds of every behaviour of the transport.
THEOREM LineInvariant == Spec => []LineInv
BY LineInitially, LineInductive, ControlInvariant, PTL DEF Spec

\* Conservation: whatever cancels, throws or blocks, an event that was written and
\* has not ended is in the channel, waits for it or is held by the loop, and in one
\* of these places only (EnqueueAsync, DequeueAsync, HandleConsumeFailureAsync).
THEOREM EventInOnePlaceAlways == Spec => []EventInOnePlace
<1>1. LineInv => EventInOnePlace
  BY DEF LineInv
<1> QED  BY <1>1, LineInvariant, PTL
=============================================================================
