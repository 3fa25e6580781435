-------------------------- MODULE BackgroundQueue --------------------------
(***************************************************************************)
(* BackgroundQueue.cs: a bounded channel of event contexts with a counter  *)
(* of pending items beside it and an alert raised when the counter is      *)
(* high.  EnqueueAsync is an asynchronous method: between the increment of *)
(* the counter, the end of the OnAlert callback and the end of the channel *)
(* write any other caller may run, so each of them is a step of its own.   *)
(* The channel itself (System.Threading.Channels, FullMode = Wait) is      *)
(* external: writers that find it full wait in the order they came, and a  *)
(* read hands the slot it frees to the first of them in the same step.     *)
(***************************************************************************)
EXTENDS Integers, FiniteSets, SequencesExt

CONSTANTS
    Events,         \* the event contexts that can be enqueued
    Callers,        \* the asynchronous flows that call EnqueueAsync
    NoEvent,
    Capacity,       \* BackgroundQueueOptions.Capacity
    AlertThreshold, \* BackgroundQueueOptions.AlertThreshold
    HasOnAlert      \* whether BackgroundQueueOptions.OnAlert is set

ASSUME QueueAssumption ==
    /\ IsFiniteSet(Events)
    /\ IsFiniteSet(Callers)
    /\ NoEvent \notin Events
    /\ Capacity \in Nat \ {0}
    /\ AlertThreshold \in Int
    /\ HasOnAlert \in BOOLEAN

VARIABLES
    channel,        \* the buffered event contexts, oldest first
    blockedWriters, \* the callers whose WriteAsync waits for a free slot
    pendingCount,   \* _pendingCount
    call,           \* how far each caller's EnqueueAsync has come
    payload         \* the event context each caller's EnqueueAsync carries

queueVars == <<channel, blockedWriters, pendingCount, call, payload>>

\* "written" and "threw" are the two ways an EnqueueAsync ends.
Active == {"alerting", "writing", "blocked"}
CallStates == Active \cup {"idle", "written", "threw"}

QueueTypeOK ==
    /\ channel \in Seq(Events)
    /\ blockedWriters \in Seq(Callers)
    /\ pendingCount \in Int
    /\ call \in [Callers -> CallStates]
    /\ payload \in [Callers -> Events \cup {NoEvent}]

QueueInit ==
    /\ channel = <<>>
    /\ blockedWriters = <<>>
    /\ pendingCount = 0
    /\ call = [c \in Callers |-> "idle"]
    /\ payload = [c \in Callers |-> NoEvent]

-----------------------------------------------------------------------------
(* EnqueueAsync *)

AlertDue(newCount) == HasOnAlert /\ newCount >= AlertThreshold

\* Interlocked.Increment, and the decision to await OnAlert on its result.
BeginEnqueue(c, e) ==
    /\ call[c] = "idle"
    /\ pendingCount' = pendingCount + 1
    /\ call' = [call EXCEPT ![c] =
                   IF AlertDue(pendingCount + 1) THEN "alerting" ELSE "writing"]
    /\ payload' = [payload EXCEPT ![c] = e]
    /\ UNCHANGED <<channel, blockedWriters>>

\* OnAlert completes.
AlertReturns(c) ==
    /\ call[c] = "alerting"
    /\ call' = [call EXCEPT ![c] = "writing"]
    /\ UNCHANGED <<channel, blockedWriters, pendingCount, payload>>

\* OnAlert throws: EnqueueAsync ends before the write, its increment stays.
AlertThrows(c) ==
    /\ call[c] = "alerting"
    /\ call' = [call EXCEPT ![c] = "threw"]
    /\ UNCHANGED <<channel, blockedWriters, pendingCount, payload>>

\* Mutated forms: one item too many, one too few.
HasRoomForOneMore == Len(channel) <= Capacity
HasRoomForOneLess == Len(channel) < Capacity - 1

\* The channel is bounded (BoundedChannelOptions, FullMode = Wait).
HasRoom == Len(channel) < Capacity

\* WriteAsync finds a free slot.
WriteCompletes(c) ==
    /\ call[c] = "writing"
    /\ HasRoom
    /\ channel' = Append(channel, payload[c])
    /\ call' = [call EXCEPT ![c] = "written"]
    /\ UNCHANGED <<blockedWriters, pendingCount, payload>>

\* WriteAsync finds the channel full and waits.
WriteBlocks(c) ==
    /\ call[c] = "writing"
    /\ ~HasRoom
    /\ blockedWriters' = Append(blockedWriters, c)
    /\ call' = [call EXCEPT ![c] = "blocked"]
    /\ UNCHANGED <<channel, pendingCount, payload>>

\* Mutated form: the caller is told, but its item stays in the line.
WriteCancelledInLine(c) ==
    /\ call[c] \in {"writing", "blocked"}
    /\ call' = [call EXCEPT ![c] = "threw"]
    /\ UNCHANGED <<channel, blockedWriters, pendingCount, payload>>

\* The token is cancelled before the item is in: WriteAsync throws, and the
\* increment stays.
WriteCancelled(c) ==
    /\ \/ /\ call[c] = "writing"
          /\ UNCHANGED blockedWriters
       \/ \E k \in DOMAIN blockedWriters :
             /\ blockedWriters[k] = c
             /\ blockedWriters' = RemoveAt(blockedWriters, k)
    /\ call' = [call EXCEPT ![c] = "threw"]
    /\ UNCHANGED <<channel, pendingCount, payload>>

\* The caller resumes after its await: the call is over.
EndEnqueue(c) ==
    /\ call[c] \in {"written", "threw"}
    /\ call' = [call EXCEPT ![c] = "idle"]
    /\ payload' = [payload EXCEPT ![c] = NoEvent]
    /\ UNCHANGED <<channel, blockedWriters, pendingCount>>

-----------------------------------------------------------------------------
(* DequeueAsync *)

\* Mutated form: the writer that came last gets the slot.
ReadAdmittingLast ==
    /\ channel # <<>>
    /\ IF blockedWriters = <<>>
       THEN /\ channel' = Tail(channel)
            /\ UNCHANGED <<blockedWriters, call>>
       ELSE /\ channel' = Append(Tail(channel), payload[Last(blockedWriters)])
            /\ blockedWriters' = Front(blockedWriters)
            /\ call' = [call EXCEPT ![Last(blockedWriters)] = "written"]
    /\ UNCHANGED <<pendingCount, payload>>

\* ReadAsync: the head leaves, and the first waiting writer gets its slot.
Read ==
    /\ channel # <<>>
    /\ IF blockedWriters = <<>>
       THEN /\ channel' = Tail(channel)
            /\ UNCHANGED <<blockedWriters, call>>
       ELSE /\ channel' = Append(Tail(channel), payload[Head(blockedWriters)])
            /\ blockedWriters' = Tail(blockedWriters)
            /\ call' = [call EXCEPT ![Head(blockedWriters)] = "written"]
    /\ UNCHANGED <<pendingCount, payload>>

\* Mutated form: the counter counts the items ever enqueued.
CountDownForgotten == UNCHANGED queueVars

\* Interlocked.Decrement, after the read.
CountDown ==
    /\ pendingCount' = pendingCount - 1
    /\ UNCHANGED <<channel, blockedWriters, call, payload>>

-----------------------------------------------------------------------------

\* What a sequence of writers carries.
Carried(writers, load) == [k \in DOMAIN writers |-> load[writers[k]]]

\* Every item between its WriteAsync and its ReadAsync, oldest first.
Backlog == channel \o Carried(blockedWriters, payload)

\* The channel never exceeds its capacity, a writer waits only while the
\* channel is full (a free slot is never left to a later writer), and the
\* callers in the line are exactly those whose EnqueueAsync is blocked.
WaitingMeansFull ==
    /\ Len(channel) <= Capacity
    /\ blockedWriters # <<>> => Len(channel) = Capacity
    /\ \A c \in Callers :
          call[c] = "blocked" <=> \E k \in DOMAIN blockedWriters : blockedWriters[k] = c
    /\ IsInjective(blockedWriters)

\* Every EnqueueAsync that has begun carries an event.
CallsCarryEvents == \A c \in Callers : call[c] # "idle" => payload[c] \in Events

\* What every operation of the queue preserves.
QueueInv == QueueTypeOK /\ CallsCarryEvents /\ WaitingMeansFull
=============================================================================
