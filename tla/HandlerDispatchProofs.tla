----------------------- MODULE HandlerDispatchProofs -----------------------
(***************************************************************************)
(* Theorems about the dispatch of one event, for any list of executors,    *)
(* any number of exception handlers, any degree of parallelism and any     *)
(* retry limit.                                                            *)
(***************************************************************************)
EXTENDS HandlerDispatch, WellFoundedInduction, TLAPS

\* The types the proofs need: those of TypeOK without the methods that have run.
StepTypes ==
    /\ phase \in {"idle", "running", "returned", "threw", "acked", "dropped", "poisoned"}
    /\ started \in 0..Len(Subscription)
    /\ state \in [Executors -> Active \cup {"waiting", "returned", "swallowed", "faulted"}]
    /\ kind \in [Executors -> Kinds]
    /\ handled \in [Executors -> BOOLEAN]
    /\ cancelled \in BOOLEAN
    /\ first \in Executors \cup {0}

\* Executors are started in order, and run only while InvokeAsync does.
StartedInOrder ==
    /\ \A i \in Executors : state[i] = "waiting" <=> i > started
    /\ \A i \in Executors : state[i] \in Active => phase = "running"
    /\ phase = "idle" => started = 0

\* An executor that has faulted has had its exception recorded, and only then is the
\* token cancelled; a failure that was taken on is in neither.
FaultRecorded ==
    /\ first # 0 => state[first] = "faulted"
    /\ \A i \in Executors : state[i] = "faulted" => first # 0
    /\ \A i \in Executors : state[i] = "swallowed" => handled[i]
    /\ cancelled => first # 0 /\ Len(Subscription) > 1

\* Nobody answers a token that is not cancelled.
TokenAnswered ==
    /\ \A i \in Executors : kind[i] = "tokenCancel" => cancelled
    /\ first # 0 => kind[first] # "tokenCancel"

\* InvokeAsync returns only when all have been started and none has faulted.
ReturnedMeansDone ==
    phase \in {"returned", "acked"} => first = 0 /\ started = Len(Subscription)

DispatchInv ==
    StepTypes /\ StartedInOrder /\ FaultRecorded /\ TokenAnswered /\ ReturnedMeansDone

\* An InvokeAsync that has not begun: nothing started, thrown, asked or cancelled.
FreshNow ==
    /\ phase = "idle" /\ started = 0 /\ cancelled = FALSE /\ first = 0
    /\ state = [i \in Executors |-> "waiting"]
    /\ kind = [i \in Executors |-> "none"]
    /\ handled = [i \in Executors |-> FALSE]

\* It satisfies the invariant.
LEMMA FreshIsSound == FreshNow => DispatchInv
<1> SUFFICES ASSUME FreshNow PROVE DispatchInv
  OBVIOUS
<1>1. Executors = 1..Len(Subscription) /\ Len(Subscription) \in Nat
  BY DispatchAssumption
<1>2. /\ \A i \in Executors : state[i] = "waiting" /\ kind[i] = "none"
      /\ state \in [Executors -> Active \cup {"waiting", "returned", "swallowed", "faulted"}]
      /\ kind \in [Executors -> Kinds]
  BY DEF FreshNow, Kinds
<1>3. handled \in [Executors -> BOOLEAN] /\ cancelled \in BOOLEAN /\ ~cancelled
  BY DEF FreshNow
<1>4. phase = "idle" /\ started = 0 /\ first = 0
  BY DEF FreshNow
<1>5. StepTypes
  BY <1>1, <1>2, <1>3, <1>4 DEF StepTypes
<1>6. StartedInOrder
  BY <1>1, <1>2, <1>4 DEF StartedInOrder, Active
<1>7. FaultRecorded /\ TokenAnswered /\ ReturnedMeansDone
  BY <1>2, <1>3, <1>4 DEF FaultRecorded, TokenAnswered, ReturnedMeansDone
<1> QED  BY <1>5, <1>6, <1>7 DEF DispatchInv

\* An event the transport has just received.
LEMMA DispatchInitially == Init => DispatchInv
<1>1. Init => FreshNow
  BY DEF Init, Fresh, FreshNow
<1> QED  BY <1>1, FreshIsSound

\* A fault is recorded, whoever was first; the token is cancelled if there are others.
\* The conditions on the kind it has are those of FaultRecorded and TokenAnswered.
LEMMA FaultStep ==
    ASSUME DispatchInv, NEW i \in Executors, state[i] = "catching",
           Fault(i), kind' \in [Executors -> Kinds],
           \A j \in Executors : j # i => kind'[j] = kind[j],
           kind'[i] = "tokenCancel" => cancelled,
           UNCHANGED <<phase, started, handled>>
    PROVE  DispatchInv'
<1>0. /\ 0 \notin Executors /\ Executors = 1..Len(Subscription) /\ Len(Subscription) \in Nat
      /\ state \in [Executors -> Active \cup {"waiting", "returned", "swallowed", "faulted"}]
  BY DispatchAssumption DEF DispatchInv, StepTypes
<1>1. /\ state' = [state EXCEPT ![i] = "faulted"]
      /\ first' = IF first = 0 THEN i ELSE first
      /\ cancelled' = (Len(Subscription) > 1)
  BY DEF Fault
<1>2. /\ state'[i] = "faulted"
      /\ \A j \in Executors : j # i => state'[j] = state[j]
      /\ state' \in [Executors -> Active \cup {"waiting", "returned", "swallowed", "faulted"}]
  BY <1>0, <1>1
<1>3. first' # 0 /\ first' \in Executors
  BY <1>0, <1>1 DEF DispatchInv, StepTypes
<1>4. phase = "running"
  BY DEF DispatchInv, StartedInOrder, Active
<1>5. cancelled' \in BOOLEAN /\ (cancelled => cancelled')
  <2>1. cancelled => Len(Subscription) > 1
    BY DEF DispatchInv, FaultRecorded
  <2>2. (Len(Subscription) > 1) \in BOOLEAN
    OBVIOUS
  <2> QED  BY <1>1, <2>1, <2>2, Zenon
<1>6. StepTypes'
  BY <1>2, <1>3, <1>5 DEF DispatchInv, StepTypes
<1>7. StartedInOrder'
  BY <1>2, <1>4 DEF DispatchInv, StartedInOrder, Active
<1>8. FaultRecorded'
  <2>1. state'[first'] = "faulted"
    BY <1>1, <1>2, <1>3 DEF DispatchInv, FaultRecorded, StepTypes
  <2>2. \A j \in Executors : state'[j] = "swallowed" => handled'[j]
    BY <1>2 DEF DispatchInv, FaultRecorded
  <2>3. cancelled' => first' # 0 /\ Len(Subscription) > 1
    BY <1>1, <1>3
  <2> QED  BY <1>3, <2>1, <2>2, <2>3 DEF FaultRecorded
<1>9. TokenAnswered'
  <2>1. \A j \in Executors : kind'[j] = "tokenCancel" => cancelled'
    BY <1>5 DEF DispatchInv, TokenAnswered
  <2>2. CASE first = 0
    BY <1>1, <2>1, <2>2 DEF DispatchInv, TokenAnswered, FaultRecorded
  <2>3. CASE first # 0
    BY <1>1, <2>1, <2>3 DEF DispatchInv, TokenAnswered, FaultRecorded, StepTypes
  <2> QED  BY <2>2, <2>3
<1>10. ReturnedMeansDone'
  BY <1>4 DEF ReturnedMeansDone
<1> QED  BY <1>6, <1>7, <1>8, <1>9, <1>10 DEF DispatchInv

\* One executor goes on.
LEMMA ExecutorKeeps ==
    ASSUME DispatchInv, NEW i \in Executors, ExecutorStep(i)
    PROVE  DispatchInv'
<1> USE DEF DispatchInv, StepTypes, StartedInOrder, FaultRecorded, TokenAnswered,
            ReturnedMeansDone, Active, Kinds
<1>0. 0 \notin Executors /\ Executors = 1..Len(Subscription) /\ Len(Subscription) \in Nat
  BY DispatchAssumption
<1>1. CASE StartExecutor(i)
  <2>1. /\ phase = "running" /\ i = started + 1 /\ started' = i
        /\ state[i] = "waiting"
        /\ UNCHANGED <<phase, handled, cancelled, first>>
    BY <1>0, <1>1 DEF StartExecutor
  <2>2. /\ state'[i] \in {"running", "catching"}
        /\ \A j \in Executors : j # i => state'[j] = state[j] /\ kind'[j] = kind[j]
        /\ kind'[i] \in {kind[i], "error"}
        /\ state' \in [Executors -> Active \cup {"waiting", "returned", "swallowed", "faulted"}]
        /\ kind' \in [Executors -> Kinds]
    BY <1>0, <1>1 DEF StartExecutor
  <2>3. \A j \in Executors : j > i <=> (j # i /\ j > started)
    BY <1>0, <2>1
  <2>4. StartedInOrder'
    BY <2>1, <2>2, <2>3, <1>0
  <2>5. FaultRecorded' /\ TokenAnswered' /\ ReturnedMeansDone'
    BY <2>1, <2>2
  <2> QED  BY <1>0, <2>1, <2>2, <2>4, <2>5
<1>2. CASE HandlerReturns(i)
  BY <1>0, <1>2 DEF HandlerReturns
<1>3. CASE HandlerThrows(i)
  <2>1. /\ UNCHANGED <<phase, started, handled, cancelled, first>>
        /\ state' = [state EXCEPT ![i] = "catching"] /\ state[i] = "running"
        /\ kind' \in [Executors -> Kinds]
        /\ \A j \in Executors : j # i => kind'[j] = kind[j]
        /\ kind'[i] = "tokenCancel" => cancelled
    BY <1>0, <1>3 DEF HandlerThrows
  <2>2. first # i
    BY <1>0, <2>1
  <2> QED  BY <1>0, <2>1, <2>2
<1>4. CASE ExceptionHandlerReturns(i)
  <2>1. /\ UNCHANGED <<phase, started, state, kind, cancelled, first>>
        /\ state[i] = "catching"
        /\ handled' \in [Executors -> BOOLEAN]
        /\ \A j \in Executors : j # i => handled'[j] = handled[j]
    BY <1>0, <1>4 DEF ExceptionHandlerReturns
  <2> QED  BY <1>0, <2>1
<1>5. CASE ExceptionHandlerThrows(i)
  <2>1. /\ UNCHANGED <<phase, started, handled>> /\ Fault(i) /\ state[i] = "catching"
        /\ kind' \in [Executors -> Kinds]
        /\ \A j \in Executors : j # i => kind'[j] = kind[j]
        /\ kind'[i] = "tokenCancel" => cancelled
    BY <1>0, <1>5 DEF ExceptionHandlerThrows
  <2> QED  BY <2>1, FaultStep
<1>6. CASE CatchEnds(i) /\ handled[i]
  BY <1>0, <1>6 DEF CatchEnds
<1>7. CASE CatchEnds(i) /\ ~handled[i]
  <2>1. UNCHANGED <<phase, started, handled, kind>> /\ Fault(i) /\ state[i] = "catching"
    BY <1>7 DEF CatchEnds
  <2> QED  BY <2>1, FaultStep
<1> QED  BY <1>1, <1>2, <1>3, <1>4, <1>5, <1>6, <1>7 DEF ExecutorStep

\* The call, its end, and the transport.
LEMMA TransportKeeps ==
    ASSUME DispatchInv, InvokeAsync \/ InvokeEnds \/ TransportStep
    PROVE  DispatchInv'
<1> USE DEF DispatchInv, StepTypes, StartedInOrder, FaultRecorded, TokenAnswered,
            ReturnedMeansDone
<1>1. CASE InvokeAsync
  BY <1>1 DEF InvokeAsync
<1>2. CASE InvokeEnds
  <2>1. \A i \in Executors : state[i] \notin Active
    BY <1>2 DEF InvokeEnds, Running
  <2>2. first = 0 => started = Len(Subscription)
    BY <1>2 DEF InvokeEnds
  <2> QED  BY <1>2, <2>1, <2>2 DEF InvokeEnds
<1>3. CASE Ack \/ DropCancelled \/ Poison
  BY <1>3 DEF Ack, DropCancelled, Poison
<1>4. CASE Retry
  <2>1. FreshNow'
    BY <1>4 DEF Retry, Fresh, FreshNow
  <2> QED  BY <2>1, FreshIsSound, PTL
<1> QED  BY <1>1, <1>2, <1>3, <1>4 DEF TransportStep

\* Every step keeps the invariant.
LEMMA DispatchInductive == DispatchInv /\ [Next]_vars => DispatchInv'
<1> SUFFICES ASSUME DispatchInv, [Next]_vars PROVE DispatchInv'
  OBVIOUS
<1>1. CASE UNCHANGED vars
  BY <1>1 DEF vars, DispatchInv, StepTypes, StartedInOrder, FaultRecorded, TokenAnswered,
              ReturnedMeansDone
<1>2. CASE Next
  BY <1>2, ExecutorKeeps, TransportKeeps DEF Next
<1> QED  BY <1>1, <1>2

\* The invariant holds of every dispatch.
THEOREM DispatchInvariant == Spec => []DispatchInv
BY DispatchInitially, DispatchInductive, PTL DEF Spec

\* The transport acks an event only when each executor has returned, or has failed and
\* an exception handler took the failure on (InvokeAsync, ExecuteHandlerAsync).
THEOREM AckNeedsEveryExecutorAlways == Spec => []AckNeedsEveryExecutor
<1>1. DispatchInv => AckNeedsEveryExecutor
  <2> SUFFICES ASSUME DispatchInv, phase \in {"returned", "acked"}, NEW i \in Executors
               PROVE  state[i] = "returned" \/ (state[i] = "swallowed" /\ handled[i])
    BY DEF AckNeedsEveryExecutor
  <2>1. i <= Len(Subscription) /\ i \in Nat /\ Len(Subscription) \in Nat
    BY DispatchAssumption
  <2>2. state[i] \notin Active \cup {"waiting", "faulted"}
    BY <2>1 DEF DispatchInv, StartedInOrder, FaultRecorded, ReturnedMeansDone
  <2> QED  BY <2>2 DEF DispatchInv, StepTypes, FaultRecorded
<1> QED  BY <1>1, DispatchInvariant, PTL

\* No executor runs when the transport has the event back, so a retry never overlaps
\* with the attempt before it (Parallel.ForEachAsync is awaited).
THEOREM NothingRunsBetweenAttemptsAlways == Spec => []NothingRunsBetweenAttempts
<1>1. DispatchInv => NothingRunsBetweenAttempts
  BY DEF DispatchInv, StartedInOrder, NothingRunsBetweenAttempts, Running
<1> QED  BY <1>1, DispatchInvariant, PTL

\* The executors of an event are cancelled only for a failure that left one of them,
\* never for one an exception handler took on (ExecuteHandlerAsync).
THEOREM HandledFailureCancelsNobodyAlways == Spec => []HandledFailureCancelsNobody
<1>1. DispatchInv => HandledFailureCancelsNobody
  BY DEF DispatchInv, FaultRecorded, HandledFailureCancelsNobody
<1> QED  BY <1>1, DispatchInvariant, PTL

\* What InvokeAsync throws is never an executor's answer to the cancelled token.
THEOREM CancellationHidesNoFailureAlways == Spec => []CancellationHidesNoFailure
<1>1. DispatchInv => CancellationHidesNoFailure
  BY DEF DispatchInv, TokenAnswered, CancellationHidesNoFailure
<1> QED  BY <1>1, DispatchInvariant, PTL

-----------------------------------------------------------------------------

\* A set of numbers that is not empty has a least one.
LEMMA LeastNatural ==
    ASSUME NEW T \in SUBSET Nat, T # {}
    PROVE  \E m \in T : \A k \in T : m <= k
<1> DEFINE R == OpToRel(<, Nat)
<1>1. IsWellFoundedOn(R, Nat)
  BY NatLessThanWellFounded
<1>2. \A i, j \in Nat : i < j => <<i, j>> \in R
  BY DEF OpToRel
<1> HIDE DEF R
<1>3. PICK m \in T : \A k \in T : ~ (<<k, m>> \in R)
  BY <1>1, WFMin
<1>4. ASSUME NEW k \in T
      PROVE  m <= k
  <2>1. k \in Nat /\ m \in Nat
    OBVIOUS
  <2>2. ~ (k < m)
    BY <1>2, <1>3, <2>1, Zenon
  <2> QED  BY <2>1, <2>2
<1> QED  BY <1>4

\* The delegate found by handler type belongs to some executor of the event.
LEMMA CachedOfSubscription ==
    ASSUME NEW i \in Executors
    PROVE  Cached(i) \in {MethodOf[Subscription[k]] : k \in Executors}
<1> DEFINE h == HandlerOf[Subscription[i]]
           Same == {k \in Executors : HandlerOf[Subscription[k]] = h}
           IsFirst(j) == /\ HandlerOf[Subscription[j]] = h
                         /\ \A k \in 1..(j - 1) : HandlerOf[Subscription[k]] # h
<1>1. Executors = 1..Len(Subscription) /\ Len(Subscription) \in Nat
  BY DispatchAssumption
<1>2. PICK m \in Same : \A k \in Same : m <= k
  <2>1. Same \in SUBSET Nat /\ i \in Same
    BY <1>1
  <2> HIDE DEF Same
  <2> QED  BY <2>1, LeastNatural
<1>3. m \in Executors /\ HandlerOf[Subscription[m]] = h
  OBVIOUS
<1>4. ASSUME NEW k \in 1..(m - 1) PROVE HandlerOf[Subscription[k]] # h
  <2>1. k \in Executors /\ ~ (m <= k)
    BY <1>1, <1>3
  <2> QED  BY <1>2, <2>1
<1>5. \E j \in Executors : IsFirst(j)
  BY <1>3, <1>4
<1>6. (CHOOSE j \in Executors : IsFirst(j)) \in Executors
  <2> HIDE DEF IsFirst
  <2> QED  BY <1>5
<1>7. Cached(i) = MethodOf[Subscription[CHOOSE j \in Executors : IsFirst(j)]]
  BY DEF Cached
<1> HIDE DEF IsFirst
<1> QED  BY <1>6, <1>7

\* The rest of the types, which the invariant above does without.
RestOfTypes ==
    /\ attempt \in 0..MaxRetry
    /\ asked \in [Executors -> 0..ExceptionHandlers]
    /\ methods \in SUBSET {MethodOf[Subscription[k]] : k \in Executors}

\* Nothing has been asked or has run before the first attempt.
LEMMA RestInitially == Init => RestOfTypes
BY DispatchAssumption DEF Init, Fresh, RestOfTypes

\* Only Retry counts an attempt, only an exception handler an answer, and only a
\* handler that returns a method.
LEMMA RestInductive == RestOfTypes /\ [Next]_vars => RestOfTypes'
<1> SUFFICES ASSUME RestOfTypes, [Next]_vars PROVE RestOfTypes'
  OBVIOUS
<1>0. MaxRetry \in Nat /\ ExceptionHandlers \in Nat
  BY DispatchAssumption
<1>1. CASE UNCHANGED <<attempt, asked, methods>>
  BY <1>1 DEF RestOfTypes
<1>2. ASSUME NEW i \in Executors, HandlerReturns(i)
      PROVE  RestOfTypes'
  <2>1. methods' = methods \cup {Cached(i)} /\ UNCHANGED <<attempt, asked>>
    BY <1>2 DEF HandlerReturns
  <2> QED  BY <2>1, CachedOfSubscription DEF RestOfTypes
<1>3. ASSUME NEW i \in Executors, ExceptionHandlerReturns(i) \/ ExceptionHandlerThrows(i)
      PROVE  RestOfTypes'
  <2>1. asked' \in [Executors -> 0..ExceptionHandlers]
    BY <1>0, <1>1, <1>3 DEF ExceptionHandlerReturns, ExceptionHandlerThrows, RestOfTypes
  <2>2. UNCHANGED <<attempt, methods>>
    BY <1>3 DEF ExceptionHandlerReturns, ExceptionHandlerThrows
  <2> QED  BY <2>1, <2>2 DEF RestOfTypes
<1>4. ASSUME NEW i \in Executors, StartExecutor(i) \/ HandlerThrows(i) \/ CatchEnds(i)
      PROVE  RestOfTypes'
  BY <1>1, <1>4 DEF StartExecutor, HandlerThrows, CatchEnds
<1>5. CASE Retry
  BY <1>0, <1>5 DEF Retry, Fresh, RestOfTypes
<1>6. CASE InvokeAsync \/ InvokeEnds \/ Ack \/ DropCancelled \/ Poison \/ UNCHANGED vars
  BY <1>1, <1>6 DEF InvokeAsync, InvokeEnds, Ack, DropCancelled, Poison, vars
<1> QED  BY <1>2, <1>3, <1>4, <1>5, <1>6 DEF Next, ExecutorStep, TransportStep

\* Every variable of a dispatch keeps its type.
THEOREM TypeOKAlways == Spec => []TypeOK
<1>1. DispatchInv /\ RestOfTypes => TypeOK
  BY DEF DispatchInv, StepTypes, RestOfTypes, TypeOK
<1> QED  BY <1>1, DispatchInvariant, RestInitially, RestInductive, PTL DEF Spec

\* One event through the dispatcher and its retries leads the life of EventLife, the
\* abstract specification the in-memory transport implements too.
THEOREM ImplementsEventLifeAlways == Spec => ImplementsEventLife
<1> DEFINE tries == [e \in Dispatched |-> attempt + IF phase \in {"dropped", "poisoned"} THEN 1 ELSE 0]
           fate == [e \in Dispatched |-> FateOf(phase)]
<1>1. Init => Life!Init
  BY DEF Init, Life!Init, FateOf
<1>2. DispatchInv /\ RestOfTypes /\ [Next]_vars => [Life!Next]_<<tries, fate>>
  <2> SUFFICES ASSUME DispatchInv, RestOfTypes, [Next]_vars PROVE [Life!Next]_<<tries, fate>>
    OBVIOUS
  <2>0. /\ "event" \in Dispatched /\ attempt \in Nat /\ MaxRetry \in Nat /\ attempt <= MaxRetry
        /\ phase \in {"idle", "running", "returned", "threw", "acked", "dropped", "poisoned"}
    BY DispatchAssumption DEF Dispatched, RestOfTypes, DispatchInv, StepTypes
  <2>1. ASSUME UNCHANGED attempt, phase \in {"idle", "running"}, phase' \in {"idle", "running", "returned", "threw"}
        PROVE  UNCHANGED <<tries, fate>>
    BY <2>1 DEF FateOf
  <2>2. ASSUME NEW i \in Executors, ExecutorStep(i)
        PROVE  UNCHANGED <<tries, fate>>
    <3>1. UNCHANGED <<phase, attempt>>
      BY <2>2 DEF ExecutorStep, StartExecutor, HandlerReturns, HandlerThrows, ExceptionHandlerReturns,
                  ExceptionHandlerThrows, CatchEnds
    <3> QED  BY <3>1
  <2>3. CASE InvokeAsync \/ InvokeEnds
    <3>1. /\ UNCHANGED attempt /\ phase \in {"idle", "running"}
          /\ phase' \in {"idle", "running", "returned", "threw"}
      BY <2>3 DEF InvokeAsync, InvokeEnds
    <3> QED  BY <2>1, <3>1
  <2>4. CASE Ack
    <3>1. Life!Handle("event")
      BY <2>0, <2>4 DEF Ack, Life!Handle, FateOf, Dispatched
    <3> QED  BY <2>0, <3>1 DEF Life!Next
  <2>5. CASE DropCancelled \/ Poison
    <3>1. /\ UNCHANGED attempt /\ phase = "threw"
          /\ \/ phase' = "dropped"
             \/ phase' = "poisoned" /\ attempt = MaxRetry
      BY <2>5 DEF DropCancelled, Poison
    <3>2. tries["event"] = attempt /\ fate["event"] = "open"
      BY <2>0, <3>1 DEF FateOf
    <3>3. tries' = [tries EXCEPT !["event"] = @ + 1]
      BY <2>0, <3>1 DEF Dispatched
    <3>4. \/ fate' = [fate EXCEPT !["event"] = "cancelled"]
          \/ fate' = [fate EXCEPT !["event"] = "poisoned"] /\ attempt = MaxRetry
      BY <2>0, <3>1 DEF FateOf, Dispatched
    <3>5. Life!GiveUp("event")
      BY <2>0, <3>2, <3>3, <3>4 DEF Life!GiveUp
    <3> QED  BY <2>0, <3>5 DEF Life!Next
  <2>6. CASE Retry
    <3>1. Life!Retry("event")
      BY <2>0, <2>6 DEF Retry, Life!Retry, FateOf, Dispatched
    <3> QED  BY <2>0, <3>1 DEF Life!Next
  <2>7. CASE UNCHANGED vars
    BY <2>7 DEF vars
  <2> QED  BY <2>2, <2>3, <2>4, <2>5, <2>6, <2>7 DEF Next, TransportStep
<1> QED  BY <1>1, <1>2, DispatchInvariant, RestInitially, RestInductive, PTL
         DEF Spec, ImplementsEventLife, Life!Spec

-----------------------------------------------------------------------------
(* Every step uses something up *)

Parties == Executors \cup {0}

Counted(left, n) == {x \in (0..MaxRetry) \X Parties \X (1..n) : x[3] <= left[x[1]][x[2]]}

\* A step count that falls somewhere and rises nowhere takes something off Ahead.
LEMMA AheadShrinks ==
    ASSUME NEW n \in Nat,
           NEW left \in [0..MaxRetry -> [Parties -> 0..n]],
           NEW right \in [0..MaxRetry -> [Parties -> 0..n]],
           \A a \in 0..MaxRetry, i \in Parties : right[a][i] <= left[a][i],
           NEW b \in 0..MaxRetry, NEW j \in Parties, right[b][j] < left[b][j]
    PROVE  Counted(right, n) \subseteq Counted(left, n) /\ Counted(right, n) # Counted(left, n)
<1>0. PICK L, R : L = Counted(left, n) /\ R = Counted(right, n)
  OBVIOUS
<1>1. ASSUME NEW x \in R
      PROVE  x \in L
  <2>1. PICK a \in 0..MaxRetry, i \in Parties, k \in 1..n : x = <<a, i, k>> /\ k <= right[a][i]
    BY <1>0 DEF Counted
  <2>2. right[a][i] <= left[a][i] /\ right[a][i] \in 0..n /\ left[a][i] \in 0..n
    OBVIOUS
  <2>3. k <= left[a][i]
    BY <2>1, <2>2
  <2> QED  BY <1>0, <2>1, <2>3 DEF Counted
<1>2. PICK x : x = <<b, j, left[b][j]>>
  OBVIOUS
<1>3. left[b][j] \in 0..n /\ right[b][j] \in 0..n
  OBVIOUS
<1>4. left[b][j] \in 1..n
  BY <1>3
<1>5. x \in L /\ x \notin R
  BY <1>0, <1>2, <1>3, <1>4 DEF Counted
<1> QED  BY <1>0, <1>1, <1>5

\* The same for the counts of the model.
Left == [a \in 0..MaxRetry |-> [i \in Parties |-> StepsLeft(a, i)]]
LeftTyped == Left \in [0..MaxRetry -> [Parties -> 0..(ExceptionHandlers + 3)]]

LEMMA LeftType == DispatchInv /\ RestOfTypes => LeftTyped
<1> SUFFICES ASSUME DispatchInv, RestOfTypes, NEW a \in 0..MaxRetry, NEW i \in Parties
             PROVE  StepsLeft(a, i) \in 0..(ExceptionHandlers + 3)
  BY DEF LeftTyped, Left
<1>1. ExceptionHandlers \in Nat /\ 0 \notin Executors /\ 0 \in 0..(ExceptionHandlers + 3)
  BY DispatchAssumption
<1>2. InvokerLeft \in 0..(ExceptionHandlers + 3)
  BY <1>1 DEF InvokerLeft
<1>3. ASSUME i # 0
      PROVE  ExecutorLeft(i) \in 0..(ExceptionHandlers + 3)
  <2>1. asked[i] \in 0..ExceptionHandlers
    BY <1>3 DEF RestOfTypes, Parties
  <2> QED  BY <1>1, <2>1 DEF ExecutorLeft
<1> QED  BY <1>1, <1>2, <1>3 DEF StepsLeft

UsesUp ==
    \E b \in 0..MaxRetry, j \in Parties :
        /\ StepsLeft(b, j)' < StepsLeft(b, j)
        /\ \A a \in 0..MaxRetry, i \in Parties : StepsLeft(a, i)' <= StepsLeft(a, i)

LEMMA UsesUpAhead ==
    ASSUME LeftTyped, LeftTyped', UsesUp
    PROVE  Ahead' \subseteq Ahead /\ Ahead' # Ahead
<1>1. PICK n \in Nat : n = ExceptionHandlers + 3
  BY DispatchAssumption
<1>2. PICK b \in 0..MaxRetry, j \in Parties :
        /\ StepsLeft(b, j)' < StepsLeft(b, j)
        /\ \A a \in 0..MaxRetry, i \in Parties : StepsLeft(a, i)' <= StepsLeft(a, i)
  BY DEF UsesUp
<1>3. PICK left, right : left = Left /\ right = Left'
  OBVIOUS
<1>4. \A a \in 0..MaxRetry, i \in Parties : left[a][i] = StepsLeft(a, i) /\ right[a][i] = StepsLeft(a, i)'
  BY <1>3 DEF Left, Parties
<1>5. Ahead = Counted(left, n)
  BY <1>1, <1>4 DEF Ahead, Parties, Counted
<1>6. Ahead' = Counted(right, n)
  BY <1>1, <1>4 DEF Ahead, Parties, Counted
<1>7. /\ left \in [0..MaxRetry -> [Parties -> 0..n]]
      /\ right \in [0..MaxRetry -> [Parties -> 0..n]]
  BY <1>1, <1>3 DEF LeftTyped, Parties
<1>8. /\ right[b][j] < left[b][j]
       /\ \A a \in 0..MaxRetry, i \in Parties : right[a][i] <= left[a][i]
  BY <1>2, <1>4
<1>9. Counted(right, n) \subseteq Counted(left, n) /\ Counted(right, n) # Counted(left, n)
  BY <1>1, <1>2, <1>7, <1>8, AheadShrinks
<1> QED  BY <1>5, <1>6, <1>9

\* One party's count falls in this attempt, nobody else's changes.
LEMMA OneUsesUp ==
    ASSUME RestOfTypes, LeftTyped, LeftTyped', UNCHANGED attempt,
           NEW b \in 0..MaxRetry, b = attempt, NEW j \in Parties,
           StepsLeft(b, j)' < StepsLeft(b, j),
           j # 0 => UNCHANGED phase,
           \A i \in Executors : i # j => ExecutorLeft(i)' = ExecutorLeft(i)
    PROVE  UsesUp
<1>0. attempt \in 0..MaxRetry /\ attempt' = attempt /\ 0 \notin Executors /\ MaxRetry \in Nat
  BY DispatchAssumption DEF RestOfTypes
<1>1. \A a \in 0..MaxRetry, i \in Parties : StepsLeft(a, i) \in Int /\ StepsLeft(a, i)' \in Int
  <2>1. PICK n \in Nat : n = ExceptionHandlers + 3
    BY DispatchAssumption
  <2>2. PICK left, right : left = Left /\ right = Left'
    OBVIOUS
  <2>3. /\ left \in [0..MaxRetry -> [Parties -> 0..n]]
        /\ right \in [0..MaxRetry -> [Parties -> 0..n]]
    BY <2>1, <2>2 DEF LeftTyped, Parties
  <2>4. \A a \in 0..MaxRetry, i \in Parties : left[a][i] = StepsLeft(a, i) /\ right[a][i] = StepsLeft(a, i)'
    BY <2>2 DEF Left, Parties
  <2>5. ASSUME NEW a \in 0..MaxRetry, NEW i \in Parties
        PROVE  left[a][i] \in Int /\ right[a][i] \in Int
    BY <2>3
  <2> QED  BY <2>4, <2>5
<1>2. ASSUME NEW a \in 0..MaxRetry, NEW i \in Parties, ~(a = b /\ i = j)
      PROVE  StepsLeft(a, i)' <= StepsLeft(a, i)
  <2>1. StepsLeft(a, i) \in Int
    BY <1>1
  <2>2. StepsLeft(a, i)' = StepsLeft(a, i)
    <3>1. CASE a # attempt
      BY <1>0, <3>1 DEF StepsLeft
    <3>2. CASE a = attempt /\ i = 0
      BY <1>0, <1>2, <3>2 DEF StepsLeft, InvokerLeft
    <3>3. CASE a = attempt /\ i # 0
      <4>1. ExecutorLeft(i)' = ExecutorLeft(i)
        BY <1>2, <3>3 DEF Parties
      <4> QED  BY <1>0, <3>3, <4>1 DEF StepsLeft
    <3> QED  BY <3>1, <3>2, <3>3
  <2> QED  BY <2>1, <2>2
<1>3. StepsLeft(b, j)' <= StepsLeft(b, j)
  BY <1>1
<1> QED  BY <1>2, <1>3 DEF UsesUp

LEMMA ExecutorUsesUp ==
    ASSUME DispatchInv, RestOfTypes, LeftTyped, LeftTyped', NEW j \in Executors, ExecutorStep(j)
    PROVE  UsesUp
<1>0. /\ ExceptionHandlers \in Nat /\ 0 \notin Executors
      /\ state \in [Executors -> Active \cup {"waiting", "returned", "swallowed", "faulted"}]
      /\ asked \in [Executors -> 0..ExceptionHandlers]
      /\ asked[j] \in 0..ExceptionHandlers
  BY DispatchAssumption DEF DispatchInv, StepTypes, RestOfTypes
<1>1. UNCHANGED <<phase, attempt>>
  BY DEF ExecutorStep, StartExecutor, HandlerReturns, HandlerThrows, ExceptionHandlerReturns,
         ExceptionHandlerThrows, CatchEnds
<1>2. \A i \in Executors : i # j => state'[i] = state[i] /\ asked'[i] = asked[i]
  BY <1>0 DEF ExecutorStep, StartExecutor, HandlerReturns, HandlerThrows, ExceptionHandlerReturns,
              ExceptionHandlerThrows, CatchEnds, Fault
<1>3. ExecutorLeft(j)' < ExecutorLeft(j)
  <2>1. CASE StartExecutor(j)
    <3>1. state[j] = "waiting"
      <4>1. j > started
        BY <2>1, DispatchAssumption DEF StartExecutor, DispatchInv, StepTypes
      <4> QED  BY <4>1 DEF DispatchInv, StartedInOrder
    <3>2. state'[j] \in {"running", "catching"} /\ asked' = asked
      BY <1>0, <2>1 DEF StartExecutor
    <3> QED  BY <1>0, <3>1, <3>2 DEF ExecutorLeft
  <2>2. CASE HandlerReturns(j)
    <3>1. state[j] = "running" /\ state'[j] = "returned"
      BY <1>0, <2>2 DEF HandlerReturns
    <3> QED  BY <1>0, <3>1 DEF ExecutorLeft
  <2>3. CASE HandlerThrows(j)
    <3>1. state[j] = "running" /\ state'[j] = "catching" /\ asked' = asked
      BY <1>0, <2>3 DEF HandlerThrows
    <3> QED  BY <1>0, <3>1 DEF ExecutorLeft
  <2>4. CASE ExceptionHandlerReturns(j)
    <3>1. state[j] = "catching" /\ state' = state /\ asked'[j] = asked[j] + 1
      BY <1>0, <2>4 DEF ExceptionHandlerReturns
    <3> QED  BY <1>0, <3>1 DEF ExecutorLeft
  <2>5. CASE ExceptionHandlerThrows(j) \/ CatchEnds(j)
    <3>1. state[j] = "catching" /\ state'[j] \in {"faulted", "swallowed"}
      BY <1>0, <2>5 DEF ExceptionHandlerThrows, CatchEnds, Fault
    <3> QED  BY <1>0, <3>1 DEF ExecutorLeft
  <2> QED  BY <2>1, <2>2, <2>3, <2>4, <2>5 DEF ExecutorStep
<1>4. PICK b \in 0..MaxRetry : b = attempt
  BY DEF RestOfTypes
<1>5. \A i \in Executors : i # j => ExecutorLeft(i)' = ExecutorLeft(i)
  BY <1>2 DEF ExecutorLeft
<1>6. j \in Parties /\ j # 0
  BY <1>0 DEF Parties
<1>7. StepsLeft(b, j)' < StepsLeft(b, j)
  <2>1. b \in Int /\ attempt' = attempt
    BY <1>1
  <2>2. StepsLeft(b, j) = ExecutorLeft(j) /\ StepsLeft(b, j)' = ExecutorLeft(j)'
    BY <1>4, <1>6, <2>1 DEF StepsLeft
  <2> QED  BY <1>3, <2>2
<1> QED  BY <1>1, <1>4, <1>5, <1>6, <1>7, OneUsesUp

LEMMA InvokerUsesUp ==
    ASSUME RestOfTypes, LeftTyped, LeftTyped',
           InvokeAsync \/ InvokeEnds \/ Ack \/ DropCancelled \/ Poison
    PROVE  UsesUp
<1>1. UNCHANGED <<attempt, state, asked>>
  BY DEF InvokeAsync, InvokeEnds, Ack, DropCancelled, Poison
<1>2. InvokerLeft' < InvokerLeft
  BY DEF InvokeAsync, InvokeEnds, Ack, DropCancelled, Poison, InvokerLeft
<1>3. PICK b \in 0..MaxRetry : b = attempt
  BY DEF RestOfTypes
<1>4. \A i \in Executors : i # 0 => ExecutorLeft(i)' = ExecutorLeft(i)
  BY <1>1 DEF ExecutorLeft
<1>5. 0 \in Parties
  BY DEF Parties
<1>6. StepsLeft(b, 0)' < StepsLeft(b, 0)
  <2>1. b \in Int /\ attempt' = attempt
    BY <1>1
  <2>2. StepsLeft(b, 0) = InvokerLeft /\ StepsLeft(b, 0)' = InvokerLeft'
    BY <1>3, <2>1 DEF StepsLeft
  <2> QED  BY <1>2, <2>2
<1> QED  BY <1>1, <1>3, <1>4, <1>5, <1>6, OneUsesUp

\* A retry begins the next attempt with what that had from the start.
LEMMA RetryUsesUp ==
    ASSUME RestOfTypes, LeftTyped, Retry
    PROVE  UsesUp
<1>0. /\ ExceptionHandlers \in Nat /\ MaxRetry \in Nat /\ 0 \notin Executors
      /\ attempt \in 0..MaxRetry /\ attempt' = attempt + 1 /\ attempt < MaxRetry
      /\ phase = "threw" /\ phase' = "idle"
      /\ \A i \in Executors : state'[i] = "waiting"
  BY DispatchAssumption DEF RestOfTypes, Retry, Fresh
<1>1. \A a \in 0..MaxRetry, i \in Parties : StepsLeft(a, i) \in 0..(ExceptionHandlers + 3)
  <2>1. ASSUME NEW a \in 0..MaxRetry, NEW i \in Parties
        PROVE  StepsLeft(a, i) \in 0..(ExceptionHandlers + 3)
    <3>1. Left \in [0..MaxRetry -> [Parties -> 0..(ExceptionHandlers + 3)]] /\ Left[a][i] = StepsLeft(a, i)
      BY DEF LeftTyped, Left
    <3> QED  BY <3>1
  <2> QED  BY <2>1
<1>2. ASSUME NEW a \in 0..MaxRetry, NEW i \in Parties
      PROVE  StepsLeft(a, i)' <= StepsLeft(a, i)
  <2>1. CASE a <= attempt
    <3>1. StepsLeft(a, i)' = 0
      BY <1>0, <2>1 DEF StepsLeft
    <3> QED  BY <1>0, <1>1, <3>1
  <2>2. CASE a = attempt + 1
    <3>1. StepsLeft(a, i) = ExceptionHandlers + 3
      BY <1>0, <2>2 DEF StepsLeft
    <3>2. InvokerLeft' = 3
      BY <1>0 DEF InvokerLeft
    <3>3. i # 0 => ExecutorLeft(i)' = ExceptionHandlers + 3
      BY <1>0 DEF ExecutorLeft, Parties
    <3>4. StepsLeft(a, i)' = IF i = 0 THEN InvokerLeft' ELSE ExecutorLeft(i)'
      BY <1>0, <2>2 DEF StepsLeft
    <3> QED  BY <1>0, <3>1, <3>2, <3>3, <3>4
  <2>3. CASE a > attempt + 1
    <3>1. StepsLeft(a, i) = ExceptionHandlers + 3 /\ StepsLeft(a, i)' = ExceptionHandlers + 3
      BY <1>0, <2>3 DEF StepsLeft
    <3> QED  BY <1>0, <3>1
  <2> QED  BY <1>0, <2>1, <2>2, <2>3
<1>3. PICK b \in 0..MaxRetry : b = attempt
  BY <1>0
<1>4. StepsLeft(b, 0)' < StepsLeft(b, 0)
  <2>1. StepsLeft(b, 0)' = 0
    BY <1>0, <1>3 DEF StepsLeft
  <2>2. StepsLeft(b, 0) = 1
    BY <1>0, <1>3 DEF StepsLeft, InvokerLeft
  <2> QED  BY <2>1, <2>2
<1> QED  BY <1>2, <1>4 DEF UsesUp, Parties

\* Dispatch cannot go on for ever, whatever throws, is handled, cancelled or retried:
\* every step takes something off a finite set of steps and adds nothing to it
\* (InvokeAsync, ExceptionHandlerInvoker and the retry of the transport).
THEOREM EveryStepUsesUpAlways == Spec => EveryStepUsesUp
<1>1. DispatchInv /\ RestOfTypes /\ LeftTyped /\ LeftTyped' /\ [Next]_vars
        => [Ahead' \subseteq Ahead /\ Ahead' # Ahead]_vars
  <2> SUFFICES ASSUME DispatchInv, RestOfTypes, LeftTyped, LeftTyped', Next
               PROVE  Ahead' \subseteq Ahead /\ Ahead' # Ahead
    OBVIOUS
  <2>1. UsesUp
    BY ExecutorUsesUp, InvokerUsesUp, RetryUsesUp DEF Next, TransportStep
  <2> QED  BY <2>1, UsesUpAhead
<1> QED  BY <1>1, LeftType, DispatchInvariant, RestInitially, RestInductive, PTL
         DEF Spec, EveryStepUsesUp
=============================================================================
