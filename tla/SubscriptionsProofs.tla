------------------------ MODULE SubscriptionsProofs ------------------------
(***************************************************************************)
(* Theorems about subscriptions, for any types, names, profiles and        *)
(* requests, and any number of calls: types, the registry, what a second   *)
(* Initialize changes, how the host starts, what is dispatched and what a  *)
(* document holds.                                                         *)
(*                                                                         *)
(* What the loops of the manager compute is proved by induction over a set *)
(* of numbers (EventNamesProofs).  Then Initialize is one step of two      *)
(* kinds: the first fills the manager with the calls and the registry up   *)
(* to the first type that clashes, any later one changes nothing.          *)
(***************************************************************************)
EXTENDS Subscriptions, EventNamesProofs

-----------------------------------------------------------------------------
(* Lists that grow by new elements only *)

Extends(list, e) == IF Contains(list, e) THEN list ELSE Append(list, e)

LEMMA ExtendsFacts ==
    ASSUME NEW S, NEW list \in Seq(S), NEW e \in S
    PROVE  /\ Extends(list, e) \in Seq(S)
           /\ ToSet(Extends(list, e)) = ToSet(list) \cup {e}
           /\ e \in ToSet(list) => Extends(list, e) = list
<1>1. Contains(list, e) <=> e \in ToSet(list)
  BY DEF Contains, ToSet
<1>2. CASE Contains(list, e)
  BY <1>1, <1>2 DEF Extends
<1>3. CASE ~Contains(list, e)
  <2>1. Extends(list, e) = Append(list, e) /\ Append(list, e) \in Seq(S)
    BY <1>3 DEF Extends
  <2>2. /\ Len(Append(list, e)) = Len(list) + 1
        /\ Append(list, e)[Len(list) + 1] = e
        /\ \A i \in 1..Len(list) : Append(list, e)[i] = list[i]
    OBVIOUS
  <2>3. ToSet(Append(list, e)) = ToSet(list) \cup {e}
    BY <2>1, <2>2 DEF ToSet
  <2> QED  BY <1>1, <1>3, <2>1, <2>3
<1> QED  BY <1>2, <1>3

\* The loop of AppendNew: the list grows by an element of t a round, if it is new.
LEMMA AppendNewLoop ==
    ASSUME NEW S, NEW s \in Seq(S), NEW t \in Seq(S)
    PROVE  \E list : /\ AppendNew(s, t) = list[Len(t)]
                     /\ list[0] = s
                     /\ \A i \in 1..Len(t) : list[i] = Extends(list[i - 1], t[i])
<1> DEFINE n == Len(t)
           step == [i \in 1..n |-> [l \in Seq(S) |-> Extends(l, t[i])]]
           Loop(list) ==
               list = [i \in 0..Len(t) |->
                          IF i = 0 THEN s
                          ELSE IF Contains(list[i - 1], t[i]) THEN list[i - 1]
                               ELSE Append(list[i - 1], t[i])]
<1>1. \A i \in 1..n, l \in Seq(S) : step[i][l] = Extends(l, t[i]) /\ step[i][l] \in Seq(S)
  <2>1. ASSUME NEW i \in 1..n, NEW l \in Seq(S)
        PROVE  Extends(l, t[i]) \in Seq(S)
    <3>1. t[i] \in S
      OBVIOUS
    <3> QED  BY <3>1, ExtendsFacts
  <2> QED  BY <2>1
<1>2. n \in Nat
  OBVIOUS
<1>3. \E f \in [0..n -> Seq(S)] : f[0] = s /\ \A i \in 1..n : f[i] = step[i][f[i - 1]]
  <2> HIDE DEF step, n
  <2>1. \A i \in 1..n, v \in Seq(S) : step[i][v] \in Seq(S)
    BY <1>1
  <2>2. HasLoop(n, Seq(S), s, step)
    BY <1>2, <2>1, Recursion
  <2> QED  BY <2>2 DEF HasLoop
<1>4. PICK f \in [0..n -> Seq(S)] : f[0] = s /\ \A i \in 1..n : f[i] = step[i][f[i - 1]]
  BY <1>3
<1>5. ASSUME NEW i \in 1..n
      PROVE  f[i] = Extends(f[i - 1], t[i])
  <2>1. i - 1 \in 0..n
    BY <1>2
  <2>2. f[i - 1] \in Seq(S)
    BY <2>1
  <2>3. step[i][f[i - 1]] = Extends(f[i - 1], t[i])
    BY <1>1, <2>2
  <2> QED  BY <1>4, <2>3
<1> HIDE DEF step
<1>6. Loop(f)
  <2>1. \A i \in 0..n : f[i] = IF i = 0 THEN s
                               ELSE IF Contains(f[i - 1], t[i]) THEN f[i - 1] ELSE Append(f[i - 1], t[i])
    <3>1. ASSUME NEW i \in 0..n, i # 0
          PROVE  f[i] = IF Contains(f[i - 1], t[i]) THEN f[i - 1] ELSE Append(f[i - 1], t[i])
      <4>1. i \in 1..n
        BY <1>2, <3>1
      <4> QED  BY <1>5, <4>1 DEF Extends
    <3> QED  BY <1>4, <3>1
  <2>2. f = [i \in 0..n |-> f[i]]
    OBVIOUS
  <2> QED  BY <2>1, <2>2
<1>7. PICK list : list = CHOOSE l : Loop(l)
  OBVIOUS
<1>8. Loop(list)
  <2>1. \E l : Loop(l)
    BY <1>6
  <2> HIDE DEF Loop
  <2> QED  BY <1>7, <2>1
<1>9. AppendNew(s, t) = list[Len(t)]
  BY <1>7 DEF AppendNew
<1>10. \A i \in 0..n : list[i] = IF i = 0 THEN s
                                ELSE IF Contains(list[i - 1], t[i]) THEN list[i - 1]
                                     ELSE Append(list[i - 1], t[i])
  BY <1>8
<1>11. list[0] = s /\ \A i \in 1..n : list[i] = Extends(list[i - 1], t[i])
  BY <1>2, <1>10 DEF Extends
<1> QED  BY <1>9, <1>11

\* AppendNew adds to s what of t is not there, and nothing if all of it is.
LEMMA AppendNewFacts ==
    ASSUME NEW S, NEW s \in Seq(S), NEW t \in Seq(S)
    PROVE  /\ AppendNew(s, t) \in Seq(S)
           /\ ToSet(AppendNew(s, t)) = ToSet(s) \cup ToSet(t)
           /\ ToSet(t) \subseteq ToSet(s) => AppendNew(s, t) = s
<1>1. PICK list : /\ AppendNew(s, t) = list[Len(t)]
                  /\ list[0] = s
                  /\ \A i \in 1..Len(t) : list[i] = Extends(list[i - 1], t[i])
  BY AppendNewLoop
<1>2. /\ Len(t) \in Nat
      /\ \A i \in 1..Len(t) : t[i] \in S
      /\ ToSet(t) = {t[i] : i \in 1..Len(t)}
  BY DEF ToSet
<1> DEFINE First(i) == {t[j] : j \in 1..i}
           P == {i \in 0..Len(t) : /\ list[i] \in Seq(S)
                                   /\ ToSet(list[i]) = ToSet(s) \cup First(i)
                                   /\ First(i) \subseteq ToSet(s) => list[i] = s}
<1>3. 0 \in P
  <2>1. First(0) = {}
    OBVIOUS
  <2> HIDE DEF First
  <2> QED  BY <1>1, <1>2, <2>1
<1>4. ASSUME NEW i \in 0..(Len(t) - 1), i \in P
      PROVE  i + 1 \in P
  <2>1. i + 1 \in 1..Len(t) /\ (i + 1) - 1 = i
    BY <1>2
  <2>2. list[i + 1] = Extends(list[i], t[i + 1]) /\ t[i + 1] \in S
    BY <1>1, <1>2, <2>1
  <2>3. First(i + 1) = First(i) \cup {t[i + 1]}
    <3>1. 1..(i + 1) = (1..i) \cup {i + 1}
      BY <2>1
    <3> QED  BY <3>1
  <2>4. /\ list[i] \in Seq(S)
        /\ ToSet(list[i]) = ToSet(s) \cup First(i)
        /\ First(i) \subseteq ToSet(s) => list[i] = s
    BY <1>4
  <2> HIDE DEF First
  <2>5. /\ Extends(list[i], t[i + 1]) \in Seq(S)
        /\ ToSet(Extends(list[i], t[i + 1])) = ToSet(list[i]) \cup {t[i + 1]}
        /\ t[i + 1] \in ToSet(list[i]) => Extends(list[i], t[i + 1]) = list[i]
    BY <2>2, <2>4, ExtendsFacts
  <2>6. /\ list[i + 1] \in Seq(S)
        /\ ToSet(list[i + 1]) = ToSet(s) \cup First(i + 1)
    BY <2>2, <2>3, <2>4, <2>5
  <2>7. First(i + 1) \subseteq ToSet(s) => list[i + 1] = s
    BY <2>2, <2>3, <2>4, <2>5
  <2>8. i + 1 \in 0..Len(t)
    BY <2>1
  <2> QED  BY <2>6, <2>7, <2>8
<1>5. Len(t) \in P
  <2>1. \A i \in 0..Len(t) : i \in P
    <3> HIDE DEF P
    <3> QED  BY <1>2, <1>3, <1>4, Induction
  <2> HIDE DEF P
  <2> QED  BY <1>2, <2>1
<1>6. First(Len(t)) = ToSet(t)
  BY <1>2
<1> HIDE DEF First
<1> QED  BY <1>1, <1>5, <1>6

-----------------------------------------------------------------------------
(* The registry *)

\* Only Initialize touches the registry, with the keys of the manager.
LEMMA RegistryChanges ==
    ASSUME [Next]_vars
    PROVE  UNCHANGED <<schemas, typesByName>> \/ \E order : RegisterAll(order)
<1>1. CASE InitializeManager \/ \E r \in Requests : Generate(r)
  <2>1. Initialize
    BY <1>1 DEF InitializeManager, Generate
  <2>2. RegisterAll(KeysInOrder(Aggregated))
    BY <2>1 DEF Initialize
  <2> QED  BY <2>2
<1>2. CASE ~(InitializeManager \/ \E r \in Requests : Generate(r))
  <2>1. UNCHANGED <<schemas, typesByName>>
    BY <1>2 DEF Next, vars, managerVars, ToDo, CatchExceptionToDo, CatchExceptionTwice, ProfilesResolved,
                SubscribeAsync, AttachConsumer, CreateInvoker, PrepareXmlComments, PrepareEnds,
                PrepareThrows, BuildDocument
  <2> QED  BY <2>1
<1> QED  BY <1>1, <1>2

\* Register puts a pair into both dictionaries or into neither, whichever type throws.
LEMMA InverseInductive == RegistryInverse /\ [Next]_vars => RegistryInverse'
<1> SUFFICES ASSUME RegistryInverse, [Next]_vars,
                    NEW t \in Types, NEW n \in {EventKey[u] : u \in Types}
             PROVE  <<t, n>> \in schemas' <=> <<n, t>> \in typesByName'
  BY DEF RegistryInverse
<1>0. <<t, n>> \in schemas <=> <<n, t>> \in typesByName
  BY DEF RegistryInverse
<1>1. CASE UNCHANGED <<schemas, typesByName>>
  BY <1>0, <1>1
<1>2. ASSUME NEW order, RegisterAll(order)
      PROVE  <<t, n>> \in schemas' <=> <<n, t>> \in typesByName'
  <2>1. <<t, n>> \in schemas' <=>
          <<t, n>> \in schemas \/ \E i \in 1..Accepted(order) : t = order[i] /\ n = EventKey[order[i]]
    BY <1>2 DEF RegisterAll
  <2>2. <<n, t>> \in typesByName' <=>
          <<n, t>> \in typesByName \/ \E i \in 1..Accepted(order) : t = order[i] /\ n = EventKey[order[i]]
    BY <1>2 DEF RegisterAll
  <2> QED  BY <1>0, <2>1, <2>2
<1> QED  BY <1>1, <1>2, RegistryChanges

\* The two dictionaries of EventNameRegistry are inverse to each other, also when a
\* Register has thrown half-way through Initialize.
THEOREM RegistryInverseAlways == Spec => []RegistryInverse
<1>1. Init => RegistryInverse
  BY DEF Init, RegistryInverse
<1> QED  BY <1>1, InverseInductive, PTL DEF Spec

\* What is registered for a type is the name GetEventKey makes of it.
NamesRight == \A entry \in schemas : entry[2] = EventKey[entry[1]]

LEMMA NamesRightInductive == NamesRight /\ [Next]_vars => NamesRight'
<1> SUFFICES ASSUME NamesRight, [Next]_vars PROVE NamesRight'
  OBVIOUS
<1>1. ASSUME NEW order, RegisterAll(order)
      PROVE  NamesRight'
  BY <1>1 DEF NamesRight, RegisterAll
<1> QED  BY <1>1, RegistryChanges DEF NamesRight

\* So a registered name is the one made up on the spot.
OneName == \A t \in Types : GetEventName(t) = EventKey[t]

LEMMA NameIsKey == NamesRight => OneName
<1> SUFFICES ASSUME NamesRight, NEW t \in Types PROVE GetEventName(t) = EventKey[t]
  BY DEF OneName
<1>1. CASE \E entry \in schemas : entry[1] = t
  <2> DEFINE registered == CHOOSE entry \in schemas : entry[1] = t
  <2>1. registered \in schemas /\ registered[1] = t
    BY <1>1
  <2>2. GetEventName(t) = registered[2]
    BY <1>1 DEF GetEventName
  <2> HIDE DEF registered
  <2> QED  BY <2>1, <2>2 DEF NamesRight
<1>2. CASE ~\E entry \in schemas : entry[1] = t
  BY <1>2 DEF GetEventName
<1> QED  BY <1>1, <1>2

\* A type has one name for life: the one it is published under before any Initialize
\* is the one it is registered and subscribed under later (GetEventName, Register).
THEOREM NameKeptAlways == Spec => NameKept
<1>1. Init => NamesRight
  BY DEF Init, NamesRight
<1>2. OneName /\ OneName' => [\A t \in Types : GetEventName(t)' = GetEventName(t)]_vars
  BY DEF OneName
<1> QED  BY <1>1, <1>2, NamesRightInductive, NameIsKey, PTL DEF Spec, NameKept

-----------------------------------------------------------------------------
(* The descriptions of a document *)

Preparation ==
    /\ request \in [Requests -> {"idle", "unprepared", "preparing", "building", "done", "threw"}]
    /\ document = [r \in Requests |-> document[r]]
    /\ \A r \in Requests : request[r] \in {"preparing", "building"} => prepared
    /\ prepared => loaded \/ broken \/ \E s \in Requests : request[s] = "preparing"

LEMMA PreparationInitially == Init => Preparation
BY DEF Init, Preparation

\* The flag is up while a request builds, and from then on the summaries are loaded,
\* could not be, or are being loaded.
LEMMA PreparationInductive == Preparation /\ [Next]_vars => Preparation'
<1> SUFFICES ASSUME Preparation, [Next]_vars PROVE Preparation'
  OBVIOUS
<1>1. CASE UNCHANGED generatorVars
  BY <1>1 DEF generatorVars, Preparation
<1>2. ASSUME NEW r \in Requests, Generate(r)
      PROVE  Preparation'
  <2>1. /\ request[r] # "preparing"
        /\ document' = [document EXCEPT ![r] = NoDocument]
        /\ UNCHANGED <<prepared, loaded, broken>>
    BY <1>2 DEF Generate, MayGenerate, Ended
  <2>2. PICK next \in {"unprepared", "building", "threw"} :
           /\ request' = [request EXCEPT ![r] = next]
           /\ next = "building" => prepared
    BY <1>2 DEF Generate
  <2> QED  BY <2>1, <2>2 DEF Preparation
<1>3. ASSUME NEW r \in Requests, PrepareXmlComments(r)
      PROVE  Preparation'
  BY <1>3 DEF PrepareXmlComments, Preparation
<1>4. ASSUME NEW r \in Requests, PrepareEnds(r)
      PROVE  Preparation'
  BY <1>4 DEF PrepareEnds, Preparation
<1>5. ASSUME NEW r \in Requests, PrepareThrows(r)
      PROVE  Preparation'
  BY <1>5 DEF PrepareThrows, Preparation
<1>6. ASSUME NEW r \in Requests, BuildDocument(r)
      PROVE  Preparation'
  <2>1. PICK built : document' = [document EXCEPT ![r] = built]
    BY <1>6 DEF BuildDocument
  <2>2. /\ request[r] = "building"
        /\ request' = [request EXCEPT ![r] = "done"]
        /\ UNCHANGED <<prepared, loaded, broken>>
    BY <1>6 DEF BuildDocument
  <2> QED  BY <2>1, <2>2 DEF Preparation
<1>7. CASE UNCHANGED vars
  BY <1>1, <1>7 DEF vars, generatorVars
<1> QED  BY <1>1, <1>2, <1>3, <1>4, <1>5, <1>6, <1>7
         DEF Next, ToDo, CatchExceptionToDo, CatchExceptionTwice, ProfilesResolved, InitializeManager,
             SubscribeAsync, AttachConsumer, CreateInvoker

\* A document lacks its descriptions only when another request is loading them, or
\* loading them has failed (EnsureXmlCommentsPrepared sets its flag before the work).
THEOREM UndescribedOnlyInPreparationAlways == Spec => UndescribedOnlyInPreparation
<1>1. ASSUME Preparation, [Next]_vars, NEW r \in Requests,
             request[r] = "building", request'[r] = "done", ~document'[r].described
      PROVE  broken \/ \E s \in Requests \ {r} : request[s] = "preparing"
  <2>1. BuildDocument(r)
    BY <1>1 DEF Preparation, Next, vars, generatorVars, ToDo, CatchExceptionToDo, CatchExceptionTwice,
                ProfilesResolved, InitializeManager, SubscribeAsync, AttachConsumer, CreateInvoker,
                Generate, MayGenerate, Ended, PrepareXmlComments, PrepareEnds, PrepareThrows, BuildDocument
  <2>2. PICK channels, operations, theSchemas :
           document' = [document EXCEPT ![r] = [channels |-> channels, operations |-> operations,
                                                schemas |-> theSchemas, described |-> loaded]]
    BY <2>1 DEF BuildDocument, Described
  <2>3. ~loaded
    BY <1>1, <2>2 DEF Preparation
  <2> QED  BY <1>1, <2>3 DEF Preparation
<1>2. Preparation /\ [Next]_vars =>
         [\A r \in Requests :
             (request[r] = "building" /\ request'[r] = "done" /\ ~document'[r].described)
                 => broken \/ \E s \in Requests \ {r} : request[s] = "preparing"]_vars
  BY <1>1
<1> QED  BY <1>2, PreparationInitially, PreparationInductive, PTL DEF Spec, UndescribedOnlyInPreparation

-----------------------------------------------------------------------------
(* Initialize *)

\* How far a run of Register gets: to the first type that throws, or to the end.
LEMMA AcceptedFacts ==
    ASSUME NEW order, Len(order) \in Nat
    PROVE  /\ Accepted(order) \in 0..Len(order)
           /\ \A i \in 1..Accepted(order) : ~Collides(order, i)
           /\ Accepted(order) < Len(order) => Collides(order, Accepted(order) + 1)
<1> DEFINE Ends(k) == k < Len(order) => Collides(order, k + 1)
           T == {k \in 0..Len(order) : Ends(k)}
           IsIt(k) == (\A i \in 1..k : ~Collides(order, i)) /\ Ends(k)
<1>1. T \in SUBSET Nat /\ Len(order) \in T
  OBVIOUS
<1>2. PICK m \in T : \A k \in T : m <= k
  <2> HIDE DEF T
  <2> QED  BY <1>1, LeastNatural
<1>3. ASSUME NEW i \in 1..m
      PROVE  ~Collides(order, i)
  <2>1. i - 1 \in 0..Len(order) /\ i - 1 \notin T /\ i - 1 < Len(order) /\ (i - 1) + 1 = i
    BY <1>1, <1>2
  <2> QED  BY <2>1
<1>4. m \in 0..Len(order) /\ IsIt(m)
  BY <1>2, <1>3
<1> HIDE DEF IsIt
<1>5. PICK a : a = CHOOSE k \in 0..Len(order) : IsIt(k)
  OBVIOUS
<1>6. a \in 0..Len(order) /\ IsIt(a)
  BY <1>4, <1>5
<1>7. Accepted(order) = a
  BY <1>5 DEF Accepted, IsIt
<1> QED  BY <1>6, <1>7 DEF IsIt

\* The keys of the dictionary are the events of the calls.
LEMMA KeysFacts ==
    ASSUME NEW calls \in Seq(Calls)
    PROVE  /\ KeysInOrder(calls) \in Seq(Types)
           /\ ToSet(KeysInOrder(calls)) = EventsOf(calls)
<1> DEFINE events == [i \in DOMAIN calls |-> calls[i].event]
<1>1. /\ DOMAIN calls = 1..Len(calls) /\ Len(calls) \in Nat
      /\ \A i \in 1..Len(calls) : calls[i] \in Calls /\ calls[i].event \in Types
  <2>1. /\ DOMAIN calls = 1..Len(calls) /\ Len(calls) \in Nat
        /\ \A i \in 1..Len(calls) : calls[i] \in Calls
    OBVIOUS
  <2>2. \A x \in Calls : x.event \in Types
    BY DEF Calls
  <2> QED  BY <2>1, <2>2
<1>2. events \in Seq(Types) /\ ToSet(events) = EventsOf(calls)
  <2>1. events \in [1..Len(calls) -> Types]
    BY <1>1
  <2>2. events \in Seq(Types)
    BY <1>1, <2>1
  <2>3. ToSet(events) = EventsOf(calls)
    BY <1>1 DEF ToSet, EventsOf
  <2> QED  BY <2>2, <2>3
<1> HIDE DEF events
<1>3. /\ AppendNew(<<>>, events) \in Seq(Types)
      /\ ToSet(AppendNew(<<>>, events)) = ToSet(<<>>) \cup ToSet(events)
  <2>1. PICK none : none = <<>>
    OBVIOUS
  <2>2. none \in Seq(Types) /\ events \in Seq(Types)
    BY <1>2, <2>1
  <2>3. /\ AppendNew(none, events) \in Seq(Types)
        /\ ToSet(AppendNew(none, events)) = ToSet(none) \cup ToSet(events)
    <3> HIDE <2>1
    <3> QED  BY <2>2, AppendNewFacts
  <2> QED  BY <2>1, <2>3
<1>4. ToSet(<<>>) = {}
  BY DEF ToSet
<1> QED  BY <1>2, <1>3, <1>4 DEF KeysInOrder, events

\* A type comes after another of its name.
Clash(order, i) ==
    \E j \in 1..(i - 1) : order[j] # order[i] /\ EventKey[order[j]] = EventKey[order[i]]

\* The manager before its first Initialize, and after it: it holds all calls, and the
\* registry has the types up to the first that clashes.
Untouched == executors = <<>> /\ errorHandlers = {} /\ schemas = {} /\ typesByName = {}

Taken(order, k) ==
    /\ k \in 0..Len(order)
    /\ \A i \in 1..k : ~Clash(order, i)
    /\ k < Len(order) => Clash(order, k + 1)

RegisteredTo(k) ==
    LET order == KeysInOrder(executors)
    IN  /\ Taken(order, k)
        /\ schemas = {<<order[i], EventKey[order[i]]>> : i \in 1..k}
        /\ typesByName = {<<EventKey[order[i]], order[i]>> : i \in 1..k}

Filled ==
    /\ executors \in Seq(Calls)
    /\ ToSet(executors) = ToSet(FlattenSeq(todo))
    /\ errorHandlers = UNION {catches[p] : p \in Profiles}
    /\ \E k : RegisteredTo(k)

ProfileTypes ==
    /\ todo \in [Profiles -> Seq(Calls)]
    /\ catches \in [Profiles -> SUBSET (Types \X ErrorHandlers)]
    /\ \A p \in Profiles : IsFiniteSet(catches[p])

LEMMA CallsFacts ==
    ASSUME ProfileTypes
    PROVE  /\ FlattenSeq(todo) \in Seq(Calls)
           /\ \A p \in Profiles : Len(todo[p]) <= Len(FlattenSeq(todo))
BY FlattenSeqFacts, SubscriptionsAssumption DEF ProfileTypes, Profiles

\* A registry that is empty refuses a type exactly if it clashes.
LEMMA FirstAccepted ==
    ASSUME NEW order, Len(order) \in Nat, typesByName = {}
    PROVE  Taken(order, Accepted(order))
<1>1. \A i : Collides(order, i) <=> Clash(order, i)
  BY DEF Collides, Clash
<1> QED  BY <1>1, AcceptedFacts DEF Taken

\* A registry that holds the types up to k already takes them, and refuses the next.
LEMMA AcceptedAgain ==
    ASSUME NEW order, Len(order) \in Nat, NEW k, Taken(order, k),
           typesByName = {<<EventKey[order[i]], order[i]>> : i \in 1..k}
    PROVE  Accepted(order) = k
<1>0. /\ k \in 0..Len(order)
      /\ \A i \in 1..k : ~Clash(order, i)
      /\ k < Len(order) => Clash(order, k + 1)
  BY DEF Taken
<1>1. PICK a : a = Accepted(order)
  OBVIOUS
<1>2. /\ a \in 0..Len(order)
      /\ \A i \in 1..a : ~Collides(order, i)
      /\ a < Len(order) => Collides(order, a + 1)
  BY <1>1, AcceptedFacts
<1>3. ~(k < a)
  <2> SUFFICES ASSUME k < a PROVE FALSE
    OBVIOUS
  <2>1. k + 1 \in 1..a /\ k < Len(order)
    BY <1>0, <1>2
  <2>2. Clash(order, k + 1) /\ ~Collides(order, k + 1)
    BY <1>0, <1>2, <2>1
  <2> QED  BY <2>2 DEF Clash, Collides
<1>4. ~(a < k)
  <2> SUFFICES ASSUME a < k PROVE FALSE
    OBVIOUS
  <2>1. a + 1 \in 1..k /\ a < Len(order)
    BY <1>0, <1>2
  <2>2. ~Clash(order, a + 1) /\ Collides(order, a + 1)
    BY <1>0, <1>2, <2>1
  <2>3. PICK entry \in typesByName : entry[1] = EventKey[order[a + 1]] /\ entry[2] # order[a + 1]
    BY <2>2 DEF Clash, Collides
  <2>4. PICK i \in 1..k : entry = <<EventKey[order[i]], order[i]>>
    BY <2>3
  <2>5. EventKey[order[i]] = EventKey[order[a + 1]] /\ order[i] # order[a + 1]
    BY <2>3, <2>4
  <2>6. CASE i < a + 1
    <3>1. i \in 1..((a + 1) - 1)
      BY <1>0, <1>2, <2>6
    <3> QED  BY <2>2, <2>5, <3>1 DEF Clash
  <2>7. CASE a + 1 < i
    <3>1. a + 1 \in 1..(i - 1)
      BY <1>0, <1>2, <2>7
    <3>2. Clash(order, i)
      BY <2>5, <3>1 DEF Clash
    <3> QED  BY <1>0, <3>2
  <2>8. i # a + 1
    BY <2>5
  <2> QED  BY <1>0, <1>2, <2>6, <2>7, <2>8
<1> QED  BY <1>0, <1>1, <1>2, <1>3, <1>4

\* It refuses one exactly if two of all have one name.
LEMMA TakenAll ==
    ASSUME NEW order \in Seq(Types), NEW k, Taken(order, k)
    PROVE  k < Len(order) <=>
             \E t, u \in ToSet(order) : t # u /\ EventKey[t] = EventKey[u]
<1>0. /\ k \in 0..Len(order) /\ Len(order) \in Nat
      /\ \A i \in 1..k : ~Clash(order, i)
      /\ k < Len(order) => Clash(order, k + 1)
      /\ ToSet(order) = {order[i] : i \in 1..Len(order)}
  BY DEF Taken, ToSet
<1>1. ASSUME k < Len(order)
      PROVE  \E t, u \in ToSet(order) : t # u /\ EventKey[t] = EventKey[u]
  <2>1. PICK j \in 1..((k + 1) - 1) : /\ order[j] # order[k + 1]
                                      /\ EventKey[order[j]] = EventKey[order[k + 1]]
    BY <1>0, <1>1 DEF Clash
  <2>2. j \in 1..Len(order) /\ k + 1 \in 1..Len(order)
    BY <1>0, <1>1
  <2>3. order[j] \in ToSet(order) /\ order[k + 1] \in ToSet(order)
    BY <1>0, <2>2
  <2> QED  BY <2>1, <2>3
<1>2. ASSUME NEW t \in ToSet(order), NEW u \in ToSet(order), t # u, EventKey[t] = EventKey[u]
      PROVE  k < Len(order)
  <2>1. PICK i, j \in 1..Len(order) : t = order[i] /\ u = order[j]
    BY <1>0, <1>2
  <2>2. i # j
    BY <1>2, <2>1
  <2>3. CASE i < j
    <3>1. i \in 1..(j - 1)
      BY <1>0, <2>3
    <3>2. Clash(order, j)
      BY <1>2, <2>1, <3>1 DEF Clash
    <3> QED  BY <1>0, <3>2
  <2>4. CASE j < i
    <3>1. j \in 1..(i - 1)
      BY <1>0, <2>4
    <3>2. Clash(order, i)
      BY <1>2, <2>1, <3>1 DEF Clash
    <3> QED  BY <1>0, <3>2
  <2> QED  BY <1>0, <2>2, <2>3, <2>4
<1> QED  BY <1>1, <1>2

\* What Initialize leaves, when it is called first and when it is called again.
LEMMA InitializeStep ==
    ASSUME ProfileTypes, Untouched \/ Filled, Initialize, UNCHANGED profileVars
    PROVE  /\ Filled'
           /\ Filled => UNCHANGED managerVars
           /\ InitializeThrows <=> NamesCollide
<1> DEFINE calls == FlattenSeq(todo)
<1>1. calls \in Seq(Calls)
  BY CallsFacts
<1> HIDE DEF calls
<1>2. /\ Aggregated = AppendNew(executors, calls)
      /\ executors' = Aggregated
      /\ errorHandlers' = errorHandlers \cup UNION {catches[p] : p \in Profiles}
      /\ todo' = todo /\ catches' = catches
  BY DEF Aggregated, Initialize, profileVars, calls
<1>3. executors \in Seq(Calls) /\ (Untouched => ToSet(executors) = {}) /\ (Filled => ToSet(executors) = ToSet(calls))
  <2>1. CASE Untouched
    <3>1. executors = <<>> /\ ToSet(executors) = {}
      BY <2>1 DEF Untouched, ToSet
    <3>2. executors \in Seq(Calls)
      BY <3>1
    <3>3. Filled => ToSet(executors) = ToSet(calls)
      BY DEF Filled, calls
    <3> QED  BY <3>1, <3>2, <3>3
  <2>2. CASE Filled
    <3>1. Untouched => ToSet(executors) = {}
      BY DEF Untouched, ToSet
    <3> QED  BY <2>2, <3>1 DEF Filled, calls
  <2> QED  BY <2>1, <2>2
<1>4. /\ Aggregated \in Seq(Calls)
      /\ ToSet(Aggregated) = ToSet(calls)
      /\ Filled => Aggregated = executors
  <2>1. /\ AppendNew(executors, calls) \in Seq(Calls)
        /\ ToSet(AppendNew(executors, calls)) = ToSet(executors) \cup ToSet(calls)
        /\ ToSet(calls) \subseteq ToSet(executors) => AppendNew(executors, calls) = executors
    BY <1>1, <1>3, AppendNewFacts
  <2> QED  BY <1>2, <1>3, <2>1
<1>5. PICK order : order = KeysInOrder(Aggregated)
  OBVIOUS
<1>6. order \in Seq(Types) /\ Len(order) \in Nat /\ ToSet(order) = EventsOf(Aggregated)
  <2>1. order \in Seq(Types) /\ ToSet(order) = EventsOf(Aggregated)
    BY <1>4, <1>5, KeysFacts
  <2> QED  BY <2>1
<1>7. PICK k : k = Accepted(order)
  OBVIOUS
<1>8. /\ schemas' = schemas \cup {<<order[i], EventKey[order[i]]>> : i \in 1..k}
      /\ typesByName' = typesByName \cup {<<EventKey[order[i]], order[i]>> : i \in 1..k}
  BY <1>5, <1>7 DEF Initialize, RegisterAll
<1>9. /\ Taken(order, k)
      /\ schemas' = {<<order[i], EventKey[order[i]]>> : i \in 1..k}
      /\ typesByName' = {<<EventKey[order[i]], order[i]>> : i \in 1..k}
      /\ errorHandlers' = UNION {catches[p] : p \in Profiles}
      /\ Filled => schemas' = schemas /\ typesByName' = typesByName /\ errorHandlers' = errorHandlers
  <2>1. CASE Filled
    <3>1. order = KeysInOrder(executors)
      BY <1>4, <1>5, <2>1
    <3>2. PICK l : /\ Taken(order, l)
                   /\ schemas = {<<order[i], EventKey[order[i]]>> : i \in 1..l}
                   /\ typesByName = {<<EventKey[order[i]], order[i]>> : i \in 1..l}
      BY <2>1, <3>1 DEF Filled, RegisteredTo
    <3>3. k = l
      BY <1>6, <1>7, <3>2, AcceptedAgain
    <3>4. errorHandlers' = errorHandlers /\ errorHandlers = UNION {catches[p] : p \in Profiles}
      BY <1>2, <2>1 DEF Filled
    <3> QED  BY <1>8, <3>2, <3>3, <3>4
  <2>2. CASE Untouched /\ ~Filled
    <3>1. schemas = {} /\ typesByName = {} /\ errorHandlers = {}
      BY <2>2 DEF Untouched
    <3>2. Taken(order, k)
      BY <1>6, <1>7, <3>1, FirstAccepted
    <3> QED  BY <1>2, <1>8, <2>2, <3>1, <3>2
  <2> QED  BY <2>1, <2>2
<1>10. Filled'
  <2>1. RegisteredTo(k)'
    BY <1>2, <1>5, <1>9 DEF RegisteredTo
  <2>2. /\ executors' \in Seq(Calls)
        /\ ToSet(executors') = ToSet(FlattenSeq(todo'))
        /\ errorHandlers' = UNION {catches'[p] : p \in Profiles}
    BY <1>2, <1>4, <1>9 DEF calls
  <2> QED  BY <2>1, <2>2 DEF Filled
<1>11. Filled => UNCHANGED managerVars
  BY <1>2, <1>4, <1>9 DEF managerVars
<1>12. InitializeThrows <=> NamesCollide
  <2>1. InitializeThrows <=> k < Len(order)
    BY <1>5, <1>7 DEF InitializeThrows
  <2>2. NamesCollide <=> \E t, u \in ToSet(order) : t # u /\ EventKey[t] = EventKey[u]
    BY <1>4, <1>6 DEF NamesCollide, EventsOf, calls
  <2> QED  BY <1>6, <1>9, <2>1, <2>2, TakenAll
<1> QED  BY <1>10, <1>11, <1>12

-----------------------------------------------------------------------------
(* The manager *)

LEMMA ProfileTypesInitially == Init => ProfileTypes
<1> SUFFICES ASSUME Init PROVE ProfileTypes
  OBVIOUS
<1>1. todo = [p \in Profiles |-> <<>>] /\ catches = [p \in Profiles |-> {}]
  BY DEF Init
<1>2. <<>> \in Seq(Calls) /\ IsFiniteSet({})
  BY FS_EmptySet
<1> QED  BY <1>1, <1>2 DEF ProfileTypes

\* The bound on the calls bounds the numbers of the executors.
LEMMA RoomForCall ==
    ASSUME ProfileTypes, CallCount < MaxCalls, NEW p \in Profiles
    PROVE  Len(todo[p]) + 1 \in 1..MaxCalls
<1> DEFINE all == UNION {catches[q] : q \in Profiles}
<1>2. IsFiniteSet({catches[q] : q \in Profiles})
  <2> DEFINE f == [q \in 1..ProfileCount |-> catches[q]]
  <2>1. f \in Surjection(1..ProfileCount, {catches[q] : q \in Profiles})
    BY DEF Surjection, Profiles
  <2> HIDE DEF f
  <2> QED  BY <2>1, FS_NatSurjection, SubscriptionsAssumption DEF ExistsSurjection
<1>3. IsFiniteSet(all)
  BY <1>2, FS_UNION DEF ProfileTypes
<1> HIDE DEF all
<1>4. Cardinality(all) \in Nat
  BY <1>3, FS_CardinalityType
<1>5. Len(FlattenSeq(todo)) + Cardinality(all) < MaxCalls
  BY DEF CallCount, all
<1>6. /\ FlattenSeq(todo) \in Seq(Calls)
      /\ Len(todo[p]) <= Len(FlattenSeq(todo))
  BY CallsFacts
<1>7. PICK n \in Nat : n = Len(FlattenSeq(todo))
  BY <1>6
<1>8. PICK m \in Nat : m = Len(todo[p])
  <2>1. todo[p] \in Seq(Calls)
    BY DEF ProfileTypes
  <2> QED  BY <2>1
<1> QED  BY <1>4, <1>5, <1>6, <1>7, <1>8, SubscriptionsAssumption

LEMMA ProfileTypesInductive == ProfileTypes /\ [Next]_vars => ProfileTypes'
<1> SUFFICES ASSUME ProfileTypes, [Next]_vars PROVE ProfileTypes'
  OBVIOUS
<1>1. CASE UNCHANGED profileVars
  BY <1>1 DEF profileVars, ProfileTypes
<1>2. ASSUME NEW p \in Profiles, NEW t \in Types, NEW h \in Handlers, ToDo(p, t, h)
      PROVE  ProfileTypes'
  <2> DEFINE call == [profile |-> p, call |-> Len(todo[p]) + 1, event |-> t, handler |-> h]
  <2>1. call \in Calls
    <3>1. Len(todo[p]) + 1 \in 1..MaxCalls
      BY <1>2, RoomForCall DEF ToDo
    <3> QED  BY <3>1 DEF Calls
  <2> HIDE DEF call
  <2>2. todo' = [todo EXCEPT ![p] = Append(todo[p], call)] /\ catches' = catches
    BY <1>2 DEF ToDo, call
  <2>3. Append(todo[p], call) \in Seq(Calls)
    BY <2>1 DEF ProfileTypes
  <2> QED  BY <2>2, <2>3 DEF ProfileTypes
<1>3. ASSUME NEW p \in Profiles, NEW t \in Types, NEW x \in ErrorHandlers, CatchExceptionToDo(p, t, x)
      PROVE  ProfileTypes'
  <2>1. catches' = [catches EXCEPT ![p] = catches[p] \cup {<<t, x>>}] /\ todo' = todo
    BY <1>3 DEF CatchExceptionToDo
  <2>2. IsFiniteSet(catches[p] \cup {<<t, x>>})
    BY FS_AddElement DEF ProfileTypes
  <2> QED  BY <2>1, <2>2 DEF ProfileTypes
<1> QED  BY <1>1, <1>2, <1>3
         DEF Next, vars, profileVars, CatchExceptionTwice, ProfilesResolved, InitializeManager,
             SubscribeAsync, AttachConsumer, CreateInvoker, Generate, PrepareXmlComments,
             PrepareEnds, PrepareThrows, BuildDocument

\* A step initializes the manager or leaves it alone; the profiles make their calls
\* before anything is initialized.
Initializes ==
    /\ Initialize
    /\ UNCHANGED profileVars
    /\ boot # "configuring" /\ boot' # "configuring"

LeavesManager ==
    /\ UNCHANGED managerVars
    /\ UNCHANGED profileVars \/ boot = "configuring"
    /\ boot' = "configuring" => boot = "configuring"

LEMMA StepKinds == [Next]_vars => Initializes \/ LeavesManager
<1> SUFFICES ASSUME [Next]_vars PROVE Initializes \/ LeavesManager
  OBVIOUS
<1>1. CASE InitializeManager
  BY <1>1 DEF InitializeManager, Initializes
<1>2. ASSUME NEW r \in Requests, Generate(r)
      PROVE  Initializes
  BY <1>2 DEF Generate, Initializes, Resolvable, hostVars
<1>3. CASE UNCHANGED vars
  <2>1. UNCHANGED <<managerVars, profileVars, boot>>
    BY <1>3 DEF vars, managerVars, profileVars
  <2> QED  BY <2>1 DEF LeavesManager
<1>4. CASE Next /\ ~InitializeManager /\ ~\E r \in Requests : Generate(r)
  BY <1>4 DEF LeavesManager, Next, profileVars, hostVars, ToDo, CatchExceptionToDo,
              CatchExceptionTwice, ProfilesResolved, SubscribeAsync, AttachConsumer, CreateInvoker,
              PrepareXmlComments, PrepareEnds, PrepareThrows, BuildDocument
<1> QED  BY <1>1, <1>2, <1>3, <1>4

ManagerInv ==
    /\ ProfileTypes
    /\ boot = "configuring" => Untouched
    /\ Untouched \/ Filled

LEMMA ManagerInitially == Init => ManagerInv
BY ProfileTypesInitially DEF Init, ManagerInv, Untouched

LEMMA ManagerInductive == ManagerInv /\ [Next]_vars => ManagerInv'
<1> SUFFICES ASSUME ManagerInv, [Next]_vars PROVE ManagerInv'
  OBVIOUS
<1>1. ProfileTypes'
  BY ProfileTypesInductive DEF ManagerInv
<1>2. CASE Initializes
  <2>1. Filled'
    BY <1>2, InitializeStep DEF Initializes, ManagerInv
  <2> QED  BY <1>1, <1>2, <2>1 DEF Initializes, ManagerInv
<1>3. CASE LeavesManager
  <2>1. Untouched => Untouched'
    BY <1>3 DEF LeavesManager, managerVars, Untouched
  <2>2. ASSUME UNCHANGED profileVars, Filled
        PROVE  Filled'
    BY <1>3, <2>2 DEF LeavesManager, managerVars, profileVars, Filled, RegisteredTo
  <2> QED  BY <1>1, <1>3, <2>1, <2>2 DEF LeavesManager, ManagerInv
<1> QED  BY <1>2, <1>3, StepKinds

\* Once the profiles have made their calls they stay, and so does a filled manager.
LEMMA Settled ==
    ASSUME ManagerInv, [Next]_vars, boot # "configuring"
    PROVE  /\ UNCHANGED profileVars
           /\ NamesCollide' <=> NamesCollide
           /\ Filled => UNCHANGED managerVars /\ Filled'
<1>1. UNCHANGED profileVars
  BY StepKinds DEF Initializes, LeavesManager
<1>2. NamesCollide' <=> NamesCollide
  BY <1>1 DEF NamesCollide, profileVars
<1>3. ASSUME Filled
      PROVE  UNCHANGED managerVars
  <2>1. CASE Initializes
    BY <1>3, <2>1, InitializeStep DEF Initializes, ManagerInv
  <2> QED  BY <2>1, StepKinds DEF LeavesManager
<1>4. ASSUME Filled
      PROVE  Filled'
  BY <1>1, <1>3, <1>4 DEF managerVars, profileVars, Filled, RegisteredTo
<1> QED  BY <1>1, <1>2, <1>3, <1>4

\* What is initialized before stays as it is, whoever calls Initialize again: a second
\* call of SubscriptionProfileManager.Initialize adds nothing and registers nothing.
THEOREM InitializedOnceAlways == Spec => InitializedOnce
<1>1. ASSUME ManagerInv, [Next]_vars, executors # <<>>
      PROVE  executors' = executors /\ errorHandlers' = errorHandlers
                /\ schemas' = schemas /\ typesByName' = typesByName
  <2>1. boot # "configuring" /\ Filled
    BY <1>1 DEF ManagerInv, Untouched
  <2>2. UNCHANGED managerVars
    BY <1>1, <2>1, Settled
  <2> QED  BY <2>2 DEF managerVars
<1>2. ManagerInv /\ [Next]_vars =>
        [executors # <<>> =>
            executors' = executors /\ errorHandlers' = errorHandlers
               /\ schemas' = schemas /\ typesByName' = typesByName]_vars
  BY <1>1
<1> QED  BY <1>2, ManagerInitially, ManagerInductive, PTL DEF Spec, InitializedOnce

-----------------------------------------------------------------------------
(* The host *)

HostInv ==
    /\ boot \in {"configuring", "configured", "initialized", "subscribed", "attached",
                 "unresolved", "failed"}
    /\ boot \in {"initialized", "subscribed", "attached"} => Filled /\ ~NamesCollide
    /\ boot = "failed" => NamesCollide
    /\ subscribed = IF boot \in {"subscribed", "attached"}
                    THEN {EventKey[t] : t \in EventsOf(executors)} ELSE {}
    /\ cache # NotBuilt => boot = "attached" /\ cache = CachedKeys

LEMMA HostInitially == Init => HostInv
BY DEF Init, HostInv

LEMMA HostInductive == ManagerInv /\ NamesRight /\ HostInv /\ [Next]_vars => HostInv'
<1> SUFFICES ASSUME ManagerInv, NamesRight, HostInv, [Next]_vars PROVE HostInv'
  OBVIOUS
<1>1. CASE UNCHANGED hostVars
  <2>1. CASE boot \in {"initialized", "subscribed", "attached"}
    <3>1. Filled /\ ~NamesCollide
      BY <2>1 DEF HostInv
    <3>2. UNCHANGED managerVars /\ Filled' /\ ~NamesCollide'
      BY <2>1, <3>1, Settled
    <3> QED  BY <1>1, <2>1, <3>2 DEF HostInv, hostVars, managerVars, EventsOf, CachedKeys
  <2>2. CASE boot = "failed"
    <3>1. NamesCollide'
      BY <2>2, Settled DEF HostInv
    <3> QED  BY <1>1, <2>2, <3>1 DEF HostInv, hostVars
  <2>3. CASE boot \notin {"initialized", "subscribed", "attached", "failed"}
    BY <1>1, <2>3 DEF HostInv, hostVars
  <2> QED  BY <2>1, <2>2, <2>3
<1>2. ASSUME NEW p \in Profiles, NEW t \in Types, NEW x \in ErrorHandlers, CatchExceptionTwice(p, t, x)
      PROVE  HostInv'
  BY <1>2 DEF CatchExceptionTwice, HostInv
<1>3. CASE ProfilesResolved
  BY <1>3 DEF ProfilesResolved, HostInv
<1>4. CASE InitializeManager
  <2>1. Filled' /\ (InitializeThrows <=> NamesCollide)
    BY <1>4, InitializeStep DEF InitializeManager, ManagerInv
  <2>2. NamesCollide' <=> NamesCollide
    BY <1>4, Settled DEF InitializeManager
  <2>3. /\ boot = "configured" /\ boot' \in {"failed", "initialized"}
        /\ boot' = "failed" <=> InitializeThrows
        /\ subscribed' = subscribed /\ cache' = cache
    BY <1>4 DEF InitializeManager
  <2> QED  BY <2>1, <2>2, <2>3 DEF HostInv
<1>5. CASE SubscribeAsync \/ AttachConsumer \/ CreateInvoker
  <2>1. boot \in {"initialized", "subscribed", "attached"}
    BY <1>5 DEF SubscribeAsync, AttachConsumer, CreateInvoker
  <2>2. Filled /\ ~NamesCollide
    BY <2>1 DEF HostInv
  <2>3. UNCHANGED managerVars /\ Filled' /\ ~NamesCollide'
    BY <2>1, <2>2, Settled
  <2>4. /\ EventsOf(executors') = EventsOf(executors)
        /\ CachedKeys' = CachedKeys
    BY <2>3 DEF managerVars, EventsOf, CachedKeys
  <2>5. CASE SubscribeAsync
    <3>1. subscribed' = {EventKey[t] : t \in EventsOf(executors)}
      <4>1. \A t \in EventsOf(executors) : t \in Types
        <5>1. \A x \in Calls : x.event \in Types
          BY DEF Calls
        <5>2. ToSet(executors) \subseteq Calls
          BY <2>2 DEF Filled, ToSet
        <5> QED  BY <5>1, <5>2 DEF EventsOf
      <4>2. \A t \in EventsOf(executors) : GetEventName(t) = EventKey[t]
        BY <4>1, NameIsKey DEF OneName
      <4> QED  BY <2>5, <4>2 DEF SubscribeAsync
    <3> QED  BY <2>3, <2>4, <2>5, <3>1 DEF HostInv, SubscribeAsync
  <2>6. CASE AttachConsumer
    BY <2>3, <2>4, <2>6 DEF HostInv, AttachConsumer
  <2>7. CASE CreateInvoker
    BY <2>3, <2>4, <2>7 DEF HostInv, CreateInvoker
  <2> QED  BY <1>5, <2>5, <2>6, <2>7
<1>6. CASE UNCHANGED vars
  BY <1>1, <1>6 DEF vars, hostVars
<1> QED  BY <1>1, <1>2, <1>3, <1>4, <1>5, <1>6
         DEF Next, ToDo, CatchExceptionToDo, Generate, PrepareXmlComments, PrepareEnds,
             PrepareThrows, BuildDocument

LEMMA HostAlways == Spec => [](ManagerInv /\ NamesRight /\ HostInv)
<1>1. Init => NamesRight
  BY DEF Init, NamesRight
<1> QED  BY <1>1, ManagerInitially, ManagerInductive, NamesRightInductive, HostInitially, HostInductive,
            PTL DEF Spec

\* The host fails to start exactly when two subscribed types have one name, whatever
\* an earlier Initialize, from a document, has put into the registry (Register throws).
THEOREM HostFailsOnlyOnCollisionAlways == Spec => []HostFailsOnlyOnCollision
<1>1. HostInv => HostFailsOnlyOnCollision
  BY DEF HostInv, HostFailsOnlyOnCollision
<1> QED  BY <1>1, HostAlways, PTL

\* In a registry that has taken all types, a name leads to the one type that has it.
LEMMA NameLeadsToType ==
    ASSUME Filled, ~NamesCollide, NEW t \in EventsOf(executors)
    PROVE  GetEventType(EventKey[t]) = {t}
<1>1. PICK order : order = KeysInOrder(executors)
  OBVIOUS
<1>2. order \in Seq(Types) /\ ToSet(order) = EventsOf(executors)
  BY <1>1, KeysFacts DEF Filled
<1>3. PICK k : /\ Taken(order, k)
               /\ typesByName = {<<EventKey[order[i]], order[i]>> : i \in 1..k}
  BY <1>1 DEF Filled, RegisteredTo
<1>4. \A u, v \in ToSet(order) : EventKey[u] = EventKey[v] => u = v
  BY <1>2 DEF NamesCollide, EventsOf, Filled
<1>5. k = Len(order)
  <2>1. ~(k < Len(order))
    BY <1>2, <1>3, <1>4, TakenAll
  <2> QED  BY <1>2, <1>3, <2>1 DEF Taken
<1>6. ToSet(order) = {order[i] : i \in 1..k}
  BY <1>2, <1>5 DEF ToSet
<1>7. GetEventType(EventKey[t]) = {entry[2] : entry \in {x \in typesByName : x[1] = EventKey[t]}}
  BY DEF GetEventType
<1>8. \A u : u \in GetEventType(EventKey[t]) <=> \E i \in 1..k : order[i] = u /\ EventKey[order[i]] = EventKey[t]
  <2>1. ASSUME NEW u \in GetEventType(EventKey[t])
        PROVE  \E i \in 1..k : order[i] = u /\ EventKey[order[i]] = EventKey[t]
    <3>1. PICK entry \in typesByName : entry[1] = EventKey[t] /\ entry[2] = u
      BY <1>7, <2>1
    <3>2. PICK i \in 1..k : entry = <<EventKey[order[i]], order[i]>>
      BY <1>3, <3>1
    <3> QED  BY <3>1, <3>2
  <2>2. ASSUME NEW i \in 1..k, EventKey[order[i]] = EventKey[t]
        PROVE  order[i] \in GetEventType(EventKey[t])
    <3>1. PICK entry : entry = <<EventKey[order[i]], order[i]>>
      OBVIOUS
    <3>2. entry \in typesByName /\ entry[1] = EventKey[t] /\ entry[2] = order[i]
      BY <1>3, <2>2, <3>1
    <3> QED  BY <1>7, <3>2
  <2> QED  BY <2>1, <2>2
<1>9. \A u : u \in GetEventType(EventKey[t]) <=> u = t
  BY <1>2, <1>4, <1>6, <1>8
<1> QED  BY <1>9

\* Every event of a subscribed name finds its type, the executors of its type, and their
\* delegates (SubscribeAsync, GetEventType, the constructor of EventHandlerInvoker).
THEOREM DispatchFindsHandlersAlways == Spec => []DispatchFindsHandlers
<1>1. ASSUME HostInv, boot = "attached", NEW n \in subscribed
      PROVE  \E t \in Types :
                /\ GetEventType(n) = {t}
                /\ t \in EventsOf(executors)
                /\ \A x \in ToSet(FlattenSeq(todo)) :
                      x.event = t => /\ Contains(executors, x)
                                     /\ cache # NotBuilt => <<t, x.handler>> \in cache
  <2>1. /\ Filled /\ ~NamesCollide
        /\ subscribed = {EventKey[t] : t \in EventsOf(executors)}
        /\ cache # NotBuilt => cache = CachedKeys
    BY <1>1 DEF HostInv
  <2>2. PICK t \in EventsOf(executors) : n = EventKey[t]
    BY <2>1
  <2>3. t \in Types
    <3>1. \A x \in Calls : x.event \in Types
      BY DEF Calls
    <3>2. ToSet(executors) \subseteq Calls
      BY <2>1 DEF Filled, ToSet
    <3> QED  BY <3>1, <3>2 DEF EventsOf
  <2>4. GetEventType(n) = {t}
    BY <2>1, <2>2, NameLeadsToType
  <2>5. ASSUME NEW x \in ToSet(FlattenSeq(todo)), x.event = t
        PROVE  Contains(executors, x) /\ (cache # NotBuilt => <<t, x.handler>> \in cache)
    <3>1. x \in ToSet(executors)
      BY <2>1 DEF Filled
    <3>2. Contains(executors, x)
      BY <2>1, <3>1 DEF Filled, Contains, ToSet
    <3>3. <<t, x.handler>> \in CachedKeys
      BY <2>5, <3>1 DEF CachedKeys
    <3> QED  BY <2>1, <3>2, <3>3
  <2> QED  BY <2>3, <2>4, <2>5
<1>2. HostInv => DispatchFindsHandlers
  BY <1>1 DEF DispatchFindsHandlers
<1> QED  BY <1>2, HostAlways, PTL

-----------------------------------------------------------------------------
(* The document *)

\* Of the keys of one short name the last.
LastOfName(keys) ==
    {<<TypeName[keys[i]], keys[i]>> : i \in
        {i \in DOMAIN keys : \A j \in (i + 1)..Len(keys) : TypeName[keys[j]] # TypeName[keys[i]]}}

\* The document of the executors, its descriptions apart.
Describes(doc) ==
    /\ doc.channels = {<<EventKey[t], TypeName[t]>> : t \in EventsOf(executors)}
    /\ doc.operations = {<<EventKey[t], HandlersOf(executors, t)>> : t \in EventsOf(executors)}
    /\ doc.schemas = LastOfName(KeysInOrder(executors))

RequestInv(r) ==
    /\ request[r] # "idle" => boot # "configuring"
    /\ request[r] \in {"unprepared", "preparing", "building", "done"} => Filled /\ ~NamesCollide
    /\ request[r] = "done" => Describes(document[r])
    /\ request[r] = "threw" => broken \/ NamesCollide

DocumentInv == \A r \in Requests : RequestInv(r)

LEMMA DocumentInitially == Init => DocumentInv
BY DEF Init, DocumentInv, RequestInv

\* What is true of a request stays true while others go on.
LEMMA RequestKept ==
    ASSUME ManagerInv, [Next]_vars, NEW r \in Requests, RequestInv(r),
           request'[r] = request[r], document'[r] = document[r], broken' = broken \/ broken' = TRUE
    PROVE  RequestInv(r)'
<1>1. CASE request[r] = "idle"
  BY <1>1 DEF RequestInv
<1>2. CASE request[r] # "idle"
  <2>1. boot # "configuring" /\ boot' # "configuring"
    BY <1>2, StepKinds DEF RequestInv, Initializes, LeavesManager
  <2>2. /\ NamesCollide' <=> NamesCollide
        /\ Filled => UNCHANGED managerVars /\ Filled'
    BY <2>1, Settled
  <2>3. ASSUME Filled, Describes(document[r])
        PROVE  Describes(document[r])'
    BY <2>2, <2>3 DEF managerVars, Describes, EventsOf, HandlersOf
  <2> QED  BY <2>1, <2>2, <2>3 DEF RequestInv
<1> QED  BY <1>1, <1>2

\* A step of one request leaves the others where they are.
LEMMA OthersKept ==
    ASSUME ManagerInv, [Next]_vars, Preparation, DocumentInv, NEW r \in Requests,
           \E next : request' = [request EXCEPT ![r] = next],
           document' = document \/ \E new : document' = [document EXCEPT ![r] = new],
           broken' = broken \/ broken' = TRUE,
           RequestInv(r)'
    PROVE  DocumentInv'
<1>1. ASSUME NEW s \in Requests, s # r
      PROVE  RequestInv(s)'
  <2>1. request'[s] = request[s] /\ document'[s] = document[s]
    BY <1>1 DEF Preparation
  <2>2. RequestInv(s)
    BY DEF DocumentInv
  <2> QED  BY <2>1, <2>2, RequestKept
<1> QED  BY <1>1 DEF DocumentInv

LEMMA DocumentInductive ==
    ManagerInv /\ NamesRight /\ Preparation /\ DocumentInv /\ [Next]_vars => DocumentInv'
<1> SUFFICES ASSUME ManagerInv, NamesRight, Preparation, DocumentInv, [Next]_vars PROVE DocumentInv'
  OBVIOUS
<1>1. CASE UNCHANGED generatorVars
  <2>1. request' = request /\ document' = document /\ broken' = broken
    BY <1>1 DEF generatorVars
  <2>2. ASSUME NEW r \in Requests
        PROVE  RequestInv(r)'
    <3>1. RequestInv(r)
      BY DEF DocumentInv
    <3> QED  BY <2>1, <3>1, RequestKept
  <2> QED  BY <2>2 DEF DocumentInv
<1>2. ASSUME NEW r \in Requests, Generate(r)
      PROVE  DocumentInv'
  <2>1. Filled' /\ (InitializeThrows <=> NamesCollide)
    BY <1>2, InitializeStep DEF Generate, ManagerInv
  <2>2. boot # "configuring" /\ boot' = boot
    BY <1>2 DEF Generate, Resolvable, hostVars
  <2>3. NamesCollide' <=> NamesCollide
    BY <2>2, Settled
  <2>4. PICK next \in {"unprepared", "building", "threw"} :
           /\ request' = [request EXCEPT ![r] = next]
           /\ next = "threw" <=> InitializeThrows
    <3>1. CASE InitializeThrows
      BY <1>2, <3>1 DEF Generate
    <3>2. CASE ~InitializeThrows
      BY <1>2, <3>2 DEF Generate
    <3> QED  BY <3>1, <3>2
  <2>5. document' = [document EXCEPT ![r] = NoDocument] /\ broken' = broken
    BY <1>2 DEF Generate
  <2>6. request'[r] = next
    BY <2>4 DEF Preparation
  <2>7. RequestInv(r)'
    BY <2>1, <2>2, <2>3, <2>4, <2>6 DEF RequestInv
  <2> QED  BY <2>4, <2>5, <2>7, OthersKept
<1>3. ASSUME NEW r \in Requests, PrepareXmlComments(r) \/ PrepareEnds(r) \/ PrepareThrows(r) \/ BuildDocument(r)
      PROVE  DocumentInv'
  <2>1. /\ request[r] \in {"unprepared", "preparing", "building"}
        /\ UNCHANGED <<managerVars, hostVars, profileVars>>
    BY <1>3 DEF PrepareXmlComments, PrepareEnds, PrepareThrows, BuildDocument
  <2>2. boot # "configuring" /\ Filled /\ ~NamesCollide
    BY <2>1 DEF DocumentInv, RequestInv
  <2>3. boot' # "configuring" /\ Filled' /\ ~NamesCollide'
    BY <2>1, <2>2, Settled DEF hostVars
  <2>4. CASE PrepareXmlComments(r) \/ PrepareEnds(r)
    <3>1. PICK next \in {"preparing", "building"} : request' = [request EXCEPT ![r] = next]
      BY <2>4 DEF PrepareXmlComments, PrepareEnds
    <3>2. request'[r] = next
      BY <3>1 DEF Preparation
    <3>3. RequestInv(r)'
      BY <2>3, <3>2 DEF RequestInv
    <3>4. document' = document /\ broken' = broken
      BY <2>4 DEF PrepareXmlComments, PrepareEnds
    <3> QED  BY <3>1, <3>3, <3>4, OthersKept
  <2>5. CASE PrepareThrows(r)
    <3>1. request' = [request EXCEPT ![r] = "threw"] /\ document' = document /\ broken' = TRUE
      BY <2>5 DEF PrepareThrows
    <3>2. request'[r] = "threw"
      BY <3>1 DEF Preparation
    <3>3. RequestInv(r)'
      BY <2>3, <3>1, <3>2 DEF RequestInv
    <3> QED  BY <3>1, <3>3, OthersKept
  <2>6. CASE BuildDocument(r)
    <3> DEFINE keys == KeysInOrder(executors)
               new == [channels   |-> {<<GetEventName(t), TypeName[t]>> : t \in ToSet(keys)},
                       operations |-> {<<GetEventName(t), HandlersOf(executors, t)>> : t \in ToSet(keys)},
                       schemas    |-> LastOfName(keys),
                       described  |-> Described]
    <3>1. /\ document' = [document EXCEPT ![r] = new]
          /\ request' = [request EXCEPT ![r] = "done"]
          /\ broken' = broken
      BY <2>6 DEF BuildDocument, LastOfName
    <3>2. ToSet(keys) = EventsOf(executors) /\ \A t \in ToSet(keys) : t \in Types
      <4>1. keys \in Seq(Types) /\ ToSet(keys) = EventsOf(executors)
        BY <2>2, KeysFacts DEF Filled
      <4> HIDE DEF keys
      <4> QED  BY <4>1 DEF ToSet
    <3>3. \A t \in ToSet(keys) : GetEventName(t) = EventKey[t]
      BY <3>2, NameIsKey DEF OneName
    <3>4. Describes(new)
      BY <3>2, <3>3 DEF Describes
    <3> HIDE DEF new
    <3>5. document'[r] = new /\ request'[r] = "done"
      BY <3>1 DEF Preparation
    <3>6. Describes(document[r])'
      BY <2>1, <3>4, <3>5 DEF managerVars, Describes, EventsOf, HandlersOf
    <3>7. RequestInv(r)'
      BY <2>3, <3>5, <3>6 DEF RequestInv
    <3> QED  BY <3>1, <3>7, OthersKept
  <2> QED  BY <1>3, <2>4, <2>5, <2>6
<1>4. CASE UNCHANGED vars
  BY <1>1, <1>4 DEF vars, generatorVars
<1> QED  BY <1>1, <1>2, <1>3, <1>4
         DEF Next, ToDo, CatchExceptionToDo, CatchExceptionTwice, ProfilesResolved, InitializeManager,
             SubscribeAsync, AttachConsumer, CreateInvoker

LEMMA DocumentAlways == Spec => [](ManagerInv /\ Preparation /\ DocumentInv)
<1>1. Init => NamesRight
  BY DEF Init, NamesRight
<1> QED  BY <1>1, ManagerInitially, ManagerInductive, NamesRightInductive, PreparationInitially,
            PreparationInductive, DocumentInitially, DocumentInductive, PTL DEF Spec

\* The provider's document is the one any other finished request has got, whatever the
\* host was doing; and it keeps an exception only for a collision or an unreadable file
\* (the Lazy of FluentEventBusDocumentProvider).
THEOREM ProviderServesCurrentAlways == Spec => []ProviderServesCurrent
<1>1. ASSUME DocumentInv, NEW r \in Requests, request[r] = "done", request[Provider] = "done"
      PROVE  \A part \in {"channels", "operations", "schemas"} :
                document[r][part] = document[Provider][part]
  <2>1. Describes(document[r]) /\ Describes(document[Provider])
    BY <1>1, SubscriptionsAssumption DEF DocumentInv, RequestInv
  <2> QED  BY <2>1 DEF Describes
<1>2. ASSUME DocumentInv, request[Provider] = "threw"
      PROVE  broken \/ NamesCollide
  BY <1>2, SubscriptionsAssumption DEF DocumentInv, RequestInv
<1>3. DocumentInv => ProviderServesCurrent
  BY <1>1, <1>2 DEF ProviderServesCurrent
<1> QED  BY <1>3, DocumentAlways, PTL

\* Among the last keys of their short names there is one for every short name of a key.
LEMMA LastOfNameFacts ==
    ASSUME NEW keys \in Seq(Types), NEW t \in ToSet(keys)
    PROVE  /\ Cardinality({s \in LastOfName(keys) : s[1] = TypeName[t]}) = 1
           /\ (\A u \in ToSet(keys) \ {t} : TypeName[u] # TypeName[t])
                 => <<TypeName[t], t>> \in LastOfName(keys)
<1> DEFINE n == Len(keys)
           Same == {i \in 1..n : TypeName[keys[i]] = TypeName[t]}
           Back == {n - i : i \in Same}
<1>1. n \in Nat /\ DOMAIN keys = 1..n /\ ToSet(keys) = {keys[i] : i \in 1..n}
  BY DEF ToSet
<1>2. PICK last \in Same : \A j \in Same : j <= last
  <2>1. PICK i \in 1..n : keys[i] = t
    BY <1>1
  <2>2. n - i \in Back
    BY <2>1
  <2>3. Back \in SUBSET Nat
    BY <1>1
  <2>4. PICK m \in Back : \A k \in Back : m <= k
    <3> HIDE DEF Back
    <3> QED  BY <2>2, <2>3, LeastNatural
  <2>5. PICK last \in Same : m = n - last
    BY <2>4
  <2>6. ASSUME NEW j \in Same
        PROVE  j <= last
    <3>1. n - j \in Back
      OBVIOUS
    <3>2. m <= n - j
      BY <2>4, <3>1
    <3> QED  BY <1>1, <2>5, <3>2
  <2> QED  BY <2>6
<1>3. last \in 1..n /\ TypeName[keys[last]] = TypeName[t] /\ keys[last] \in ToSet(keys)
  BY <1>1
<1>4. ASSUME NEW i \in 1..n
      PROVE  (\A j \in (i + 1)..n : TypeName[keys[j]] # TypeName[keys[i]]) /\ TypeName[keys[i]] = TypeName[t]
                <=> i = last
  <2>1. ASSUME i = last, NEW j \in (i + 1)..n
        PROVE  TypeName[keys[j]] # TypeName[keys[i]]
    <3>1. j \in 1..n /\ ~(j <= last)
      BY <1>1, <1>3, <2>1
    <3>2. j \notin Same
      BY <1>2, <3>1
    <3> QED  BY <1>3, <2>1, <3>1, <3>2
  <2>2. ASSUME TypeName[keys[i]] = TypeName[t], i # last
        PROVE  \E j \in (i + 1)..n : TypeName[keys[j]] = TypeName[keys[i]]
    <3>1. i \in Same
      BY <2>2
    <3>2. i <= last
      BY <1>2, <3>1
    <3>3. last \in (i + 1)..n
      BY <1>1, <1>3, <2>2, <3>2
    <3> QED  BY <1>3, <2>2, <3>3
  <2> QED  BY <1>3, <2>1, <2>2
<1>5. LastOfName(keys) =
        {<<TypeName[keys[i]], keys[i]>> : i \in
            {i \in 1..n : \A j \in (i + 1)..n : TypeName[keys[j]] # TypeName[keys[i]]}}
  BY <1>1 DEF LastOfName
<1> PICK entry : entry = <<TypeName[keys[last]], keys[last]>>
  OBVIOUS
<1>6. {s \in LastOfName(keys) : s[1] = TypeName[t]} = {entry}
  <2>1. ASSUME NEW s \in LastOfName(keys), s[1] = TypeName[t]
        PROVE  s = entry
    <3>1. PICK i \in 1..n : /\ \A j \in (i + 1)..n : TypeName[keys[j]] # TypeName[keys[i]]
                            /\ s = <<TypeName[keys[i]], keys[i]>>
      BY <1>5
    <3>2. i = last
      BY <1>4, <2>1, <3>1
    <3> QED  BY <3>1, <3>2
  <2>2. entry \in LastOfName(keys) /\ entry[1] = TypeName[t]
    <3>1. \A j \in (last + 1)..n : TypeName[keys[j]] # TypeName[keys[last]]
      BY <1>3, <1>4
    <3> QED  BY <1>3, <1>5, <3>1
  <2> QED  BY <2>1, <2>2
<1>7. Cardinality({s \in LastOfName(keys) : s[1] = TypeName[t]}) = 1
  BY <1>6, FS_Singleton
<1>8. ASSUME \A u \in ToSet(keys) \ {t} : TypeName[u] # TypeName[t]
      PROVE  <<TypeName[t], t>> \in LastOfName(keys)
  <2>1. keys[last] = t
    BY <1>3, <1>8
  <2>2. entry \in LastOfName(keys)
    BY <1>6
  <2> QED  BY <2>1, <2>2
<1> QED  BY <1>7, <1>8

\* A finished document covers the subscribed events and no others, with the handlers of
\* all profiles, and each message has one schema (AsyncApiDocumentGenerator.Generate).
THEOREM DocumentCoversEventsAlways == Spec => []DocumentCoversEvents
<1>1. ASSUME DocumentInv, NEW r \in Requests, request[r] = "done",
             NEW events, events = EventsOf(FlattenSeq(todo))
      PROVE  /\ {c[1] : c \in document[r].channels} = {EventKey[t] : t \in events}
             /\ document[r].operations =
                   {<<EventKey[t], HandlersOf(FlattenSeq(todo), t)>> : t \in events}
             /\ \A t \in events :
                   /\ <<EventKey[t], TypeName[t]>> \in document[r].channels
                   /\ Cardinality({s \in document[r].schemas : s[1] = TypeName[t]}) = 1
                   /\ (\A u \in events \ {t} : TypeName[u] # TypeName[t])
                         => <<TypeName[t], t>> \in document[r].schemas
  <2>1. Filled /\ Describes(document[r])
    BY <1>1 DEF DocumentInv, RequestInv
  <2>2. /\ EventsOf(executors) = events
        /\ \A t : HandlersOf(executors, t) = HandlersOf(FlattenSeq(todo), t)
    BY <1>1, <2>1 DEF Filled, EventsOf, HandlersOf
  <2>3. /\ document[r].channels = {<<EventKey[t], TypeName[t]>> : t \in events}
        /\ document[r].operations = {<<EventKey[t], HandlersOf(FlattenSeq(todo), t)>> : t \in events}
    BY <2>1, <2>2 DEF Describes
  <2>4. PICK keys : keys = KeysInOrder(executors)
    OBVIOUS
  <2>5. /\ keys \in Seq(Types) /\ ToSet(keys) = events
        /\ document[r].schemas = LastOfName(keys)
    <3>1. keys \in Seq(Types) /\ ToSet(keys) = EventsOf(executors)
      BY <2>1, <2>4, KeysFacts DEF Filled
    <3> QED  BY <2>1, <2>2, <2>4, <3>1 DEF Describes
  <2>6. {c[1] : c \in document[r].channels} = {EventKey[t] : t \in events}
    <3>1. ASSUME NEW c \in document[r].channels
          PROVE  c[1] \in {EventKey[t] : t \in events}
      BY <2>3, <3>1
    <3>2. ASSUME NEW t \in events
          PROVE  \E c \in document[r].channels : c[1] = EventKey[t]
      <4>1. PICK c : c = <<EventKey[t], TypeName[t]>>
        OBVIOUS
      <4>2. c \in document[r].channels /\ c[1] = EventKey[t]
        BY <2>3, <4>1
      <4> QED  BY <4>2
    <3> QED  BY <3>1, <3>2
  <2>7. ASSUME NEW t \in events
        PROVE  /\ <<EventKey[t], TypeName[t]>> \in document[r].channels
               /\ Cardinality({s \in document[r].schemas : s[1] = TypeName[t]}) = 1
               /\ (\A u \in events \ {t} : TypeName[u] # TypeName[t])
                     => <<TypeName[t], t>> \in document[r].schemas
    <3>1. /\ Cardinality({s \in LastOfName(keys) : s[1] = TypeName[t]}) = 1
          /\ (\A u \in ToSet(keys) \ {t} : TypeName[u] # TypeName[t])
                => <<TypeName[t], t>> \in LastOfName(keys)
      BY <2>5, LastOfNameFacts
    <3> QED  BY <2>3, <2>5, <3>1
  <2> QED  BY <2>3, <2>6, <2>7
<1>2. DocumentInv => DocumentCoversEvents
  BY <1>1 DEF DocumentCoversEvents
<1> QED  BY <1>2, DocumentAlways, PTL

-----------------------------------------------------------------------------
(* Types *)

\* The two dictionaries are functions: no type has two names and no name two types.
LEMMA RegistryFunctions ==
    ASSUME Untouched \/ Filled
    PROVE  /\ \A x, y \in schemas : x[1] = y[1] => x = y
           /\ \A x, y \in typesByName : x[1] = y[1] => x = y
<1>1. CASE Untouched
  BY <1>1 DEF Untouched
<1>2. CASE Filled
  <2>1. PICK order : order = KeysInOrder(executors)
    OBVIOUS
  <2>2. PICK k : /\ Taken(order, k)
                 /\ schemas = {<<order[i], EventKey[order[i]]>> : i \in 1..k}
                 /\ typesByName = {<<EventKey[order[i]], order[i]>> : i \in 1..k}
    BY <1>2, <2>1 DEF Filled, RegisteredTo
  <2>3. ASSUME NEW i \in 1..k, NEW j \in 1..k, EventKey[order[i]] = EventKey[order[j]]
        PROVE  order[i] = order[j]
    <3>0. \A l \in 1..k : ~Clash(order, l)
      BY <2>2 DEF Taken
    <3>1. CASE i < j
      <4>1. i \in 1..(j - 1)
        BY <3>1
      <4> QED  BY <2>3, <3>0, <4>1 DEF Clash
    <3>2. CASE j < i
      <4>1. j \in 1..(i - 1)
        BY <3>2
      <4> QED  BY <2>3, <3>0, <4>1 DEF Clash
    <3>3. CASE i = j
      BY <3>3
    <3> QED  BY <3>1, <3>2, <3>3
  <2>4. ASSUME NEW x \in typesByName, NEW y \in typesByName, x[1] = y[1]
        PROVE  x = y
    <3>1. PICK i, j \in 1..k : /\ x = <<EventKey[order[i]], order[i]>>
                               /\ y = <<EventKey[order[j]], order[j]>>
      BY <2>2
    <3>2. order[i] = order[j]
      BY <2>3, <2>4, <3>1
    <3> QED  BY <3>1, <3>2
  <2>5. ASSUME NEW x \in schemas, NEW y \in schemas, x[1] = y[1]
        PROVE  x = y
    <3>1. PICK i, j \in 1..k : /\ x = <<order[i], EventKey[order[i]]>>
                               /\ y = <<order[j], EventKey[order[j]]>>
      BY <2>2
    <3>2. order[i] = order[j]
      BY <2>5, <3>1
    <3> QED  BY <3>1, <3>2
  <2> QED  BY <2>4, <2>5
<1> QED  BY <1>1, <1>2

Flags == {prepared, loaded, broken} \subseteq BOOLEAN

LEMMA FlagsInductive == Flags /\ [Next]_vars => Flags'
BY DEF Flags, Next, vars, generatorVars, ToDo, CatchExceptionToDo, CatchExceptionTwice, ProfilesResolved,
       InitializeManager, SubscribeAsync, AttachConsumer, CreateInvoker, Generate, PrepareXmlComments,
       PrepareEnds, PrepareThrows, BuildDocument

\* The state keeps its types; the dictionaries of the registry are functions, also when
\* a Register has thrown, and the invoker's cache holds handlers of events.
THEOREM TypeOKAlways == Spec => []TypeOK
<1>1. ManagerInv /\ HostInv /\ Preparation /\ Flags => TypeOK
  <2> SUFFICES ASSUME ManagerInv, HostInv, Preparation, Flags PROVE TypeOK
    OBVIOUS
  <2>1. /\ todo \in [Profiles -> Seq(Calls)]
        /\ catches \in [Profiles -> SUBSET (Types \X ErrorHandlers)]
    BY DEF ManagerInv, ProfileTypes
  <2>2. executors \in Seq(Calls)
    <3>1. CASE Untouched
      BY <3>1 DEF Untouched
    <3>2. CASE Filled
      BY <3>2 DEF Filled
    <3> QED  BY <3>1, <3>2 DEF ManagerInv
  <2>3. errorHandlers \subseteq Types \X ErrorHandlers
    BY <2>1 DEF ManagerInv, Untouched, Filled
  <2>4. /\ \A x, y \in schemas : x[1] = y[1] => x = y
        /\ \A x, y \in typesByName : x[1] = y[1] => x = y
    BY RegistryFunctions DEF ManagerInv
  <2>5. \A x \in ToSet(executors) : x.event \in Types /\ x.handler \in Handlers
    <3>1. ToSet(executors) \subseteq Calls
      BY <2>2 DEF ToSet
    <3> QED  BY <3>1 DEF Calls
  <2>6. subscribed \subseteq {EventKey[t] : t \in Types}
    BY <2>5 DEF HostInv, EventsOf
  <2>7. cache = NotBuilt \/ cache \subseteq Types \X Handlers
    BY <2>5 DEF HostInv, CachedKeys
  <2>8. /\ boot \in {"configuring", "configured", "initialized", "subscribed", "attached",
                     "unresolved", "failed"}
        /\ request \in [Requests -> {"idle", "unprepared", "preparing", "building", "done", "threw"}]
        /\ {prepared, loaded, broken} \subseteq BOOLEAN
    BY DEF HostInv, Preparation, Flags
  <2> QED  BY <2>1, <2>2, <2>3, <2>4, <2>6, <2>7, <2>8 DEF TypeOK
<1>2. Init => Flags
  BY DEF Init, Flags
<1> QED  BY <1>1, <1>2, FlagsInductive, HostAlways, DocumentAlways, PTL DEF Spec

-----------------------------------------------------------------------------
(* Names *)

\* Whatever types and profiles a program has, SplitPascal cuts a name of any length
\* up to the bound as a reader would; EveryNameSplitsAsRead says it without a bound.
THEOREM NamesSplitAsReadAlways == Spec => []NamesSplitAsRead
<1>1. ASSUME NEW name \in ShortNames
      PROVE  SplitsAsRead(name)
  <2>1. PICK k \in 1..MaxName : name \in [1..k -> Chars]
    BY DEF ShortNames
  <2>2. k \in Nat \ {0}
    BY NamesAssumption
  <2>3. name \in Seq(Chars) /\ name # <<>>
    BY <2>1, <2>2
  <2> QED  BY <2>3, EveryNameSplitsAsRead
<1>2. NamesSplitAsRead
  BY <1>1 DEF NamesSplitAsRead
<1> QED  BY <1>2, PTL

=============================================================================
