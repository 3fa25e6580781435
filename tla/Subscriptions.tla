--------------------------- MODULE Subscriptions ---------------------------
(***************************************************************************)
(* What a process subscribes to: profiles and their fluent calls, the      *)
(* manager that aggregates them, the registry of event names, the start-up *)
(* of the host, the invoker's cache of delegates, and the AsyncAPI         *)
(* document, which any number of requests may generate at any time, before *)
(* the host has started too, and which initializes the manager once more.  *)
(*                                                                         *)
(* The manager's dictionaries are the ToDo calls it has taken over, in     *)
(* order: the list of an event is the calls for it, and the keys come in   *)
(* the order of their first call.  Two first Initialize calls at the same  *)
(* time, on an unsynchronized dictionary, are left out: web hosts take     *)
(* requests when they have started.                                        *)
(***************************************************************************)
EXTENDS EventNames

CONSTANTS
    ProfileCount,  \* how many profiles were registered with WithProfile
    Handlers,
    ErrorHandlers,
    Requests,      \* the flows that call Generate,
    Provider,      \* and the one that does it for the document provider
    NotBuilt,      \* no invoker yet
    MaxCalls       \* bound: the fluent calls of all profiles

Profiles == 1..ProfileCount

ASSUME SubscriptionsAssumption ==
    /\ ProfileCount \in Nat /\ MaxCalls \in Nat
    /\ Provider \in Requests

VARIABLES
    todo,          \* the ToDo calls of each profile
    catches,       \* the CatchExceptionToDo calls of each profile
    executors,     \* EventHandlerExecutors of the manager
    errorHandlers, \* ErrorHandlers of the manager
    schemas,       \* _schemas: <<type, name>>
    typesByName,   \* _typesByName: <<name, type>>
    boot,          \* how far the host has come
    subscribed,    \* the names the transport was given
    cache,         \* CachedHandlers: <<event type, handler type>>
    request,       \* where each Generate is
    document,      \* what it has returned
    prepared,      \* _xmlCommentsPrepared
    loaded,        \* whether _typeSummaries was filled
    broken         \* whether filling it has ever failed

profileVars == <<todo, catches>>
managerVars == <<executors, errorHandlers, schemas, typesByName>>
hostVars == <<boot, subscribed, cache>>
generatorVars == <<request, document, prepared, loaded, broken>>
vars == <<todo, catches, executors, errorHandlers, schemas, typesByName,
          boot, subscribed, cache, request, document, prepared, loaded, broken>>

\* An executor is an object: the call that made it tells it from any other.
Calls == [profile : Profiles, call : 1..MaxCalls, event : Types, handler : Handlers]

NoDocument == [channels |-> {}, operations |-> {}, schemas |-> {}, described |-> FALSE]

-----------------------------------------------------------------------------
(* EventNameRegistry *)

\* GetEventName: the registered name, or one made up on the spot.
GetEventName(t) ==
    IF \E entry \in schemas : entry[1] = t
    THEN (CHOOSE entry \in schemas : entry[1] = t)[2]
    ELSE EventKey[t]

\* GetEventType: the types a name leads to; none is a KeyNotFoundException.
GetEventType(n) == {entry[2] : entry \in {x \in typesByName : x[1] = n}}

\* Mutated form: a type that is registered already collides with itself.
CollidesAnyway(order, i) ==
    \/ \E entry \in typesByName : entry[1] = EventKey[order[i]]
    \/ \E j \in 1..(i - 1) : EventKey[order[j]] = EventKey[order[i]]

\* Register throws: the name is mapped to another type, an earlier key included.
Collides(order, i) ==
    \/ \E entry \in typesByName : entry[1] = EventKey[order[i]] /\ entry[2] # order[i]
    \/ \E j \in 1..(i - 1) : order[j] # order[i] /\ EventKey[order[j]] = EventKey[order[i]]

\* How many types are registered before the first that throws.
Accepted(order) ==
    CHOOSE k \in 0..Len(order) :
        /\ \A i \in 1..k : ~Collides(order, i)
        /\ k < Len(order) => Collides(order, k + 1)

\* Mutated form: a name goes to whoever comes last, and the first keeps it.
RegisterUnchecked(order) ==
    /\ schemas' = schemas \cup {<<order[i], EventKey[order[i]]>> : i \in DOMAIN order}
    /\ typesByName' = typesByName \cup {<<EventKey[order[i]], order[i]>> : i \in DOMAIN order}

\* Mutated form: the version is lost when a type is registered.
RegisterUnversioned(order) ==
    LET name(i) == <<EventKey[order[i]][1], 1>>
    IN  /\ schemas' = schemas \cup {<<order[i], name(i)>> : i \in 1..Accepted(order)}
        /\ typesByName' = typesByName \cup {<<name(i), order[i]>> : i \in 1..Accepted(order)}

\* Mutated form: the type gets its name before the name is checked.
RegisterNameFirst(order) ==
    /\ schemas' = schemas \cup {<<order[i], EventKey[order[i]]>> : i \in DOMAIN order}
    /\ typesByName' = typesByName \cup {<<EventKey[order[i]], order[i]>> : i \in 1..Accepted(order)}

RegisterAll(order) ==
    /\ schemas' = schemas \cup {<<order[i], EventKey[order[i]]>> : i \in 1..Accepted(order)}
    /\ typesByName' = typesByName \cup {<<EventKey[order[i]], order[i]>> : i \in 1..Accepted(order)}

-----------------------------------------------------------------------------
(* SubscriptionProfileManager *)

\* A list, and what is added to it if it is not there yet, one after the other.
AppendNew(s, t) ==
    LET list[i \in 0..Len(t)] ==
            IF i = 0 THEN s
            ELSE IF Contains(list[i - 1], t[i]) THEN list[i - 1] ELSE Append(list[i - 1], t[i])
    IN  list[Len(t)]

\* The keys of the dictionary.
KeysInOrder(calls) == AppendNew(<<>>, [i \in DOMAIN calls |-> calls[i].event])

EventsOf(calls) == {x.event : x \in ToSet(calls)}

\* Mutated form: what is there is added again.
AggregatedTwice == executors \o FlattenSeq(todo)

\* TryAddExecutors: an executor that is there already is not added again.
Aggregated == AppendNew(executors, FlattenSeq(todo))

\* Initialize: aggregate, then register every key.  InitializeThrows tells how it ends.
Initialize ==
    /\ executors' = Aggregated
    /\ errorHandlers' = errorHandlers \cup UNION {catches[p] : p \in Profiles}
    /\ RegisterAll(KeysInOrder(Aggregated))

InitializeThrows == Accepted(KeysInOrder(Aggregated)) < Len(KeysInOrder(Aggregated))

-----------------------------------------------------------------------------

TypeOK ==
    /\ todo \in [Profiles -> Seq(Calls)]
    /\ catches \in [Profiles -> SUBSET (Types \X ErrorHandlers)]
    /\ executors \in Seq(Calls)
    /\ errorHandlers \subseteq Types \X ErrorHandlers
    /\ \A x, y \in schemas : x[1] = y[1] => x = y
    /\ \A x, y \in typesByName : x[1] = y[1] => x = y
    /\ boot \in {"configuring", "configured", "initialized", "subscribed", "attached",
                 "unresolved", "failed"}
    /\ subscribed \subseteq {EventKey[t] : t \in Types}
    /\ cache = NotBuilt \/ cache \subseteq Types \X Handlers
    /\ request \in [Requests -> {"idle", "unprepared", "preparing", "building", "done", "threw"}]
    /\ {prepared, loaded, broken} \subseteq BOOLEAN

Init ==
    /\ todo = [p \in Profiles |-> <<>>]
    /\ catches = [p \in Profiles |-> {}]
    /\ executors = <<>> /\ errorHandlers = {}
    /\ schemas = {} /\ typesByName = {}
    /\ boot = "configuring" /\ subscribed = {} /\ cache = NotBuilt
    /\ request = [r \in Requests |-> "idle"]
    /\ document = [r \in Requests |-> NoDocument]
    /\ prepared = FALSE /\ loaded = FALSE /\ broken = FALSE

-----------------------------------------------------------------------------
(* The constructors of the profiles *)

CallCount == Len(FlattenSeq(todo)) + Cardinality(UNION {catches[p] : p \in Profiles})

\* Every ToDo makes an executor of its own, which the list cannot hold yet.
ToDo(p, t, h) ==
    /\ boot = "configuring"
    /\ CallCount < MaxCalls
    /\ todo' = [todo EXCEPT ![p] =
                   Append(@, [profile |-> p, call |-> Len(@) + 1, event |-> t, handler |-> h])]
    /\ UNCHANGED <<catches, managerVars, hostVars, generatorVars>>

CatchExceptionToDo(p, t, x) ==
    /\ boot = "configuring"
    /\ CallCount < MaxCalls
    /\ <<t, x>> \notin catches[p]
    /\ catches' = [catches EXCEPT ![p] = @ \cup {<<t, x>>}]
    /\ UNCHANGED <<todo, managerVars, hostVars, generatorVars>>

\* AddToDictionaryList finds the error handler type: the constructor throws, and
\* neither the host nor the generator can be resolved.
CatchExceptionTwice(p, t, x) ==
    /\ boot = "configuring"
    /\ <<t, x>> \in catches[p]
    /\ boot' = "unresolved"
    /\ UNCHANGED <<profileVars, managerVars, subscribed, cache, generatorVars>>

ProfilesResolved ==
    /\ boot = "configuring"
    /\ boot' = "configured"
    /\ UNCHANGED <<profileVars, managerVars, subscribed, cache, generatorVars>>

-----------------------------------------------------------------------------
(* EventSubscribeInitializer.InitializeAsync *)

InitializeManager ==
    /\ boot = "configured"
    /\ Initialize
    /\ boot' = IF InitializeThrows THEN "failed" ELSE "initialized"
    /\ UNCHANGED <<profileVars, subscribed, cache, generatorVars>>

SubscribeAsync ==
    /\ boot = "initialized"
    /\ boot' = "subscribed"
    /\ subscribed' = {GetEventName(t) : t \in EventsOf(executors)}
    /\ UNCHANGED <<profileVars, managerVars, cache, generatorVars>>

AttachConsumer ==
    /\ boot = "subscribed"
    /\ boot' = "attached"
    /\ UNCHANGED <<profileVars, managerVars, subscribed, cache, generatorVars>>

CachedKeys == {<<x.event, x.handler>> : x \in ToSet(executors)}

\* Mutated form: the invoker is a dependency of the initializer.
CreateInvokerEarly ==
    /\ boot = "configured"
    /\ cache = NotBuilt
    /\ cache' = CachedKeys
    /\ UNCHANGED <<profileVars, managerVars, boot, subscribed, generatorVars>>

\* The first event is dispatched: the container makes the invoker, whose
\* constructor fills the cache for good.
CreateInvoker ==
    /\ boot = "attached"
    /\ cache = NotBuilt
    /\ cache' = CachedKeys
    /\ UNCHANGED <<profileVars, managerVars, boot, subscribed, generatorVars>>

-----------------------------------------------------------------------------
(* AsyncApiDocumentGenerator.Generate *)

Resolvable == boot \notin {"configuring", "unresolved"}
Ended == {"idle", "done", "threw"}

\* The document provider's Lazy calls Generate once, and keeps what it gets.
MayGenerate(r) == request[r] \in (IF r = Provider THEN {"idle"} ELSE Ended)

\* Mutated form: the document is made of what the manager holds.
GenerateUninitialized(r) ==
    /\ Resolvable
    /\ MayGenerate(r)
    /\ UNCHANGED managerVars
    /\ request' = [request EXCEPT ![r] = IF prepared THEN "building" ELSE "unprepared"]
    /\ document' = [document EXCEPT ![r] = NoDocument]
    /\ UNCHANGED <<profileVars, hostVars, prepared, loaded, broken>>

\* Initialize, and the test of _xmlCommentsPrepared.
Generate(r) ==
    /\ Resolvable
    /\ MayGenerate(r)
    /\ Initialize
    /\ request' = [request EXCEPT ![r] = IF InitializeThrows THEN "threw"
                                         ELSE IF prepared THEN "building" ELSE "unprepared"]
    /\ document' = [document EXCEPT ![r] = NoDocument]
    /\ UNCHANGED <<profileVars, hostVars, prepared, loaded, broken>>

\* The flag is set before the work is done.
PrepareXmlComments(r) ==
    /\ request[r] = "unprepared"
    /\ prepared' = TRUE
    /\ request' = [request EXCEPT ![r] = "preparing"]
    /\ UNCHANGED <<profileVars, managerVars, hostVars, document, loaded, broken>>

\* Mutated form: the summaries are never loaded.
PrepareForgotten(r) ==
    /\ request[r] = "preparing"
    /\ request' = [request EXCEPT ![r] = "building"]
    /\ UNCHANGED <<profileVars, managerVars, hostVars, document, prepared, loaded, broken>>

PrepareEnds(r) ==
    /\ request[r] = "preparing"
    /\ loaded' = TRUE
    /\ request' = [request EXCEPT ![r] = "building"]
    /\ UNCHANGED <<profileVars, managerVars, hostVars, document, prepared, broken>>

\* An assembly or an XML file cannot be read: Generate throws, the flag stays.
PrepareThrows(r) ==
    /\ request[r] = "preparing"
    /\ broken' = TRUE
    /\ request' = [request EXCEPT ![r] = "threw"]
    /\ UNCHANGED <<profileVars, managerVars, hostVars, document, prepared, loaded>>

\* The summaries of types and properties are found, if they were loaded.
Described == loaded

\* What the entry of an event in the manager's dictionary holds.
HandlersOf(calls, t) == {x.handler : x \in {y \in ToSet(calls) : y.event = t}}

\* A channel and an operation per event name; messages and schemas by the short
\* name of the type, where the later event replaces the earlier one.
BuildDocument(r) ==
    /\ request[r] = "building"
    /\ LET keys == KeysInOrder(executors)
       IN  document' = [document EXCEPT ![r] =
             [channels   |-> {<<GetEventName(t), TypeName[t]>> : t \in ToSet(keys)},
              operations |-> {<<GetEventName(t), HandlersOf(executors, t)>> : t \in ToSet(keys)},
              schemas    |-> {<<TypeName[keys[i]], keys[i]>> : i \in
                               {i \in DOMAIN keys : \A j \in (i + 1)..Len(keys) :
                                                       TypeName[keys[j]] # TypeName[keys[i]]}},
              described  |-> Described]]
    /\ request' = [request EXCEPT ![r] = "done"]
    /\ UNCHANGED <<profileVars, managerVars, hostVars, prepared, loaded, broken>>

-----------------------------------------------------------------------------

Next ==
    \/ \E p \in Profiles, t \in Types :
          \/ \E h \in Handlers : ToDo(p, t, h)
          \/ \E x \in ErrorHandlers : CatchExceptionToDo(p, t, x) \/ CatchExceptionTwice(p, t, x)
    \/ ProfilesResolved
    \/ InitializeManager \/ SubscribeAsync \/ AttachConsumer \/ CreateInvoker
    \/ \E r \in Requests :
          \/ Generate(r) \/ PrepareXmlComments(r) \/ PrepareEnds(r) \/ PrepareThrows(r)
          \/ BuildDocument(r)

Spec == Init /\ [][Next]_vars

-----------------------------------------------------------------------------

\* The two dictionaries of the registry are inverse to each other, also when an
\* Initialize has thrown half-way: what is published under the name of a
\* registered type is received as that type.
RegistryInverse ==
    \A t \in Types, n \in {EventKey[u] : u \in Types} :
        <<t, n>> \in schemas <=> <<n, t>> \in typesByName

\* An event of a subscribed name that reaches the dispatcher is resolved to one
\* type, that type has every executor the profiles gave it, and the invoker has a
\* delegate for each, although its cache is filled once and never again.
DispatchFindsHandlers ==
    boot = "attached" =>
        \A n \in subscribed :
            \E t \in Types :
                /\ GetEventType(n) = {t}
                /\ t \in EventsOf(executors)
                /\ \A x \in ToSet(FlattenSeq(todo)) :
                      x.event = t => /\ Contains(executors, x)
                                     /\ cache # NotBuilt => <<t, x.handler>> \in cache

\* Generating a document while events are dispatched changes nothing of what is
\* dispatched: a second Initialize adds no executor twice and loses none.
InitializedOnce ==
    [][executors # <<>> =>
          executors' = executors /\ errorHandlers' = errorHandlers
             /\ schemas' = schemas /\ typesByName' = typesByName]_vars

NamesCollide ==
    \E x, y \in ToSet(FlattenSeq(todo)) :
        x.event # y.event /\ EventKey[x.event] = EventKey[y.event]

\* The host fails to start exactly when two subscribed types have one name, be
\* the registry filled by an earlier document or not.
HostFailsOnlyOnCollision ==
    /\ boot = "failed" => NamesCollide
    /\ boot \in {"initialized", "subscribed", "attached"} => ~NamesCollide

\* A type has one name for life: what is published before any Initialize, under a
\* name made up on the spot, is what the transport subscribes to later, so an event
\* that arrives as another type was published from a process that does not
\* subscribe to its own.
NameKept == [][\A t \in Types : GetEventName(t)' = GetEventName(t)]_vars

\* A finished document has a channel and an operation for every subscribed event and
\* for no other; the operation names the handlers of all profiles, and the message
\* resolves to a schema: to that of the event itself if no other has its short name.
DocumentCoversEvents ==
    \A r \in Requests : request[r] = "done" =>
        LET events == EventsOf(FlattenSeq(todo))
        IN  /\ {c[1] : c \in document[r].channels} = {EventKey[t] : t \in events}
            /\ document[r].operations =
                  {<<EventKey[t], HandlersOf(FlattenSeq(todo), t)>> : t \in events}
            /\ \A t \in events :
                  /\ <<EventKey[t], TypeName[t]>> \in document[r].channels
                  /\ Cardinality({s \in document[r].schemas : s[1] = TypeName[t]}) = 1
                  /\ (\A u \in events \ {t} : TypeName[u] # TypeName[t])
                        => <<TypeName[t], t>> \in document[r].schemas

\* The document the provider keeps for good is the one any later request would get,
\* the descriptions apart, whatever the host was doing when it was made; and the
\* provider keeps an exception only for a collision or an unreadable file.
ProviderServesCurrent ==
    /\ \A r \in Requests :
          {request[r], request[Provider]} = {"done"} =>
              \A part \in {"channels", "operations", "schemas"} :
                  document[r][part] = document[Provider][part]
    /\ request[Provider] = "threw" => broken \/ NamesCollide

\* A document is built without descriptions only while another request is still
\* loading them, or after loading them has failed.
UndescribedOnlyInPreparation ==
    [][\A r \in Requests :
          (request[r] = "building" /\ request'[r] = "done" /\ ~document'[r].described)
              => broken \/ \E s \in Requests \ {r} : request[s] = "preparing"]_vars

\* Before anything is named: SplitPascal, which looks one character back and one
\* ahead, cuts every short name into the words that a reader of Pascal case sees,
\* which is what wire names are made of, and what a subscriber in another language
\* has to guess.
NamesSplitAsRead ==
    boot = "configuring" /\ CallCount = 0 => \A name \in ShortNames : SplitsAsRead(name)

=============================================================================
