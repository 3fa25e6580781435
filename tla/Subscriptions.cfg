\* Two profiles, three event types, three fluent calls, two flows that ask for a document.
SPECIFICATION Spec
CONSTANTS
    a = a
    b = b
    c = c
    h1 = h1
    h2 = h2
    x1 = x1
    r1 = r1
    r2 = r2
    NotBuilt = NotBuilt
    App = App
    Event = Event
    Chars = {"P", "p", "1", "_"}
    Capitals = {"P"}
    Smalls = {"p"}
    Digits = {"1"}
    LowerOf <- MCLowerOf
    Types = {a, b, c}
    Namespace <- MCNamespace
    TypeName <- MCTypeName
    AttributeName <- MCAttributeName
    Version <- MCVersion
    MaxName = 5
    ProfileCount = 2
    Handlers = {h1, h2}
    ErrorHandlers = {x1}
    Requests = {r1, r2}
    Provider = r1
    MaxCalls = 3
SYMMETRY MCSymmetry
INVARIANTS
    TypeOK
    RegistryInverse
    DispatchFindsHandlers
    HostFailsOnlyOnCollision
    DocumentCoversEvents
    ProviderServesCurrent
    NamesSplitAsRead
PROPERTIES
    InitializedOnce
    UndescribedOnlyInPreparation
    NameKept
CHECK_DEADLOCK FALSE
