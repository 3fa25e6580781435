\* Four publishers, a queue of two: it fills, publishers and retries block, the loop
\* may wedge itself.
SPECIFICATION FairSpec
CONSTANTS
    e1 = e1
    e2 = e2
    e3 = e3
    e4 = e4
    h1 = h1
    h2 = h2
    h3 = h3
    NoEvent = NoEvent
    Subscriber = Subscriber
    Events = {e1, e2, e3, e4}
    Callers <- MCCallers
    Subscribed = {e1, e2, e3}
    HeaderObjs = {h1, h2, h3}
    HeadersOf <- MCHeadersOf
    Capacity = 2
    AlertThreshold = 2
    HasOnAlert = TRUE
    MaxRetry = 1
INVARIANTS
    TypeOK
    WaitingMeansFull
    EventInOnePlace
    PendingAccounting
    RetryBudget
    WedgeNeedsOverload
PROPERTIES
    DeliveredOnceReady
    PublishReturns
    StopEndsLoop
    WedgeIsPermanent
    ImplementsFifo
    ImplementsEventLife
CHECK_DEADLOCK FALSE
