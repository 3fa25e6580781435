\* Three executors, two at once, two exception handlers, one retry.
SPECIFICATION FairSpec
CONSTANTS
    x1 = x1
    x2 = x2
    x3 = x3
    h1 = h1
    h2 = h2
    h3 = h3
    f1 = f1
    f2 = f2
    f3 = f3
    Subscription <- MCSubscription
    HandlerOf <- MCHandlerOf
    MethodOf <- MCMethodOf
    Registered = {h1, h2}
    ExceptionHandlers = 2
    Degree = 2
    MaxRetry = 1
INVARIANTS
    TypeOK
    AckNeedsEveryExecutor
    NothingRunsBetweenAttempts
    HandledFailureCancelsNobody
    CancellationHidesNoFailure
PROPERTIES
    EventEnds
    EveryStepUsesUp
    ImplementsEventLife
CHECK_DEADLOCK FALSE
