\* Two methods of one class subscribed to one event.
SPECIFICATION Spec
CONSTANTS
    x1 = x1
    x2 = x2
    x3 = x3
    h1 = h1
    h2 = h2
    h3 = h3
    f1 = f1
    f2 = f2
    f3 = f3
    Subscription <- MCTwoMethods
    HandlerOf <- MCSameHandler
    MethodOf <- MCMethodOf
    Registered = {h1, h2}
    ExceptionHandlers = 0
    Degree = 2
    MaxRetry = 1
INVARIANT
    EveryMethodRuns
CHECK_DEADLOCK FALSE
