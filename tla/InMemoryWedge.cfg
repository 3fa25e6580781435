\* A retry into a full queue, under fairness.
SPECIFICATION FairSpec
CONSTANTS
    e1 = e1
    e2 = e2
    e3 = e3
    e4 = e4
    h1 = h1
    h2 = h2
    h3 = h3
    NoEvent = NoEvent
    Subscriber = Subscriber
    Events = {e1, e2, e3}
    Callers <- MCCallers
    Subscribed = {e1, e2}
    HeaderObjs = {h1, h2, h3}
    HeadersOf <- MCHeadersOf
    Capacity = 1
    AlertThreshold = 1
    HasOnAlert = FALSE
    MaxRetry = 1
PROPERTY
    RetryIsScheduled
CHECK_DEADLOCK FALSE
