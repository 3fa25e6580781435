\* Two processes, two messages, one of them routed to two queues, one fault.
SPECIFICATION Spec
CONSTANTS
    n1 = n1
    n2 = n2
    p1 = p1
    p2 = p2
    p3 = p3
    q1 = q1
    q2 = q2
    m1 = m1
    m2 = m2
    s1 = s1
    s2 = s2
    s3 = s3
    topic = topic
    dlx = dlx
    dlx2 = dlx2
    dlq = dlq
    None = None
    Undeclared = Undeclared
    Blank = Blank
    Names = {n1, n2}
    Queues = {q1, q2}
    Exchanges = {topic}
    DeadLetters = {dlx, dlx2}
    Messages = {m1, m2}
    MaxRetry = 1
    Processes = {p1, p2}
    Subscribes <- MCSubscribes
    ExchangeBindings <- NoBindings
    GlobalExchange = topic
    DefaultExchange = topic
    QueueBindings <- MCQueueBindings
    GlobalQueue <- MCNoGlobal
    DefaultQueue <- MCDefaultQueue
    DeadLetterExchangeBindings <- MCNoneOfIts
    GlobalDeadLetterExchange <- MCGlobalDeadLetter
    DeadLetterQueueBindings <- MCNoneOfIts
    GlobalDeadLetterQueue <- MCDeadLetterQueue
    PublisherConfirms = FALSE
    NameOf <- MCNameOf
    Slots = {s1, s2, s3}
    ProcessOf <- MCProcessOf
    EventOf <- MCEventOf
    MaxFaults = 1
INVARIANTS
    TypeOK
    NothingLost
    NoFaultNoDuplicate
    GivenUpAfterAllTries
PROPERTY LivesUntilFault
CHECK_DEADLOCK FALSE
