\* Two instances of one service and one that may not start, one message, two faults.
SPECIFICATION FairSpec
CONSTANTS
    n1 = n1
    n2 = n2
    p1 = p1
    p2 = p2
    p3 = p3
    q1 = q1
    q2 = q2
    m1 = m1
    m2 = m2
    s1 = s1
    s2 = s2
    s3 = s3
    topic = topic
    dlx = dlx
    dlx2 = dlx2
    dlq = dlq
    None = None
    Undeclared = Undeclared
    Blank = Blank
    Names = {n1, n2}
    Queues = {q1}
    Exchanges = {topic}
    DeadLetters = {dlx, dlx2}
    Messages = {m1, m2}
    MaxRetry = 1
    Processes = {p1, p2, p3}
    Subscribes <- MCSameSubscribes
    ExchangeBindings <- MCOneExchange
    GlobalExchange = Blank
    DefaultExchange = topic
    QueueBindings <- MCNoneOfIts
    GlobalQueue <- MCNoGlobal
    DefaultQueue <- MCDefaultQueue
    DeadLetterExchangeBindings <- MCNoneOfIts
    GlobalDeadLetterExchange <- MCSameDeadLetter
    DeadLetterQueueBindings <- MCNoneOfIts
    GlobalDeadLetterQueue <- MCDeadLetterQueueOfSome
    PublisherConfirms = FALSE
    NameOf <- MCNameOf
    Slots = {s1, s2, s3}
    ProcessOf <- MCOneSlotEach
    EventOf <- MCOneEvent
    MaxFaults = 2
PROPERTY
    EventuallySettled
CHECK_DEADLOCK FALSE
