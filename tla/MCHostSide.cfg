CONSTANTS
    Caller = {n1, n2, sms}
    High = {sms}
    Interactive = {sms}
    Request = {r1, r2}
    NoEntry = NoEntry
    NoAnswer = NoAnswer
    Engine = Engine
    QueueCap = 1
    HighCap = 1
    RxCap = 1
    TimeoutThreshold = 2
    ByHand = TRUE
CHECK_DEADLOCK FALSE
SYMMETRY Symmetry
SPECIFICATION BoundedHostSpec
INVARIANTS AnswerIsOwn RepliesStayInStep HighWaitsForOne ToldOnce StatusIsHonest
PROPERTIES AnswerIsNotLost CallKeepsRoute
