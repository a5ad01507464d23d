CONSTANTS
    Caller = {n1, sms}
    High = {sms}
    Interactive = {sms}
    Request = {r1}
    NoEntry = NoEntry
    NoAnswer = NoAnswer
    Engine = Engine
    QueueCap = 1
    HighCap = 1
    RxCap = 1
    TimeoutThreshold = 2
    ByHand = FALSE
    MaxProfiles = 1
    MaxTroubles = 1
CHECK_DEADLOCK FALSE
SPECIFICATION FairLiveSpec
PROPERTIES EveryCallReturns CallAndRadioComeThrough
