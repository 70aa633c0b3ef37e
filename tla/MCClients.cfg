SPECIFICATION Spec
CONSTANTS
    r1 = r1
    r2 = r2
    Calls <- TwoCalls
    ContextOf <- Contexts
    MaxFaults = 2
    QueueSize = 1
    MaxRetries = 2
    Base = 4
    MaxFrame = 90
    WireCalls <- SmallCalls
    Heads <- SmallHeads
    Acks <- SmallAcks
    Records <- SmallRecords
    WireErrors <- SmallErrors
INVARIANTS
    AnswersMatch
    RepeatedAtMostOnce
    FramesUnderstood
PROPERTIES
    CallsReturn
CHECK_DEADLOCK FALSE
