SPECIFICATION FairSpec
CONSTANTS
    Messages = {m}
    Contents = {"x", "y"}
    Callers = {a, b}
    Waiters = {w}
    Requests <- MCRequests
    Requires = {"ack"}
    FrameKinds = {"reply", "dropped"}
    MaxLive = 2
    MaxCalls = 3
    MaxCrashes = 1
INVARIANTS
    TypeOK
    AnswersAgree
    StatusMeansSent
    NoLostWakeup
PROPERTIES
    CallsFinish
    ImplementsDelivery
CHECK_DEADLOCK FALSE
