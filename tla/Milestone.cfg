SPECIFICATION AckFairSpec
CONSTANTS
    Ids = {a, b}
    Attempts = {x}
    MaxLive = 2
    MaxRequests = 3
    MaxStatuses = 2
    MaxCrashes = 1
INVARIANTS
    AckTypeOK
    AckIsAccounted
PROPERTIES
    EvidenceIsCredited
    AckImplementsDelivery
CHECK_DEADLOCK FALSE
