SPECIFICATION FairSpec
CONSTANTS
    Messages = {m}
    Sessions = {s, t}
    MaxRelinks = 1
    MaxMoves = 1
    MaxCrashes = 1
INVARIANTS
    TypeOK
    RungWhereBound
    SentMeansRung
PROPERTIES
    EveryPostSettles
    ImplementsDelivery
CHECK_DEADLOCK FALSE
