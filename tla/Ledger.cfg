SPECIFICATION FairSpec
CONSTANTS
    Callers = {a, b}
    Keys = {k}
    MaxFile = 2
    MaxRows = 3
    MaxCrashes = 2
INVARIANTS
    TypeOK
    ToldSurvives
    OneReservation
    OnlySizeRefuses
PROPERTIES
    CallSettles
    ImplementsEventLog
CHECK_DEADLOCK FALSE
