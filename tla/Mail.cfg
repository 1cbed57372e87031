SPECIFICATION FairSpec
CONSTANTS
    Messages = {m}
    Sessions = {s, t}
    Callers = {c, d}
    Limits <- MCLimits
INVARIANTS
    TypeOK
    OneBodyPerPost
PROPERTIES
    ImplementsMailbox
    NothingIsStuck
CHECK_DEADLOCK FALSE
