SPECIFICATION FairSpec
CONSTANTS
    Messages = {m}
    Sessions = {s, t}
    MaxRelinks = 1
    MaxMoves = 1
    MaxCrashes = 1
PROPERTIES
    EveryRelinkIsRung
CHECK_DEADLOCK FALSE
