SPECIFICATION FairSpec
CONSTANTS
    Messages = {m}
    Sessions = {s, t}
    MaxRelinks = 0
    MaxMoves = 0
    MaxCrashes = 1
PROPERTIES
    EveryAlertIsRaised
CHECK_DEADLOCK FALSE
