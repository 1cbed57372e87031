SPECIFICATION Spec
CONSTANTS
    Messages = {m}
    Sessions = {s, t}
    MaxRelinks = 0
    MaxMoves = 0
    MaxCrashes = 1
INVARIANTS
    NeverRungTwice
CHECK_DEADLOCK FALSE
