SPECIFICATION Spec
CONSTANTS
    Messages = {m}
    Sessions = {s, t}
    Callers = {c, d}
    Limits <- MCLimits
INVARIANT
    ExpiredIsGone
CHECK_DEADLOCK FALSE
