SPECIFICATION Spec
CONSTANTS
    Messages = {m}
    Sessions = {s, t}
    Callers = {c, d}
    Limits <- MCLimits
PROPERTY
    StartFindsAll
CHECK_DEADLOCK FALSE
