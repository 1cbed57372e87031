SPECIFICATION Spec
CONSTANTS
    Aliases = {a}
    Requests = {r1, r2}
    MaxSession = 3
    MaxProcess = 2
    MaxWork = 5
PROPERTIES
    ReplacesItsOwn
CHECK_DEADLOCK FALSE
