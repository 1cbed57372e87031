SPECIFICATION Spec
CONSTANTS
    Aliases = {a}
    Requests = {r1, r2}
    MaxSession = 1
    MaxProcess = 1
    MaxWork = 5
INVARIANTS
    ReadingsAgree
CHECK_DEADLOCK FALSE
