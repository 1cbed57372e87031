SPECIFICATION Spec
CONSTANTS
    Aliases = {a, b}
    Requests = {r1}
    MaxSession = 2
    MaxProcess = 2
    MaxWork = 5
PROPERTIES
    OwnIdIsNotInherited
CHECK_DEADLOCK FALSE
