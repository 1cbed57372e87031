SPECIFICATION Spec
CONSTANTS
    Aliases = {a}
    Requests = {r1}
    MaxSession = 2
    MaxProcess = 1
    MaxWork = 3
INVARIANTS
    RepairIsInForce
CHECK_DEADLOCK FALSE
