CONSTANTS
    Requests = {a, b}
    Receipts = {r, s}
    Artifacts = {x, y}
    MAX_ROUNDS = 2
    MaxLive = 2
    MaxCalls = 3
    MaxCrashes = 1
SPECIFICATION Spec
INVARIANTS TypeOK RequestSentOnce VerdictIsBound
CHECK_DEADLOCK FALSE
