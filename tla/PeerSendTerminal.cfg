SPECIFICATION Spec
CONSTANTS
    Messages = {m}
    Contents = {"x"}
    Callers = {a, b}
    Waiters = {w}
    Requests <- MCRequests
    Requires = {}
    FrameKinds = {"dropped"}
    MaxLive = 1
    MaxCalls = 2
    MaxCrashes = 0
PROPERTIES
    TerminalIsFinal
CHECK_DEADLOCK FALSE
