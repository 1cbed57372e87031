SPECIFICATION Spec
CONSTANTS
    Pids = {p, q, r, s}
    None = None
    MaxClients = 2
    MaxFaults = 1
INVARIANTS
    OneDaemon
CHECK_DEADLOCK FALSE
