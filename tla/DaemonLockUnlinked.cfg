SPECIFICATION Spec
CONSTANTS
    Pids = {p, q, r}
    None = None
    MaxClients = 1
    MaxFaults = 1
INVARIANTS
    ServingIsPublished
CHECK_DEADLOCK FALSE
