SPECIFICATION FairSpec
CONSTANTS
    Pids = {p, q, r}
    None = None
    MaxClients = 1
    MaxFaults = 2
INVARIANTS
    TypeOK
    HoldersHaveTheLock
PROPERTIES
    ServingKeepsItsFiles
    Recovers
CHECK_DEADLOCK FALSE
