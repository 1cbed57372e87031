SPECIFICATION FairSpec
CONSTANTS
    Pids = {p, q}
    Conns = {c}
    MaxFrames = 2
    MaxStarts = 3
    MaxTalks = 1
INVARIANTS
    TypeOK
    CleanMeansDone
    ReclaimIsExact
PROPERTIES
    CloseEnds
CHECK_DEADLOCK FALSE
