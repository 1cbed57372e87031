SPECIFICATION Spec
CONSTANTS
    Aliases = {a, b}
    Requests = {r1, r2}
    MaxSession = 3
    MaxProcess = 3
    MaxWork = 4
SYMMETRY Symmetry
INVARIANTS
    TypeOK
    AliasInOneTable
    LineageIsProven
    EnforcedIsCurrent
CHECK_DEADLOCK FALSE
