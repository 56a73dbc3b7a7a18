SPECIFICATION Spec
CONSTANTS
    None = None
    Proc = {p1, p2}
    MaxGap = 1
    MaxNonce = 2
    MaxCrashes = 1
    Faults = {"lag", "evict", "fs", "throw"}
SYMMETRY Symmetry
CHECK_DEADLOCK FALSE
INVARIANTS
    TypeOK
    LockExclusive
    NoGap
PROPERTIES
    OwnNonceFresh
