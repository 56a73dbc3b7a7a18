SPECIFICATION FairSpec
CONSTANTS
    None = None
    Proc = {p1, p2}
    MaxCalls = 3
    PruneTrigger = 1
    MaxCrashes = 1
    Faults = {"fs", "stuck", "slow"}
CHECK_DEADLOCK FALSE
INVARIANTS
    TypeOK
PROPERTIES
    RefinesJournal
    EveryCallReturns
