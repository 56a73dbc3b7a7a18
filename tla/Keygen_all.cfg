SPECIFICATION FairSpec
CONSTANTS
    Operations = {"dkls", "schnorr", "mldsa", "dklsReshare", "dklsImport", "schnorrImport"}
    Party = {p1, p2}
    Initiator = p1
    Rounds = 2
    MaxAttempts = 2
    MaxFaults <- TwoOrOne
    Faults = {"setup", "lose", "down", "undelete", "slow", "reject"}
CHECK_DEADLOCK FALSE
INVARIANTS
    TypeOK
    OutboundDrained
    NoMessageDropped
PROPERTIES
    KeygenCompletes
    SetupLostEnds
    FixedDeadlineReturns
