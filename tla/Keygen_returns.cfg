SPECIFICATION FairSpec
CONSTANTS
    Operations = {"dkls"}
    Party = {p1, p2}
    Initiator = p1
    Rounds = 2
    MaxAttempts = 2
    MaxFaults <- One
    Faults = {"lose", "reject"}
CHECK_DEADLOCK FALSE
PROPERTIES
    EveryPartyReturns
