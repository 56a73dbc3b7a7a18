SPECIFICATION Spec
CONSTANTS
    initiator = initiator
    p2 = p2
    p3 = p3
    Party = {initiator, p2, p3}
    Initiator = initiator
    MaxTries = 2
    Faults = {}
    Settings <- PairOnly
CHECK_DEADLOCK FALSE
INVARIANTS
    EverybodySigns
