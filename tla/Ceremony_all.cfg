SPECIFICATION FairSpec
CONSTANTS
    initiator = initiator
    p2 = p2
    p3 = p3
    Party = {initiator, p2, p3}
    Initiator = initiator
    MaxTries = 2
    Faults = {"post", "get", "slow", "crash", "cancel"}
    Settings <- AllSettings
CHECK_DEADLOCK FALSE
INVARIANTS
    TypeOK
    LockStep
    OnlyAbortStrands
    SomebodySigns
    CommitteesAgree
    VaultIsWhole
    EverybodyGetsVault
PROPERTIES
    EveryDeviceEnds
