SPECIFICATION Spec
CONSTANTS
    send = send
    approval = approval
    None = None
    Proc = {p1, p2}
    Fp = {send, approval}
    Hash = {h1, h2}
    Settings <- AllSettings
    Window = 2
    StaleAfter = 1
    Retention = 2
    Lag = 0
    PruneTrigger = 1
SYMMETRY Symmetry
CHECK_DEADLOCK FALSE
INVARIANTS
    Guarded
    TypeOK
    ReservationExclusive
    PruneInvisible
PROPERTIES
    RecordedNeverResent
    MainNeedsApprove
    OnlyCheckGap
