SPECIFICATION Spec
CONSTANTS
    send = send
    approval = approval
    None = None
    Proc = {p1, p2}
    Fp = {send}
    Hash = {h1, h2}
    Settings <- RacingOnly
    Window = 2
    StaleAfter = 1
    Retention = 2
    Lag = 0
    PruneTrigger = 1
SYMMETRY Symmetry
CHECK_DEADLOCK FALSE
PROPERTIES
    NoDoubleSend
