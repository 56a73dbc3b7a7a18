SPECIFICATION Spec
CONSTANTS
    None = None
    Proc = {p1, p2}
    MaxCalls = 3
    PruneTrigger = 1
    MaxCrashes = 1
    Faults = {}
SYMMETRY Symmetry
CHECK_DEADLOCK FALSE
PROPERTIES
    NeverClobbered
