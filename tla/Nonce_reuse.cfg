SPECIFICATION Spec
CONSTANTS
    None = None
    Proc = {p1, p2}
    MaxGap = 1
    MaxNonce = 2
    MaxCrashes = 0
    Faults = {"lag"}
SYMMETRY Symmetry
CHECK_DEADLOCK FALSE
PROPERTIES
    NonceFresh
