SPECIFICATION Spec
CONSTANTS
    None = None
    Id = Id
    i1 = i1
    i2 = i2
    h1 = h1
    h2 = h2
    Client = {i1, i2}
    Placements <- TogetherOrApart
    Host = {h1, h2}
    Faults = {}
    Meta = {"name"}
    MaxEvents = 2
    MaxLives = 2
    MaxQueue = 1
CHECK_DEADLOCK FALSE
PROPERTIES
    StaleSavesReject
