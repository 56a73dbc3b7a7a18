SPECIFICATION FairSpec
CONSTANTS
    None = None
    Id = Id
    i1 = i1
    i2 = i2
    h1 = h1
    h2 = h2
    Client = {i1, i2}
    Placements <- TogetherOrApart
    Host = {h1, h2}
    Faults = {"full", "busy"}
    Meta = {"name"}
    MaxEvents = 2
    MaxLives = 2
    MaxQueue = 2
CHECK_DEADLOCK FALSE
INVARIANTS
    TypeOK
    BaselinesAgree
    PointerAfterRecord
PROPERTIES
    StorageAtomic
    OnlyOwnEdits
    NoResurrection
    SavesEnd
