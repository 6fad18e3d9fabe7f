SPECIFICATION FairSpec
CONSTANTS
    None = None
    Filter = "running"
    Limit = 1
    MaxListable = 3
    MaxClock = 1
    MaxDeletes = 1
    Ids <- FewIds
INVARIANTS
    NewestFirst
    NothingPassedOver
PROPERTIES
    LastPageCompletes
    WalkEnds
