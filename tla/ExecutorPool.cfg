SPECIFICATION FairSpec
CONSTANTS
    Jobs = {1, 2, 3, 4}
    MaxConcurrent = 2
    MaxEarlyCancels = 2
    MaxDrains = 1
CHECK_DEADLOCK FALSE
INVARIANTS
    CapRespected
    SlotsComeBack
    NoIdleSlot
    TallyMatchesHandles
PROPERTIES
    DrainEnds
    QueuedAreAdmitted
