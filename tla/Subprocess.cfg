SPECIFICATION FairSpec
CONSTANTS
    MaxCancels = 2
CHECK_DEADLOCK FALSE
INVARIANTS
    NoOrphan
    OutcomeIsTrue
PROPERTIES
    RunEnds
