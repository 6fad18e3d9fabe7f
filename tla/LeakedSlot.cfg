SPECIFICATION Spec
CONSTANTS
    Jobs = {1, 2, 3}
    MaxConcurrent = 2
    MaxEarlyCancels = 2
    MaxDrains = 1
CHECK_DEADLOCK FALSE
INVARIANTS
    SlotsReturned
