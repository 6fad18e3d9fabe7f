SPECIFICATION GatewaySpec
CONSTANTS
    w1 = w1
    w2 = w2
    o1 = o1
    o2 = o2
    None = None
    Workers = {w1, w2}
    Operators = {o1, o2}
    KeyScope = "write"
    Capacity = 2
    Period = 2
    Dialect = "postgres"
    MaxClock = 4
INVARIANTS
    WindowBound
    RetryHonoured
    RevokedStaysOut
    AnswerTellsCharge
    HandledWithinBudget
    NoStrandedLock
PROPERTIES
    Spec
SYMMETRY Symmetry
