SPECIFICATION FairSpec
CONSTANTS
    w1 = w1
    w2 = w2
    t1 = t1
    t2 = t2
    t3 = t3
    r1 = r1
    r2 = r2
    r3 = r3
    n1 = n1
    n2 = n2
    None = None
    Workers = {w1}
    TaskIds = {t1, t2}
    RunIds = {r1, r2}
    Names = {n1}
    Dialect = "sqlite"
    Schema = "orm"
    MaxFaults = 1
    MaxCrashes = 1
    MaxShutdowns = 0
INVARIANTS
    AtMostOneLiveRun
    NamesDistinct
    MirrorKnowsStoredTasks
PROPERTIES
    OnlyLegalMoves
    ImplementsMachine
    RunningSettles
    AcceptedRunRecorded
