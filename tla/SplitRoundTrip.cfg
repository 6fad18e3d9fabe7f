SPECIFICATION FairSpec
CONSTANTS
    Tasks = {t1, t2}
    Values = {ok, bad}
    Databases = {"postgres", "sqlite"}
    MaxWrites = 2
    MaxDowngrades = 2
    MaxFailures = 2
CHECK_DEADLOCK FALSE
INVARIANTS
    TypeOK
    ResultsSurvive
    SchemaMatchesRevision
PROPERTIES
    HeadReached
