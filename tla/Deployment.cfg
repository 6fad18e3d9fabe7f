SPECIFICATION FairSpec
CONSTANTS
    w1 = w1
    w2 = w2
    Workers = {w1, w2}
    Databases = {"postgres", "sqlite"}
    MaxDowngrades = 1
    MaxFailures = 1
INVARIANTS
    BuiltMeansBuckets
    NamesRelaxed
    SchemaMatchesVersion
PROPERTIES
    ReadyMeansMigrated
    HeadReached
    AccessEnds
