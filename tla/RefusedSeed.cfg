SPECIFICATION FairSpec
CONSTANTS
    w1 = w1
    w2 = w2
    Workers = {w1, w2}
    Databases = {"postgres"}
    MaxDowngrades = 0
    MaxFailures = 0
PROPERTIES
    ReadyServes
