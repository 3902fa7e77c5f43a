SPECIFICATION FairSpec
CONSTANTS
    Item = {i1, i2}
    Content = {c1, c2}
    None = none
    Durable = TRUE
    MaxFaults = 1
    MaxCrashes = 0
    MaxEdits = 1
CHECK_DEADLOCK FALSE
PROPERTIES
    EveryForgeRunReachesAHuman
