SPECIFICATION Spec
CONSTANTS
    Workspace = {w1}
    Path = {p1, p2}
    Empty = empty
    Content = {empty, text}
    Absent = absent
    Nobody = nobody
    Racing = TRUE
    MaxFaults = 1
    MaxCrashes = 1
    MaxEdits = 2
SYMMETRY Symmetry
CHECK_DEADLOCK FALSE
INVARIANTS
    CleanEvidenceCoversTestedTree
    OnlyTestedCodeIsLive
PROPERTIES
    StoreOverwritesOnlyKnownContent
