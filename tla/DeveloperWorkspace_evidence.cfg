SPECIFICATION Spec
CONSTANTS
    Workspace = {w1}
    Path = {p1, p2}
    Empty = empty
    Content = {empty, text}
    Absent = absent
    Nobody = nobody
    Racing = FALSE
    MaxFaults = 0
    MaxCrashes = 0
    MaxEdits = 0
CHECK_DEADLOCK FALSE
INVARIANTS
    EvidenceCoversTestedTree
