SPECIFICATION MixedSpec
CONSTANTS
    Workspace = {w1, w2}
    Path = {p1, p2}
    Empty = empty
    Content = {empty, text}
    Absent = absent
    Nobody = nobody
    Racing = FALSE
    MaxFaults = 1
    MaxCrashes = 1
    MaxEdits = 0
SYMMETRY Symmetry
CHECK_DEADLOCK FALSE
INVARIANTS
    AppliedWorkIsNotLost
PROPERTIES
    ImplementsGovernedChange
