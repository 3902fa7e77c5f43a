SPECIFICATION Spec
CONSTANTS
    Doc = {d1, d2}
    Direct = {d2}
    Value = {v1, v2}
    None = none
    Bounds <- Scenarios
SYMMETRY Symmetry
CHECK_DEADLOCK FALSE
INVARIANTS
    NothingIsLost
    UpServesLast
    ProtectedAtRest
    ConflictHasACause
    BackupIsCurrent
PROPERTIES
    FailedRestoreLeavesNothing
