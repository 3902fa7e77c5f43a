SPECIFICATION Spec
CONSTANTS
    Action = {a1, a2}
    Account = {x1, x2}
    Memory = {m1, m2}
    Text = {t1, t2}
    Malformed = {t2}
    None = none
    MaxActions = 1
    Quota = 1
    MaxFaults = 1
    MaxCrashes = 1
    MaxDamages = 1
SYMMETRY Symmetry
CHECK_DEADLOCK FALSE
INVARIANTS
    OnlyApprovedArguments
    RecordTellsEffect
    StoreKeepsNewest
PROPERTIES
    ToolsRespectOwnership
