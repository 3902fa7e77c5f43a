SPECIFICATION Spec
CONSTANTS
    Account = {o, x}
    Owner = o
    Token = {t1, t2, t3}
    None = none
    PerAccount = 2
    Total = 2
    MaxFailed = 2
    MaxPassword = 2
    Bounds <- OneOfEach
SYMMETRY Symmetry
CHECK_DEADLOCK FALSE
INVARIANT
    ChangeRevokesOthers
