SPECIFICATION Spec
CONSTANTS
    Item = {i1, i2}
    Content = {c1, c2, c3}
    None = none
    Durable = TRUE
    MaxFaults = 1
    MaxCrashes = 1
    MaxEdits = 1
SYMMETRY Symmetry
CHECK_DEADLOCK FALSE
INVARIANTS
    OnlyReviewedRepairIsLive
    ApprovedMeansApplied
    LiveMeansApproved
    DecisionsSurviveRestart
PROPERTIES
    ImplementsGovernedRepair
