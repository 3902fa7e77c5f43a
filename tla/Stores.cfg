SPECIFICATION Spec
CONSTANTS
    Session = {s1, s2, s3}
    Account = {a1, a2}
    Thread = {t1, t2}
    NoSession = none
    MaxActive = 2
    MaxMessages = 4
    Student = {p1, p2}
    Quest = {q1}
    Score = {0, 1}
    Rung = 1
    PerStage = 1
    LastStage = 1
    MaxStudents = 2
    Terminal = {w1, w2}
    Report = {r1, r2}
    Proposal = {d1}
    None = none
    Last = 3
    Match = {0, 2, 4}
    Updated = {1, 2}
    Sizes <- TwoSizes
    Budgets = {3, 6}
    SearchLimit = 2
    Limit = 2
CHECK_DEADLOCK FALSE
INVARIANTS
    DocumentStaysLoadable
    RepliesSeeWholeTurns
    ProgressAddsUp
    CalmProgressIsKept
    ToldReportsAreKept
    OnlyGovernedPatchesLeave
    PlanIsMaximal
PROPERTIES
    ConversationsOnlyGrow
