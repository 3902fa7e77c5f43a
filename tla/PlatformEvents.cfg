SPECIFICATION Spec
CONSTANTS
    App = {a1, a2}
    Type = {t1, t2}
    Limit = 1
    Kept = 2
    MaxEvents = 4
    MaxSecrets = 2
SYMMETRY Symmetry
INVARIANTS
    OldSecretsAreDead
PROPERTIES
    ImplementsEventFeed
