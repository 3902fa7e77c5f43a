SPECIFICATION FairSpec
CONSTANTS
    Request = {r1, r2}
    Address = {a1}
    Code = {c1}
    Permits = 2
    PairFailures = 2
    ActivePairings = 2
    ActiveDevices = 1
    AllDevices = 2
    MaxPairings = 2
INVARIANTS
    GuessesAreBounded
    PhonesActAsPaired
PROPERTIES
    ListenerAdmitsAgain
