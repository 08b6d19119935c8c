SPECIFICATION Spec
CONSTANTS
    Handlers = {h1, h2, h3}
    Cost = 2
    ReqCap = 4
    ReqRate = 3
    TokCap = 3
    TokRate = 1
    MaxConcurrent = 2
    Reservations = {1, 2}
    MaxOveruse = 1
    MaxTime = 2
    MaxCalls = 4
SYMMETRY HandlerSymmetry
INVARIANTS
    TypeOK
    ActiveCountsLeases
    RateUpToRewind
    TokenAccount
    DebtOnlyFromOveruse
PROPERTIES
    RefusalIsFree
