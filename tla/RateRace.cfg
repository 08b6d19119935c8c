SPECIFICATION Spec
CONSTANTS
    Handlers = {h1, h2}
    Cost = 1
    ReqCap = 1
    ReqRate = 1
    TokCap = 3
    TokRate = 1
    MaxConcurrent = 2
    Reservations = {0}
    MaxOveruse = 0
    MaxTime = 2
    MaxCalls = 4
INVARIANT RateHonoured
