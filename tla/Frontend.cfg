SPECIFICATION Spec
CONSTANTS
    Settings <- MCSettings
    r1 = r1
    r2 = r2
    r3 = r3
    Requests <- MCRequests
    NaN = NaN
    Headers <- MCHeaders
    anonymous = anonymous
INVARIANTS
    ServesOnlySoundFiles
    ChargedToOwner
    CountersMatchAnswers
    InflightCoversServed
SYMMETRY AnyOrder
CHECK_DEADLOCK FALSE
