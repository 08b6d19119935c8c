SPECIFICATION Spec
CONSTANTS
    MaxPartial = 3
    MaxChunk = 2
    MaxSent = 8
INVARIANTS
    CountsEachFrameOnce
    LongLinesCostThemselves
CHECK_DEADLOCK FALSE
