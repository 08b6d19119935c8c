SPECIFICATION Spec
CONSTANTS
    Commands <- MCCommands
    Interval = 1
    HistMax = 2
    TailMax = 3
    MaxTime = 3
    MaxChunk = 2
    MaxReply = 4
INVARIANTS
    LoadTypeOK
    EachRequestOnce
    NobodyIdle
PROPERTIES
    LatencyFromSchedule
    JudgedByWholeReply
    RunEnds
CHECK_DEADLOCK FALSE
