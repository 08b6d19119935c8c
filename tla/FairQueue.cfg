SPECIFICATION Spec
CONSTANTS
    Unit = 2
    Capacity = 3
    free = free
    paid = paid
    mixed = mixed
    Keys <- MCKeys
    Offered <- MCOffered
    Items = {i1, i2, i3, i4}
INVARIANTS
    QueueWellFormed
    LenCountsItems
PROPERTIES
    PopTerminates
    ImplementsMultiFifo
