SPECIFICATION ShareSpec
CONSTANTS
    Unit = 2
    Capacity = 5
    free = free
    paid = paid
    mixed = mixed
    Keys <- MCKeys
    Offered <- MCOffered
    Items = {i1, i2, i3, i4, i5}
SYMMETRY ItemSymmetry
INVARIANTS
    ProportionalShare
    BoundedBypass
