SPECIFICATION Spec
CONSTANTS
    Unit = 2
    Capacity = 2
    free = free
    paid = paid
    f1 = f1
    p1 = p1
    p2 = p2
    Requests <- MCRequests
    TenantOf <- MCTenantOf
    TierWeight <- MCTierWeight
    FifoKey = fifo
    Configs <- AllConfigs
    scheduler = scheduler
INVARIANTS
    TypeOK
    SlotConservation
    SlotsHaveOwners
    LimiterHolds
    NoLostWakeup
    OneSenderEach
    SlotBeforeRequest
PROPERTIES
    EveryRequestAnswered
    SlotsComeBack
    ImplementsAdmission
