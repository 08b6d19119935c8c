SPECIFICATION GatewaySpec
CONSTANTS
    Unit = 2
    Capacity = 2
    free = free
    r1 = r1
    r2 = r2
    r3 = r3
    Requests <- MCRequests
    TenantOf <- MCTenantOf
    TierWeight <- MCTierWeight
    FifoKey = fifo
    Configs <- MCConfigs
    scheduler = scheduler
    MaxConcurrent <- MCMaxConcurrent
    Budget <- MCBudget
    MaxTokens <- MCMaxTokens
    unset = unset
    DefaultTokens = 1
    Streamed = {r1}
    BareFrames = 1
INVARIANT CapCoversSystem
