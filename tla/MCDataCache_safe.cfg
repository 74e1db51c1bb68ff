SPECIFICATION CacheSpec
CONSTANTS
    b1 = b1
    b2 = b2
    b3 = b3
    Blocks <- MCBlocks
    NumSectors = 2
    SetIndex <- MCSetIndex
    Assoc = 2
    MshrEntries = 2
    MshrMaxMerge = 2
    MissQueueSize = 1
    Policies <- MCPolicies
    MaxRequests = 4
SYMMETRY BlockSymmetry
CHECK_DEADLOCK FALSE
INVARIANTS
    MshrsMatchFetches
    RequestsInOnePlace
    MissQueueBounded
    FillsOwnLine
