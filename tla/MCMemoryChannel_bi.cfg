CONSTANTS
    b1 = b1
    b2 = b2
    Blocks <- MCBlocks
    NumSectors = 1
    SetIndex <- MCSetIndex
    Assoc = 1
    MshrEntries = 2
    MshrMaxMerge = 2
    MissQueueSize = 1
    Policies <- MCPolicies
    MaxRequests = 3
    Banks <- MCBanks
    BankOf <- MCBankOf
    BiUnitOf <- MCBiUnitOf
    RequestQueueSize = 1
SPECIFICATION ChannelSpec
INVARIANT ParkedHaveInvalidation
PROPERTY RequestsReturned
CHECK_DEADLOCK FALSE
