SPECIFICATION Spec
CONSTANTS
    InstKinds <- MCInstKinds
    Addrs <- MCAddrs
    NumBanks = 2
    PageSize = 2
    L1Size <- MCL1Size
    TlbSize <- MCTlbSize
    Modes <- MCModes
    MaxInsts = 2
INVARIANTS
    LoadsCounted
    StoresCounted
    PathExact
    FinishedOnce
PROPERTY Served
CHECK_DEADLOCK FALSE
