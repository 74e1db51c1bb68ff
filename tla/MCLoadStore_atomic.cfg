SPECIFICATION Spec
CONSTANTS
    InstKinds <- MCInstKinds
    Addrs <- MCAddrs
    NumBanks = 2
    PageSize = 2
    L1Size <- MCL1Size
    TlbSize <- MCTlbSize
    Modes <- MCSmallModes
    MaxInsts = 2
INVARIANT AtomicsPassL1
CHECK_DEADLOCK FALSE
