SPECIFICATION FairSpec

CONSTANTS
    Programs <- MCPrograms
    NumRegs = 8
    UthreadSlots = 2
    FifoSize = 1
    InstsPerBlock = 2
    L0Size <- MCCacheSize
    L1Size <- MCCacheSize
    MaxColumns = 3
    MaxLoops = 1

INVARIANTS
    ScoreboardExact
    RegistersOwnedOnce
    FinishedIsQuiet

PROPERTIES
    ReadsAfterWrites
    ColumnsFinish

CHECK_DEADLOCK FALSE
