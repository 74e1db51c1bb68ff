SPECIFICATION Spec
CONSTANTS
    ByteBits = 3
    PacketEntries = 4
    FExp <- MCExp
    FSqrt <- MCSqrt
    NumXregs = 24
    NumFregs = 8
    NumVregs = 16
    SCRATCHPAD_BASE = 4096
    SCRATCHPAD_MAX_SIZE = 256
    MemorySize = 100000
    Jobs <- MCJobs
    NumUnits = 2
    StrideSize = 16
    SpadSize = 256
    UthreadSlots = 2
    GarbageTypes <- MCGarbage
    Modes <- MCModes
INVARIANTS NoPanic ResultExact VerdictTrue RegistersPrivate
PROPERTIES RunEnds
CHECK_DEADLOCK FALSE
