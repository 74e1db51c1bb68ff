CONSTANTS
    MaxLaunches = 2
    MaxPackets = 1
    SmemSizes = {1, 4}
    SpadSize = 4
    SpadReserve = 1
    MaxKernelLaunch = 2
    CoarseThreads = 3
    CoarseGrained = FALSE
    ScWork = FALSE
    KernelIds <- MCKernelIds
    NumKernelBodies <- MCNumKernelBodies
SPECIFICATION FairSpec
PROPERTY LaunchFinishes
