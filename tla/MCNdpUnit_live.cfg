SPECIFICATION UnitFairSpec
CONSTANTS
  KernelIds <- MCKernelIds
  NumKernelBodies <- MCOneBody
  Columns <- MCColumns
  MaxLaunches = 2
  MaxPackets = 2
  SmemSizes = {1, 2}
  SpadSize = 4
  SpadReserve = 1
  MaxKernelLaunch = 2
  CoarseThreads = 2
  CoarseGrained = TRUE
  ScWork = TRUE
  NumSubCores = 2
  RequestQueueSize = 1
  UthreadSlots = 1
  NumXregs = 3
  SubCoreCoarseGrained = TRUE
INVARIANTS
  LaunchedFlagReleasable
PROPERTIES
  LaunchFinishes
