SPECIFICATION UnitSpec
CONSTANTS
  KernelIds <- MCKernelIds
  NumKernelBodies <- MCNumKernelBodies
  Columns <- MCEmptyEnds
  MaxLaunches = 2
  MaxPackets = 1
  SmemSizes = {1}
  SpadSize = 4
  SpadReserve = 1
  MaxKernelLaunch = 1
  CoarseThreads = 1
  CoarseGrained = FALSE
  ScWork = FALSE
  NumSubCores = 1
  RequestQueueSize = 1
  UthreadSlots = 1
  NumXregs = 4
  SubCoreCoarseGrained = FALSE
INVARIANTS
  RenameNeverUnderflows
