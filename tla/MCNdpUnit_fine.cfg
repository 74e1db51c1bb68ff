SPECIFICATION UnitSpec
CONSTANTS
  KernelIds <- MCKernelIds
  NumKernelBodies <- MCNumKernelBodies
  Columns <- MCColumns
  MaxLaunches = 2
  MaxPackets = 3
  SmemSizes = {1}
  SpadSize = 4
  SpadReserve = 1
  MaxKernelLaunch = 2
  CoarseThreads = 4
  CoarseGrained = FALSE
  ScWork = FALSE
  NumSubCores = 2
  RequestQueueSize = 1
  UthreadSlots = 2
  NumXregs = 4
  SubCoreCoarseGrained = FALSE
INVARIANTS
  PhaseBarrier
  RequestsAccounted
  ScratchpadAlive
  OnePlace
  DependencyNeverStalls
  DependencyCounts
  RegistersReturned
  ActiveWhileWorking
PROPERTIES
  OverdraftIsShortCount
  UnitImplementsGenerator
  ImplementsKernelLaunch
