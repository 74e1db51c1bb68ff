CONSTANTS
    CxlLinkBufferSize = 1
    Units <- MCUnits
    Scenarios <- MCScenarios
    MaxKernelRegister = 2
    MaxMps = 2
    BiHostLatency = 1
SPECIFICATION Spec
INVARIANTS
    RequestsCounted
    InfoAlive
    LaunchesInOrder
    
PROPERTY RunFinishes
CHECK_DEADLOCK FALSE
