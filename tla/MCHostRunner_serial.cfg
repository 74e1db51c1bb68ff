CONSTANTS
    CxlLinkBufferSize = 2
    Units <- MCUnits
    Scenarios <- MCSerialBi
    MaxKernelRegister = 2
    MaxMps = 2
    BiHostLatency = 1
SPECIFICATION Spec
PROPERTY RunFinishes
CHECK_DEADLOCK FALSE
