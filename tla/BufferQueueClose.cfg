SPECIFICATION FairSpec
CONSTANTS
    Size = 2
    MaxBuffers = 4
    MaxStops = 2
    Feeders <- AppData
PROPERTIES
    CloseReturns
CHECK_DEADLOCK FALSE
